----------------------------- MODULE HubProofs -----------------------------
(***************************************************************************)
(* Proofs about Hub, for any set of connections and users, any channel     *)
(* capacity and any bound: the type invariant, the agreement of the hub's  *)
(* map with the clients' channels, the absence of panics without Redis,    *)
(* that the hub drops no direct message silently, that every connection's  *)
(* outgoing stream implements Outbox, that messages of one sender stay in  *)
(* order, and where and how often a message can be in the streams.         *)
(***************************************************************************)
EXTENDS Hub, FiniteSetTheorems, SequenceTheorems, TLAPS

(* What the hub's broadcast loop still has to visit is registered: between *)
(* the start of the loop and its end only the loop itself removes clients. *)
LoopInMap == /\ hleft \subseteq clients
             /\ hpc # "bcast" => hleft = {}

(* Without Redis the subscriber never leaves its receive. *)
SubscriberNeedsRedis == ~Redis => up /\ spc = "recv"

(* The writer holds messages exactly from taking the first to the frame. *)
FrameInHand == \A c \in Conns : (wpc[c] \in {"drain", "write"}) <=> (batch[c] # <<>>)

(* A connection gets its writer when the hub takes its registration. *)
WriterAfterRegister == \A c \in Conns : rpc[c] = "register" => wpc[c] = "none"

(* The inductive invariant. *)
IInv == /\ TypeOK /\ MapMatchesChannels /\ LoopInMap /\ SubscriberNeedsRedis
        /\ FrameInHand /\ WriterAfterRegister

-----------------------------------------------------------------------------
(* Lemmas about the operators the actions are built from.                  *)

LEMMA MessageTypes ==
    /\ System \in Message
    /\ \A c \in Conns, u \in Users : \A n \in 1..MaxMsgs[c] :
          Direct(c, n, u) \in Message /\ Bcast(c, n) \in Message
  BY DEF Message, Chat

LEMMA AppendKeepsType ==
    ASSUME TypeOK, NEW c \in Conns, NEW m \in Message, Len(send[c]) < SendCap,
           send' = [send EXCEPT ![c] = Append(@, m)]
    PROVE  send' \in [Conns -> Seq(Message)] /\ \A d \in Conns : Len(send'[d]) <= SendCap
<1>1. Append(send[c], m) \in Seq(Message) /\ Len(Append(send[c], m)) = Len(send[c]) + 1
  BY DEF TypeOK
<1>2. Len(send[c]) + 1 <= SendCap
  BY HubAssumption DEF TypeOK
<1>3. QED
  BY <1>1, <1>2 DEF TypeOK

LEMMA PublishKeepsType ==
    ASSUME TypeOK, NEW m \in Message, Publish(m)
    PROVE  redis' \in Seq(Message)
<1>1. redis \in Seq(Message)
  BY DEF TypeOK
<1>2. Append(redis, m) \in Seq(Message)
  BY <1>1
<1>3. QED
  BY <1>1, <1>2 DEF Publish

(* A registered client was offered a message: it entered the channel, or   *)
(* the client was given up.  The process survives either.                  *)
Offered(c, m) ==
    /\ up' = up
    /\ \/ /\ Len(send[c]) < SendCap
          /\ send' = [send EXCEPT ![c] = Append(@, m)]
          /\ clients' = clients /\ closed' = closed
       \/ /\ send' = send
          /\ clients' = clients \ {c}
          /\ closed' = [closed EXCEPT ![c] = TRUE]

LEMMA OfferEffect ==
    ASSUME TypeOK, MapMatchesChannels, NEW c \in clients, NEW m, Offer(c, m)
    PROVE  Offered(c, m)
<1>1. c \in Conns /\ ~closed[c]
  BY DEF TypeOK, MapMatchesChannels
<1>2. QED
  BY <1>1 DEF Offer, CloseAndDelete, Offered

LEMMA DeliverEffect ==
    ASSUME TypeOK, MapMatchesChannels, NEW u, NEW m, DeliverTo(u, m)
    PROVE  \/ UNCHANGED <<up, clients, send, closed>> /\ \A c \in clients : User[c] # u
           \/ \E c \in clients : User[c] = u /\ Offered(c, m)
  BY OfferEffect DEF DeliverTo

(* The part of the invariant an offer can disturb. *)
ChannelsOK == /\ up \in BOOLEAN /\ clients \subseteq Conns
              /\ send \in [Conns -> Seq(Message)]
              /\ \A c \in Conns : Len(send[c]) <= SendCap
              /\ closed \in [Conns -> BOOLEAN]

LEMMA OfferedKeepsChannels ==
    ASSUME TypeOK, MapMatchesChannels, NEW c \in clients, NEW m \in Message, Offered(c, m)
    PROVE  /\ ChannelsOK' /\ up' = up
           /\ \A d \in Conns : closed[d] => closed'[d]
           /\ \A d \in Conns : (d \in clients <=> ~closed[d]) => (d \in clients' <=> ~closed'[d])
           /\ \A d \in Conns \ {c} : closed'[d] = closed[d]
           /\ clients \ {c} \subseteq clients' /\ clients' \subseteq clients
<1>1. c \in Conns
  BY DEF TypeOK
<1>2. CASE send' = send /\ clients' = clients \ {c} /\ closed' = [closed EXCEPT ![c] = TRUE]
  BY <1>1, <1>2 DEF TypeOK, ChannelsOK, Offered
<1>3. CASE /\ Len(send[c]) < SendCap
           /\ send' = [send EXCEPT ![c] = Append(@, m)]
           /\ clients' = clients /\ closed' = closed
  BY <1>1, <1>3, AppendKeepsType DEF TypeOK, ChannelsOK, Offered
<1>4. QED
  BY <1>2, <1>3 DEF Offered

LEMMA DeliveryKeepsChannels ==
    ASSUME TypeOK, MapMatchesChannels, NEW m \in Message,
           \/ UNCHANGED <<up, clients, send, closed>>
           \/ \E c \in clients : Offered(c, m),
           \/ UNCHANGED rpc
           \/ \E c \in Conns : rpc[c] = "direct" /\ rpc' = [rpc EXCEPT ![c] = "echo"]
    PROVE  ChannelsOK' /\ up' = up /\ clients' \subseteq clients /\ MapMatchesChannels'
<1>1. \A d \in Conns : /\ rpc'[d] = "register" <=> rpc[d] = "register"
                       /\ rpc'[d] \in {"close", "done"} <=> rpc[d] \in {"close", "done"}
  BY DEF TypeOK
<1>2. CASE UNCHANGED <<up, clients, send, closed>>
  BY <1>1, <1>2 DEF TypeOK, MapMatchesChannels, ChannelsOK
<1>3. CASE \E c \in clients : Offered(c, m)
  <2>1. /\ ChannelsOK' /\ up' = up /\ clients' \subseteq clients
        /\ \A d \in Conns : closed[d] => closed'[d]
        /\ \A d \in Conns : (d \in clients <=> ~closed[d]) => (d \in clients' <=> ~closed'[d])
        /\ \A d \in Conns : d \notin clients => closed'[d] = closed[d]
    BY <1>3, OfferedKeepsChannels
  <2>2. QED
    BY <1>1, <2>1 DEF MapMatchesChannels
<1>4. QED
  BY <1>2, <1>3

-----------------------------------------------------------------------------
LEMMA InitInv == Init => IInv
  BY HubAssumption, MessageTypes
  DEF Init, IInv, TypeOK, MapMatchesChannels, LoopInMap, SubscriberNeedsRedis, FrameInHand,
    WriterAfterRegister

USE HubAssumption DEF hubVars, rdVars, wrVars, subVars, IInv, TypeOK, MapMatchesChannels,
    LoopInMap, SubscriberNeedsRedis, FrameInHand,
    WriterAfterRegister

LEMMA HubKeepsInv == ASSUME IInv, up, HubStep PROVE IInv'
<1>1. CASE HubPark
  BY <1>1 DEF HubPark
<1>2. CASE HubStatus
  BY <1>2, MessageTypes, PublishKeepsType DEF HubStatus
<1>3. CASE HubBroadcast
  <2>1. PICK c \in hleft : Offer(c, hmsg) /\ hleft' = hleft \ {c}
    BY <1>3 DEF HubBroadcast
  <2>2. c \in clients /\ Offered(c, hmsg)
    BY <2>1, OfferEffect
  <2>3. ChannelsOK' /\ MapMatchesChannels'
    BY <1>3, <2>2, DeliveryKeepsChannels DEF HubBroadcast
  <2>4. LoopInMap' /\ SubscriberNeedsRedis' /\ FrameInHand' /\ WriterAfterRegister'
    BY <1>3, <2>1, <2>2, OfferedKeepsChannels DEF HubBroadcast
  <2>5. QED
    BY <1>3, <2>1, <2>3, <2>4 DEF HubBroadcast, ChannelsOK
<1>4. CASE HubBroadcastDone
  BY <1>4, MessageTypes DEF HubBroadcastDone
<1>5. CASE \E u \in Users : HubNotify(u)
  <2>1. PICK u \in Users : HubNotify(u)
    BY <1>5
  <2>2. DeliverTo(u, System) /\ UNCHANGED rpc
    BY <2>1 DEF HubNotify
  <2>3. ChannelsOK' /\ up' = up /\ clients' \subseteq clients /\ MapMatchesChannels'
    <3> HIDE DEF TypeOK, MapMatchesChannels
    <3>1. TypeOK /\ MapMatchesChannels
      BY DEF IInv
    <3>2. \/ UNCHANGED <<up, clients, send, closed>>
          \/ \E c \in clients : Offered(c, System)
      BY <2>2, <3>1, DeliverEffect
    <3>3. QED
      BY <2>2, <3>1, <3>2, DeliveryKeepsChannels, MessageTypes
  <2>4. LoopInMap' /\ SubscriberNeedsRedis' /\ FrameInHand' /\ WriterAfterRegister'
    BY <2>1, <2>3 DEF HubNotify, HubReady
  <2>5. QED
    BY <2>1, <2>3, <2>4 DEF HubNotify, ChannelsOK
<1>6. ASSUME NEW c \in Conns, HubRegister(c) PROVE IInv'
  <2>1. TypeOK'
    BY <1>6 DEF HubRegister, NextIsStatus
  <2>2. MapMatchesChannels'
    BY <1>6 DEF HubRegister
  <2>3. LoopInMap' /\ SubscriberNeedsRedis'
    BY <1>6 DEF HubRegister, HubReady, NextIsStatus
  <2>4. FrameInHand' /\ WriterAfterRegister'
    BY <1>6 DEF HubRegister
  <2>5. QED
    BY <2>1, <2>2, <2>3, <2>4
<1>7. ASSUME NEW c \in Conns, HubUnregister(c) PROVE IInv'
  <2>1. \/ /\ c \in clients /\ up' = up /\ send' = send
             /\ clients' = clients \ {c} /\ closed' = [closed EXCEPT ![c] = TRUE]
        \/ c \notin clients /\ UNCHANGED <<up, clients, send, closed>>
    BY <1>7 DEF HubUnregister, CloseAndDelete
  <2>2. TypeOK'
    BY <1>7, <2>1 DEF HubUnregister, NextIsStatus
  <2>3. rpc[c] = "unregister" /\ rpc' = [rpc EXCEPT ![c] = "close"]
    BY <1>7 DEF HubUnregister
  <2>6. /\ rpc'[c] = "close" /\ rpc[c] = "unregister"
        /\ \A d \in Conns \ {c} : rpc'[d] = rpc[d]
    BY <2>3
  <2>7. closed'[c] /\ c \notin clients' /\ \A d \in Conns \ {c} :
           closed'[d] = closed[d] /\ (d \in clients' <=> d \in clients)
    <3>1. closed \in [Conns -> BOOLEAN] /\ (c \in clients <=> ~closed[c])
      BY <2>6
    <3> HIDE DEF IInv, TypeOK, MapMatchesChannels
    <3>2. QED
      BY <2>1, <3>1
  <2>8. MapMatchesChannels'
    <3>1. MapMatchesChannels
      OBVIOUS
    <3> HIDE DEF IInv, TypeOK
    <3>2. QED
      BY <2>6, <2>7, <3>1
  <2>4. LoopInMap' /\ SubscriberNeedsRedis' /\ FrameInHand' /\ WriterAfterRegister'
    BY <1>7, <2>1 DEF HubUnregister, HubReady, NextIsStatus
  <2>5. QED
    BY <2>2, <2>8, <2>4
<1>8. ASSUME NEW c \in Conns, HubDirect(c) PROVE IInv'
  <2>1. rmsg[c] \in Message
    OBVIOUS
  <2>2. DeliverTo(rmsg[c].to, rmsg[c]) /\ rpc' = [rpc EXCEPT ![c] = "echo"] /\ rpc[c] = "direct"
    BY <1>8 DEF HubDirect
  <2>3. ChannelsOK' /\ up' = up /\ clients' \subseteq clients /\ MapMatchesChannels'
    <3> HIDE DEF TypeOK, MapMatchesChannels
    <3>1. TypeOK /\ MapMatchesChannels
      BY DEF IInv
    <3>2. \/ UNCHANGED <<up, clients, send, closed>>
          \/ \E r \in clients : Offered(r, rmsg[c])
      BY <2>2, <3>1, DeliverEffect
    <3>3. QED
      BY <2>1, <2>2, <3>1, <3>2, DeliveryKeepsChannels
  <2>4. LoopInMap' /\ SubscriberNeedsRedis' /\ FrameInHand' /\ WriterAfterRegister'
    BY <1>8, <2>3 DEF HubDirect, HubReady
  <2>5. QED
    BY <1>8, <2>3, <2>4 DEF HubDirect, ChannelsOK
<1>9. QED
  BY <1>1, <1>2, <1>3, <1>4, <1>5, <1>6, <1>7, <1>8 DEF HubStep

LEMMA ReaderKeepsInv == ASSUME IInv, up, NEW c \in Conns, ReaderStep(c) PROVE IInv'
<1> USE MessageTypes DEF Goto
<1>1. CASE ReadControl(c)
  BY <1>1 DEF ReadControl
<1>2. CASE ReadDirect(c)
  BY <1>2 DEF ReadDirect
<1>3. CASE ReadBroadcast(c)
  BY <1>3 DEF ReadBroadcast
<1>4. CASE ReaderPublish(c)
  <2>1. redis' \in Seq(Message)
    BY <1>4, PublishKeepsType DEF ReaderPublish
  <2>2. QED
    BY <1>4, <2>1 DEF ReaderPublish
<1>5. CASE ReaderOffer(c)
  BY <1>5 DEF ReaderOffer
<1>6. CASE ReaderSend(c)
  <2>1. send' \in [Conns -> Seq(Message)] /\ \A d \in Conns : Len(send'[d]) <= SendCap
    BY <1>6, AppendKeepsType DEF ReaderSend
  <2>2. TypeOK'
    <3>1. /\ rpc' = [rpc EXCEPT ![c] = "unregister"] \/ rpc' = [rpc EXCEPT ![c] = "read"]
          /\ rmsg' = [rmsg EXCEPT ![c] = System]
          /\ UNCHANGED <<up, clients, hubVars, sent, notices, wrVars, closed, conn, redis, subVars>>
      BY <1>6 DEF ReaderSend
    <3>2. QED
      BY <2>1, <3>1
  <2>3. MapMatchesChannels'
    BY <1>6 DEF ReaderSend
  <2>4. QED
    BY <1>6, <2>2, <2>3 DEF ReaderSend
<1>7. CASE ReadFail(c)
  BY <1>7 DEF ReadFail
<1>8. CASE ReaderClose(c)
  BY <1>8 DEF ReaderClose
<1>9. QED
  BY <1>1, <1>2, <1>3, <1>4, <1>5, <1>6, <1>7, <1>8 DEF ReaderStep

LEMMA WriterKeepsInv == ASSUME IInv, up, NEW c \in Conns, WriterStep(c) PROVE IInv'
<1> USE DEF WriterExit
<1>1. CASE WriteTake(c)
  <2>1. \A s \in Seq(Message) : s # <<>> =>
           /\ Tail(s) \in Seq(Message) /\ Len(Tail(s)) = Len(s) - 1 /\ Len(s) \in Nat
           /\ <<Head(s)>> \in Seq(Message) /\ <<Head(s)>> # <<>>
    OBVIOUS
  <2>2. <<>> \in Seq(Message) /\ Len(<<>>) = 0
    OBVIOUS
  <2>3. CASE /\ batch' = [batch EXCEPT ![c] = <<Head(send[c])>>]
             /\ send' = [send EXCEPT ![c] = Tail(@)]
             /\ wpc' = [wpc EXCEPT ![c] = "drain"]
             /\ UNCHANGED conn
    <3>1. TypeOK'
      BY <1>1, <2>1, <2>3 DEF WriteTake
    <3>2. FrameInHand' /\ WriterAfterRegister'
      BY <1>1, <2>3 DEF WriteTake
    <3>3. QED
      BY <1>1, <3>1, <3>2 DEF WriteTake
  <2>4. CASE send' = [send EXCEPT ![c] = Tail(@)] /\ WriterExit(c)
    <3>1. TypeOK'
      BY <1>1, <2>1, <2>2, <2>4 DEF WriteTake
    <3>2. FrameInHand' /\ WriterAfterRegister'
      BY <1>1, <2>4 DEF WriteTake
    <3>3. QED
      BY <1>1, <3>1, <3>2 DEF WriteTake
  <2>5. QED
    BY <1>1, <2>3, <2>4 DEF WriteTake
<1>5. CASE WriteDrain(c)
  <2>1. batch[c] \in Seq(Message) /\ send[c] \in Seq(Message) /\ batch[c] # <<>>
    BY <1>5 DEF WriteDrain
  <2>2. /\ batch[c] \o send[c] \in Seq(Message) /\ batch[c] \o send[c] # <<>>
        /\ <<>> \in Seq(Message) /\ Len(<<>>) = 0
    BY <2>1
  <2>3. /\ batch' = [batch EXCEPT ![c] = batch[c] \o send[c]]
        /\ send' = [send EXCEPT ![c] = <<>>]
        /\ wpc' = [wpc EXCEPT ![c] = "write"]
    BY <1>5 DEF WriteDrain
  <2>4. TypeOK'
    BY <1>5, <2>2, <2>3 DEF WriteDrain
  <2>5. FrameInHand' /\ WriterAfterRegister'
    BY <1>5, <2>2, <2>3 DEF WriteDrain
  <2>6. QED
    BY <1>5, <2>4, <2>5 DEF WriteDrain
<1>2. CASE WriteFrame(c)
  <2>1. wire[c] \in Seq(Message) /\ batch[c] \in Seq(Message)
    OBVIOUS
  <2>2. wire[c] \o batch[c] \in Seq(Message) /\ <<>> \in Seq(Message)
    BY <2>1
  <2>7. /\ wire \in [Conns -> Seq(Message)] /\ batch \in [Conns -> Seq(Message)]
        /\ wpc \in [Conns -> {"none", "wait", "drain", "write", "done"}]
        /\ conn \in [Conns -> {"open", "lost", "closed"}]
        /\ FrameInHand /\ WriterAfterRegister
    OBVIOUS
  <2>3. /\ wire' \in [Conns -> Seq(Message)] /\ batch' \in [Conns -> Seq(Message)]
        /\ wpc' \in [Conns -> {"none", "wait", "drain", "write", "done"}]
        /\ conn' \in [Conns -> {"open", "lost", "closed"}]
    <3> HIDE DEF IInv, TypeOK, MapMatchesChannels, FrameInHand, WriterAfterRegister
    <3>1. wire' \in [Conns -> Seq(Message)]
      <4>1. wire' = wire \/ wire' = [wire EXCEPT ![c] = wire[c] \o batch[c]]
        BY <1>2, <2>7 DEF WriteFrame
      <4>2. QED
        BY <2>2, <2>7, <4>1
    <3>2. batch' = [batch EXCEPT ![c] = <<>>]
      BY <1>2 DEF WriteFrame
    <3>3. batch' \in [Conns -> Seq(Message)]
      BY <2>2, <2>7, <3>2
    <3>4. /\ wpc' \in [Conns -> {"none", "wait", "drain", "write", "done"}]
          /\ conn' \in [Conns -> {"open", "lost", "closed"}]
      BY <1>2, <2>7 DEF WriteFrame
    <3>5. QED
      BY <3>1, <3>3, <3>4
  <2>4. TypeOK'
    BY <1>2, <2>3 DEF WriteFrame
  <2>5. FrameInHand' /\ WriterAfterRegister'
    <3> HIDE DEF IInv, TypeOK, MapMatchesChannels
    <3>1. QED
      BY <1>2, <2>7 DEF WriteFrame
  <2>6. QED
    BY <1>2, <2>4, <2>5 DEF WriteFrame
<1>3. CASE WriteClosed(c)
  BY <1>3 DEF WriteClosed
<1>4. CASE PingFail(c)
  BY <1>4 DEF PingFail
<1>6. QED
  BY <1>1, <1>2, <1>3, <1>4, <1>5 DEF WriterStep

LEMMA SubscriberKeepsInv == ASSUME IInv, up, SubStep PROVE IInv'
<1>1. CASE SubReceive
  BY <1>1 DEF SubReceive
<1>2. CASE SubDone
  BY <1>2, MessageTypes DEF SubDone
<1>3. CASE SubFatal
  BY <1>3 DEF SubFatal
<1>4. ASSUME NEW c \in Conns, SubSend(c) PROVE IInv'
  <2>1. \/ send' = send
        \/ Len(send[c]) < SendCap /\ send' = [send EXCEPT ![c] = Append(@, smsg)]
    <3>1. send \in [Conns -> Seq(Message)]
      OBVIOUS
    <3> HIDE DEF IInv, TypeOK
    <3>2. QED
      BY <1>4, <3>1 DEF SubSend
  <2>3. send' \in [Conns -> Seq(Message)] /\ \A d \in Conns : Len(send'[d]) <= SendCap
    BY <2>1, AppendKeepsType
  <2>2. QED
    BY <1>4, <2>3 DEF SubSend
<1>5. ASSUME NEW c \in Conns, SubSkip(c) PROVE IInv'
  BY <1>5 DEF SubSkip
<1>6. QED
  BY <1>1, <1>2, <1>3, <1>4, <1>5 DEF SubStep

LEMMA StepKeepsInv == IInv /\ [Next]_vars => IInv'
<1> SUFFICES ASSUME IInv, [Next]_vars PROVE IInv'
  OBVIOUS
<1>1. CASE UNCHANGED vars
  BY <1>1 DEF vars
<1>2. ASSUME up, NEW c \in Conns, Disconnect(c) PROVE IInv'
  BY <1>2 DEF Disconnect
<1>3. QED
  BY <1>1, <1>2, HubKeepsInv, ReaderKeepsInv, WriterKeepsInv, SubscriberKeepsInv DEF Next

-----------------------------------------------------------------------------
(* The inductive invariant holds of every state of the server process. *)
THEOREM Invariance == Spec => []IInv
  BY InitInv, StepKeepsInv, PTL DEF Spec

(* Every variable keeps its type; no Client.send holds more than its       *)
(* capacity (hub.go:185).                                                  *)
THEOREM TypeCorrect == Spec => []TypeOK
<1>1. IInv => TypeOK
  BY DEF IInv
<1>2. QED
  BY <1>1, Invariance, PTL

(* The hub's map and the clients' channels agree in every state (Hub.Run   *)
(* and Register, hub.go:81-190): a registered client's channel is open,    *)
(* every other connection that was registered has a closed one.            *)
THEOREM MapAgreement == Spec => []MapMatchesChannels
<1>1. IInv => MapMatchesChannels
  BY DEF IInv
<1>2. QED
  BY <1>1, Invariance, PTL

(* Without Redis no goroutine brings the process down: neither a send on a *)
(* closed channel nor a second close happens in Hub.Run, however clients   *)
(* are evicted, lost and unregistered.                                     *)
THEOREM NoPanicWithoutRedis == Spec => []OnlyRedisPanics
<1>1. IInv => OnlyRedisPanics
  BY DEF IInv, SubscriberNeedsRedis, OnlyRedisPanics
<1>2. QED
  BY <1>1, Invariance, PTL

-----------------------------------------------------------------------------
(* Only the hub's receive moves a reader from its direct send to its echo. *)
LEMMA OnlyHubTakesDirect ==
    ASSUME IInv, Next, NEW c \in Conns, rpc[c] = "direct", rpc'[c] = "echo"
    PROVE  HubDirect(c)
<1> USE DEF Goto
<1>0. rpc \in [Conns -> {"register", "read", "reply", "direct", "echo",
                         "publish", "offer", "unregister", "close", "done"}]
  BY DEF IInv, TypeOK
<1> HIDE DEF IInv, TypeOK, MapMatchesChannels, LoopInMap, SubscriberNeedsRedis, FrameInHand,
             WriterAfterRegister
<1>1. ASSUME UNCHANGED rpc PROVE FALSE
  BY <1>1
<1>2. ASSUME NEW d \in Conns, ReaderStep(d) PROVE FALSE
  BY <1>0, <1>2 DEF ReaderStep, ReadControl, ReadDirect, ReadBroadcast, ReaderPublish,
                    ReaderOffer, ReaderSend, ReadFail, ReaderClose
<1>3. ASSUME NEW d \in Conns, WriterStep(d) \/ Disconnect(d) PROVE UNCHANGED rpc
  BY <1>3 DEF WriterStep, WriteTake, WriteDrain, WriteFrame, WriteClosed, PingFail, Disconnect
<1>4. ASSUME SubStep PROVE UNCHANGED rpc
  BY <1>4 DEF SubStep, SubReceive, SubDone, SubFatal, SubSend, SubSkip
<1>5. ASSUME NEW d \in Conns, HubRegister(d) \/ HubUnregister(d) PROVE FALSE
  BY <1>0, <1>5 DEF HubRegister, HubUnregister
<1>6. ASSUME \/ HubPark \/ HubStatus \/ HubBroadcast \/ HubBroadcastDone
             \/ \E u \in Users : HubNotify(u)
      PROVE  UNCHANGED rpc
  BY <1>6 DEF HubPark, HubStatus, HubBroadcast, HubBroadcastDone, HubNotify
<1>7. ASSUME NEW d \in Conns, HubDirect(d) PROVE d = c
  BY <1>0, <1>7 DEF HubDirect
<1>8. QED
  BY <1>1, <1>2, <1>3, <1>4, <1>5, <1>6, <1>7 DEF Next, HubStep

(* A direct message taken while its recipient is connected is queued for   *)
(* one of the recipient's connections, or costs that connection its place  *)
(* in the map (the directMsg case, hub.go:137-159).                        *)
THEOREM DirectNeverDropped == Spec => NoSilentLoss
<1> DEFINE Kept(c) == (rpc[c] = "direct" /\ rpc'[c] = "echo") =>
                        LET R == {r \in clients : User[r] = rmsg[c].to}
                        IN \/ R = {}
                           \/ \E r \in R : r \notin clients' \/ send'[r] = Append(send[r], rmsg[c])
<1>1. IInv /\ [Next]_vars => [\A c \in Conns : Kept(c)]_vars
  <2> SUFFICES ASSUME IInv, Next, NEW c \in Conns, rpc[c] = "direct", rpc'[c] = "echo"
               PROVE  Kept(c)
    OBVIOUS
  <2> HIDE DEF LoopInMap, SubscriberNeedsRedis, FrameInHand, WriterAfterRegister
  <2>1. DeliverTo(rmsg[c].to, rmsg[c])
    BY OnlyHubTakesDirect DEF HubDirect
  <2>2. TypeOK /\ MapMatchesChannels /\ send \in [Conns -> Seq(Message)] /\ clients \subseteq Conns
    OBVIOUS
  <2> HIDE DEF IInv, TypeOK, MapMatchesChannels
  <2>3. CASE \A r \in clients : User[r] # rmsg[c].to
    BY <2>3
  <2>4. CASE \E r \in clients : User[r] = rmsg[c].to /\ Offered(r, rmsg[c])
    <3>1. PICK r \in clients : User[r] = rmsg[c].to /\ Offered(r, rmsg[c])
      BY <2>4
    <3>2. r \notin clients' \/ send'[r] = Append(send[r], rmsg[c])
      BY <2>2, <3>1 DEF Offered
    <3>3. QED
      BY <3>1, <3>2
  <2>5. QED
    BY <2>1, <2>2, <2>3, <2>4, DeliverEffect
<1>2. QED
  BY <1>1, Invariance, PTL DEF Spec, NoSilentLoss

-----------------------------------------------------------------------------
(* From here on the invariant is opened only where a step needs a part.    *)

HIDE DEF IInv, TypeOK, MapMatchesChannels, LoopInMap, SubscriberNeedsRedis, FrameInHand,
    WriterAfterRegister

-----------------------------------------------------------------------------
(* Hub implements Outbox: every step of the server process is, for every   *)
(* connection, a step of the abstract outgoing stream or leaves it alone.  *)

(* A step of the outbox of connection d, or a stutter. *)
StreamStep(d) == [OutboxOf(d)!Next]_(OutboxOf(d)!vars)

-----------------------------------------------------------------------------
(* Facts about sequences of messages.                                      *)

LEMMA AppendBehind ==
    ASSUME NEW s \in Seq(Message), NEW t \in Seq(Message), NEW m \in Message
    PROVE  s \o Append(t, m) = Append(s \o t, m)
  OBVIOUS

LEMMA FirstPart ==
    ASSUME NEW s \in Seq(Message), NEW t \in Seq(Message), s # <<>>
    PROVE  /\ Len(s) \in 1..Len(s \o t)
           /\ SubSeq(s \o t, 1, Len(s)) = s
           /\ SubSeq(s \o t, Len(s) + 1, Len(s \o t)) = t
  OBVIOUS

LEMMA Whole ==
    ASSUME NEW s \in Seq(Message)
    PROVE  /\ SubSeq(s, 0 + 1, Len(s)) = s
           /\ <<>> \o s = s /\ s \o <<>> = s /\ <<>> \in Seq(Message)
           /\ s # <<>> => 1 \in 1..Len(s) /\ SubSeq(s, 1 + 1, Len(s)) = Tail(s)
  OBVIOUS

-----------------------------------------------------------------------------
(* How a step of the process looks from one stream.                        *)

(* the part of a connection the outbox sees *)
Seen(d) == <<batch[d], send[d], wire[d], closed[d], conn[d], up>>

LEMMA SeenTypes ==
    ASSUME IInv, NEW d \in Conns
    PROVE  /\ batch[d] \in Seq(Message) /\ send[d] \in Seq(Message)
           /\ batch[d] \o send[d] \in Seq(Message)
           /\ closed[d] \in BOOLEAN
  BY DEF IInv, TypeOK

LEMMA StreamStutters ==
    ASSUME NEW d \in Conns, UNCHANGED Seen(d)
    PROVE  StreamStep(d)
  BY DEF StreamStep, Seen, OutboxOf!vars

LEMMA StreamAccepts ==
    ASSUME IInv, up, NEW d \in Conns, NEW m \in Message, ~closed[d],
           send'[d] = Append(send[d], m),
           UNCHANGED <<batch[d], wire[d], closed[d], conn[d], up>>
    PROVE  StreamStep(d)
<1>1. batch[d] \in Seq(Message) /\ send[d] \in Seq(Message)
  BY SeenTypes
<1>2. batch'[d] \o send'[d] = Append(batch[d] \o send[d], m)
  BY <1>1, AppendBehind
<1>3. OutboxOf(d)!Accept
  BY <1>2 DEF OutboxOf!Accept
<1>4. QED
  BY <1>3 DEF StreamStep, OutboxOf!Next

LEMMA StreamCloses ==
    ASSUME up, NEW d \in Conns, ~closed[d], closed'[d] = TRUE,
           UNCHANGED <<batch[d], send[d], wire[d], conn[d], up>>
    PROVE  StreamStep(d)
<1>1. OutboxOf(d)!Close
  BY DEF OutboxOf!Close
<1>2. QED
  BY <1>1 DEF StreamStep, OutboxOf!Next

LEMMA StreamCrashes ==
    ASSUME up, NEW d \in Conns, up' = FALSE,
           UNCHANGED <<batch[d], send[d], wire[d], closed[d], conn[d]>>
    PROVE  StreamStep(d)
<1>1. OutboxOf(d)!Crash
  BY DEF OutboxOf!Crash
<1>2. QED
  BY <1>1 DEF StreamStep, OutboxOf!Next

(* The transport goes bad; nothing queued is touched. *)
LEMMA StreamBreaks ==
    ASSUME IInv, up, NEW d \in Conns, conn'[d] # "open",
           batch'[d] \o send'[d] = batch[d] \o send[d],
           UNCHANGED <<wire[d], closed[d], up>>
    PROVE  StreamStep(d)
<1>1. CASE conn[d] # "open"
  BY <1>1 DEF StreamStep, OutboxOf!vars
<1>2. CASE conn[d] = "open"
  <2> DEFINE p == batch[d] \o send[d]
  <2>0. p \in Seq(Message)
    BY SeenTypes
  <2>1. 0 \in 0..Len(p) /\ SubSeq(p, 0 + 1, Len(p)) = p
    <3> HIDE DEF p
    <3>1. QED
      BY <2>0, Whole
  <2>2. OutboxOf(d)!Break
    BY <1>2, <2>1 DEF OutboxOf!Break
  <2>3. QED
    BY <2>2 DEF StreamStep, OutboxOf!Next
<1>3. QED
  BY <1>1, <1>2

(* On a bad transport some of the oldest messages are lost. *)
LEMMA StreamLoses ==
    ASSUME IInv, up, NEW d \in Conns, conn[d] # "open", conn'[d] # "open",
           NEW k \in 1..Len(batch[d] \o send[d]),
           batch'[d] \o send'[d] = SubSeq(batch[d] \o send[d], k + 1, Len(batch[d] \o send[d])),
           UNCHANGED <<wire[d], closed[d], up>>
    PROVE  StreamStep(d)
<1>1. OutboxOf(d)!Lose
  BY DEF OutboxOf!Lose
<1>2. QED
  BY <1>1 DEF StreamStep, OutboxOf!Next

(* The frame in the writer's hands reaches the peer. *)
LEMMA StreamReceives ==
    ASSUME IInv, up, NEW d \in Conns, conn[d] = "open", conn'[d] = "open", batch[d] # <<>>,
           batch'[d] = <<>>, wire'[d] = wire[d] \o batch[d],
           UNCHANGED <<send[d], closed[d], up>>
    PROVE  StreamStep(d)
<1>1. /\ Len(batch[d]) \in 1..Len(batch[d] \o send[d])
      /\ SubSeq(batch[d] \o send[d], 1, Len(batch[d])) = batch[d]
      /\ SubSeq(batch[d] \o send[d], Len(batch[d]) + 1, Len(batch[d] \o send[d])) = send[d]
  BY SeenTypes, FirstPart
<1>2. batch'[d] \o send'[d] = send[d]
  BY SeenTypes, Whole
<1>3. OutboxOf(d)!Receive
  BY <1>1, <1>2 DEF OutboxOf!Receive
<1>4. QED
  BY <1>3 DEF StreamStep, OutboxOf!Next

-----------------------------------------------------------------------------
LEMMA InitStreams == Init => \A d \in Conns : OutboxOf(d)!Init
  BY DEF Init, OutboxOf!Init

LEMMA StreamsOfOffer ==
    ASSUME IInv, up, NEW c \in clients, NEW m \in Message, Offered(c, m),
           UNCHANGED <<wrVars, conn>>, NEW d \in Conns
    PROVE  StreamStep(d)
<1>1. /\ c \in Conns /\ ~closed[c] /\ closed \in [Conns -> BOOLEAN]
      /\ send \in [Conns -> Seq(Message)]
  BY DEF IInv, TypeOK, MapMatchesChannels
<1>2. CASE d # c
  <2>1. UNCHANGED Seen(d)
    BY <1>1, <1>2 DEF Offered, Seen
  <2>2. QED
    BY <2>1, StreamStutters
<1>3. CASE d = c /\ send' = [send EXCEPT ![c] = Append(@, m)] /\ closed' = closed /\ up' = up
  <2>1. send'[d] = Append(send[d], m) /\ UNCHANGED <<batch[d], wire[d], closed[d], conn[d], up>>
    BY <1>1, <1>3
  <2>2. QED
    BY <1>1, <1>3, <2>1, StreamAccepts
<1>4. CASE d = c /\ send' = send /\ closed' = [closed EXCEPT ![c] = TRUE] /\ up' = up
  <2>1. closed'[d] = TRUE /\ UNCHANGED <<batch[d], send[d], wire[d], conn[d], up>>
    BY <1>1, <1>4
  <2>2. QED
    BY <1>1, <1>4, <2>1, StreamCloses
<1>5. QED
  BY <1>2, <1>3, <1>4 DEF Offered

LEMMA StreamsOfDelivery ==
    ASSUME IInv, up, NEW u, NEW m \in Message, DeliverTo(u, m), UNCHANGED <<wrVars, conn>>,
           NEW d \in Conns
    PROVE  StreamStep(d)
<1>1. TypeOK /\ MapMatchesChannels
  BY DEF IInv
<1>2. CASE UNCHANGED <<up, clients, send, closed>>
  BY <1>2, StreamStutters DEF Seen
<1>3. CASE \E c \in clients : Offered(c, m)
  BY <1>3, StreamsOfOffer
<1>4. QED
  BY <1>1, <1>2, <1>3, DeliverEffect

LEMMA StreamsOfHub ==
    ASSUME IInv, up, HubStep, NEW d \in Conns
    PROVE  StreamStep(d)
<1>1. /\ rmsg \in [Conns -> Message] /\ hmsg \in Message /\ System \in Message
      /\ hleft \subseteq clients /\ TypeOK /\ MapMatchesChannels
      /\ closed \in [Conns -> BOOLEAN] /\ \A c \in clients : ~closed[c]
      /\ \A c \in Conns : c \in clients \/ closed[c] \/ rpc[c] = "register"
  BY MessageTypes DEF IInv, TypeOK, LoopInMap, MapMatchesChannels
<1>2. CASE HubPark \/ HubStatus \/ HubBroadcastDone
  BY <1>2, StreamStutters DEF HubPark, HubStatus, HubBroadcastDone, Seen
<1>3. CASE HubBroadcast
  <2>1. PICK c \in hleft : Offer(c, hmsg) /\ UNCHANGED <<wrVars, conn>>
    BY <1>3 DEF HubBroadcast
  <2>2. c \in clients /\ Offered(c, hmsg)
    BY <1>1, <2>1, OfferEffect
  <2>3. QED
    BY <1>1, <2>1, <2>2, StreamsOfOffer
<1>4. ASSUME NEW u \in Users, HubNotify(u) PROVE StreamStep(d)
  <2>1. DeliverTo(u, System) /\ UNCHANGED <<wrVars, conn>>
    BY <1>4 DEF HubNotify
  <2>2. QED
    BY <1>1, <2>1, StreamsOfDelivery
<1>5. ASSUME NEW c \in Conns, HubDirect(c) PROVE StreamStep(d)
  <2>1. DeliverTo(rmsg[c].to, rmsg[c]) /\ UNCHANGED <<wrVars, conn>> /\ rmsg[c] \in Message
    BY <1>1, <1>5 DEF HubDirect
  <2>2. QED
    BY <2>1, StreamsOfDelivery
<1>6. ASSUME NEW c \in Conns, HubRegister(c) PROVE StreamStep(d)
  BY <1>6, StreamStutters DEF HubRegister, Seen
<1>7. ASSUME NEW c \in Conns, HubUnregister(c) PROVE StreamStep(d)
  <2>1. CASE c \in clients
    <3>1. Offered(c, System) /\ UNCHANGED <<wrVars, conn>>
      BY <1>1, <1>7, <2>1 DEF HubUnregister, CloseAndDelete, Offered
    <3>2. QED
      BY <1>1, <2>1, <3>1, StreamsOfOffer
  <2>2. CASE c \notin clients
    BY <1>7, <2>2, StreamStutters DEF HubUnregister, Seen
  <2>3. QED
    BY <2>1, <2>2
<1>8. QED
  BY <1>2, <1>3, <1>4, <1>5, <1>6, <1>7 DEF HubStep

LEMMA StreamsOfReader ==
    ASSUME IInv, up, NEW c \in Conns, ReaderStep(c) \/ Disconnect(c), NEW d \in Conns
    PROVE  StreamStep(d)
<1>1. /\ rmsg \in [Conns -> Message] /\ closed \in [Conns -> BOOLEAN]
      /\ send \in [Conns -> Seq(Message)] /\ conn \in [Conns -> {"open", "lost", "closed"}]
  BY DEF IInv, TypeOK
<1>2. CASE \/ ReadControl(c) \/ ReadDirect(c) \/ ReadBroadcast(c) \/ ReaderPublish(c)
           \/ ReaderOffer(c) \/ ReadFail(c)
  BY <1>2, StreamStutters DEF ReadControl, ReadDirect, ReadBroadcast, ReaderPublish, ReaderOffer,
                              ReadFail, Seen
<1>3. CASE ReaderSend(c)
  <2>1. UNCHANGED <<up, wrVars, closed, conn>>
    BY <1>3 DEF ReaderSend
  <2>2. CASE UNCHANGED send[d]
    BY <2>1, <2>2, StreamStutters DEF Seen
  <2>3. CASE send'[d] # send[d]
    <3>1. d = c /\ ~closed[d] /\ send'[d] = Append(send[d], rmsg[d]) /\ rmsg[d] \in Message
      BY <1>1, <1>3, <2>3 DEF ReaderSend
    <3>2. QED
      BY <2>1, <3>1, StreamAccepts
  <2>4. QED
    BY <2>2, <2>3
<1>4. CASE ReaderClose(c) \/ Disconnect(c)
  <2>1. UNCHANGED <<up, wrVars, send, closed>> /\ (conn'[d] = conn[d] \/ conn'[d] # "open")
    BY <1>1, <1>4 DEF ReaderClose, Disconnect
  <2>2. QED
    BY <2>1, StreamBreaks, StreamStutters DEF Seen
<1>5. QED
  BY <1>2, <1>3, <1>4 DEF ReaderStep

LEMMA StreamsOfWriter ==
    ASSUME IInv, up, NEW c \in Conns, WriterStep(c), NEW d \in Conns
    PROVE  StreamStep(d)
<1>1. /\ send \in [Conns -> Seq(Message)] /\ conn \in [Conns -> {"open", "lost", "closed"}]
      /\ batch \in [Conns -> Seq(Message)] /\ wire \in [Conns -> Seq(Message)]
      /\ (wpc[c] \in {"drain", "write"}) <=> (batch[c] # <<>>)
  BY DEF IInv, TypeOK, FrameInHand
<1> USE DEF WriterExit
<1>2. UNCHANGED <<up, closed>>
  BY DEF WriterStep, WriteTake, WriteDrain, WriteFrame, WriteClosed, PingFail
<1>3. CASE d # c
  <2>1. UNCHANGED Seen(d)
    BY <1>1, <1>2, <1>3 DEF WriterStep, WriteTake, WriteDrain, WriteFrame, WriteClosed, PingFail, Seen
  <2>2. QED
    BY <2>1, StreamStutters
<1>4. CASE d = c /\ WriteTake(c)
  <2>1. batch[d] = <<>> /\ send[d] # <<>> /\ send[d] \in Seq(Message) /\ wire'[d] = wire[d]
    BY <1>1, <1>4 DEF WriteTake
  <2>2. CASE batch'[d] = <<Head(send[d])>> /\ send'[d] = Tail(send[d]) /\ conn'[d] = conn[d]
    <3>0. <<Head(send[d])>> \o Tail(send[d]) = send[d]
      BY <2>1
    <3>1. batch'[d] \o send'[d] = batch[d] \o send[d]
      BY <2>1, <2>2, <3>0, Whole
    <3>2. QED
      BY <1>2, <2>1, <2>2, <3>1 DEF StreamStep, OutboxOf!vars
  <2>3. CASE batch'[d] = <<>> /\ send'[d] = Tail(send[d]) /\ conn[d] # "open" /\ conn'[d] = "closed"
    <3>1. /\ batch[d] \o send[d] = send[d] /\ 1 \in 1..Len(send[d])
          /\ SubSeq(send[d], 1 + 1, Len(send[d])) = Tail(send[d])
      BY <2>1, Whole
    <3>2. Tail(send[d]) \in Seq(Message)
      BY <2>1
    <3>3. batch'[d] \o send'[d] = Tail(send[d])
      BY <2>3, <3>2, Whole
    <3>4. QED
      BY <1>2, <2>1, <2>3, <3>1, <3>3, StreamLoses
  <2>4. QED
    BY <1>1, <1>4, <2>2, <2>3 DEF WriteTake
<1>5. CASE d = c /\ WriteFrame(c)
  <2>1. batch[d] # <<>> /\ batch'[d] = <<>> /\ send'[d] = send[d] /\ send[d] \in Seq(Message)
    BY <1>1, <1>5 DEF WriteFrame
  <2>2. CASE conn[d] = "open" /\ conn'[d] = "open" /\ wire'[d] = wire[d] \o batch[d]
    BY <1>2, <2>1, <2>2, StreamReceives
  <2>3. CASE conn[d] # "open" /\ conn'[d] # "open" /\ wire'[d] = wire[d]
    <3>1. /\ Len(batch[d]) \in 1..Len(batch[d] \o send[d])
          /\ SubSeq(batch[d] \o send[d], Len(batch[d]) + 1, Len(batch[d] \o send[d])) = send[d]
      BY <1>1, <2>1, FirstPart
    <3>2. batch'[d] \o send'[d] = send[d]
      BY <2>1, Whole
    <3>3. QED
      BY <1>2, <2>3, <3>1, <3>2, StreamLoses
  <2>4. QED
    BY <1>1, <1>5, <2>2, <2>3 DEF WriteFrame
<1>6. CASE d = c /\ (WriteClosed(c) \/ PingFail(c))
  <2>1. /\ batch[d] = <<>> /\ batch'[d] = <<>> /\ send'[d] = send[d]
        /\ conn'[d] # "open" /\ wire'[d] = wire[d]
    BY <1>1, <1>6 DEF WriteClosed, PingFail
  <2>2. QED
    BY <1>2, <2>1, StreamBreaks
<1>7. CASE d = c /\ WriteDrain(c)
  <2>1. /\ batch'[d] = batch[d] \o send[d] /\ send'[d] = <<>>
        /\ wire'[d] = wire[d] /\ conn'[d] = conn[d]
    BY <1>1, <1>7 DEF WriteDrain
  <2>2. batch'[d] \o send'[d] = batch[d] \o send[d]
    BY <1>1, <2>1
  <2>3. QED
    BY <1>2, <2>1, <2>2 DEF StreamStep, OutboxOf!vars
<1>8. QED
  BY <1>3, <1>4, <1>5, <1>6, <1>7 DEF WriterStep

LEMMA StreamsOfSubscriber ==
    ASSUME IInv, up, SubStep, NEW d \in Conns
    PROVE  StreamStep(d)
<1>1. smsg \in Message /\ closed \in [Conns -> BOOLEAN] /\ send \in [Conns -> Seq(Message)]
  BY DEF IInv, TypeOK
<1>2. CASE SubReceive \/ SubDone
  BY <1>2, StreamStutters DEF SubReceive, SubDone, Seen
<1>3. CASE SubFatal
  BY <1>3, StreamCrashes DEF SubFatal
<1>4. ASSUME NEW c \in Conns, SubSkip(c) PROVE StreamStep(d)
  BY <1>4, StreamStutters DEF SubSkip, Seen
<1>5. ASSUME NEW c \in Conns, SubSend(c) PROVE StreamStep(d)
  <2>1. UNCHANGED <<wrVars, closed, conn>>
    BY <1>5 DEF SubSend
  <2>2. CASE up' = FALSE
    BY <1>5, <2>1, <2>2, StreamCrashes DEF SubSend
  <2>3. CASE UNCHANGED <<up, send[d]>>
    BY <2>1, <2>3, StreamStutters DEF Seen
  <2>4. CASE UNCHANGED up /\ send'[d] # send[d]
    <3>1. ~closed[d] /\ send'[d] = Append(send[d], smsg)
      BY <1>1, <1>5, <2>4 DEF SubSend
    <3>2. QED
      BY <1>1, <2>1, <2>4, <3>1, StreamAccepts
  <2>5. QED
    BY <1>5, <2>2, <2>3, <2>4 DEF SubSend
<1>6. QED
  BY <1>2, <1>3, <1>4, <1>5 DEF SubStep

(* Every connection's outgoing stream is an outbox: accepted messages are  *)
(* received in order and without a gap while its transport is healthy, and *)
(* nothing is accepted after the close (Client.send with Hub.Run, readPump *)
(* and writePump, client.go:63-264).                                       *)
THEOREM StreamsRefineOutbox == Spec => StreamsAreOutboxes
<1>1. Init => \A c \in Conns : OutboxOf(c)!Init
  BY InitStreams
<1>2. IInv /\ [Next]_vars => [\A d \in Conns : StreamStep(d)]_vars
  <2> SUFFICES ASSUME IInv, Next, NEW d \in Conns PROVE StreamStep(d)
    OBVIOUS
  <2>1. QED
    BY StreamsOfHub, StreamsOfReader, StreamsOfWriter, StreamsOfSubscriber DEF Next
<1>3. IInv /\ [Next]_vars =>
         [\A c \in Conns : [OutboxOf(c)!Next]_(OutboxOf(c)!vars)]_vars
  BY <1>2 DEF StreamStep
<1>4. QED
  BY <1>1, <1>3, Invariance, PTL DEF Spec, StreamsAreOutboxes
-----------------------------------------------------------------------------
(* What messages are, and what one step does to the streams.  A stream     *)
(* stays, gets a message at its end, or loses a stretch of its messages.   *)

LEMMA MessageFields ==
    /\ System.kind = "system"
    /\ \A c, n, u : /\ Direct(c, n, u).kind = "direct" /\ Direct(c, n, u).from = c
                    /\ Direct(c, n, u).n = n /\ Direct(c, n, u).to = u
                    /\ Direct(c, n, u) # System
    /\ \A c, n : /\ Bcast(c, n).kind = "bcast" /\ Bcast(c, n).from = c /\ Bcast(c, n).n = n
                 /\ Bcast(c, n) # System
  BY DEF System, Direct, Bcast

LEMMA MessageKinds ==
    ASSUME NEW m \in Message
    PROVE  \/ m = System
           \/ m.from \in Conns /\ m.n \in 1..MaxMsgs[m.from] /\ m.n \in Nat /\ m # System
<1>1. CASE m \in Chat
  <2>1. PICK c \in Conns : \/ \E n \in 1..MaxMsgs[c], u \in Users : m = Direct(c, n, u)
                           \/ \E n \in 1..MaxMsgs[c] : m = Bcast(c, n)
    BY <1>1 DEF Chat
  <2>2. QED
    BY <2>1, MessageFields, HubAssumption
<1>2. QED
  BY <1>1 DEF Message

(* s is what is left of t when a stretch of it is taken out. *)
Cut(s, t) == \E k \in 0..Len(s), l \in Nat :
                /\ Len(t) = Len(s) + l
                /\ \A i \in 1..Len(s) : s[i] = t[IF i <= k THEN i ELSE i + l]

LEMMA CutMiddle ==
    ASSUME NEW w \in Seq(Message), NEW b \in Seq(Message), NEW r \in Seq(Message)
    PROVE  Cut(w \o r, w \o (b \o r))
<1>1. /\ Len(w) \in 0..Len(w \o r) /\ Len(b) \in Nat
      /\ Len(w \o (b \o r)) = Len(w \o r) + Len(b)
  OBVIOUS
<1>2. ASSUME NEW i \in 1..Len(w \o r)
      PROVE  (w \o r)[i] = (w \o (b \o r))[IF i <= Len(w) THEN i ELSE i + Len(b)]
  OBVIOUS
<1>3. QED
  BY <1>1, <1>2 DEF Cut

(* Copies(c, m) is Count(Stream(c), m). *)
Count(t, m) == Cardinality({i \in DOMAIN t : t[i] = m})

LEMMA CountIsNat ==
    ASSUME NEW t \in Seq(Message), NEW m
    PROVE  /\ IsFiniteSet({i \in DOMAIN t : t[i] = m})
           /\ Count(t, m) \in Nat
           /\ Count(t, m) = 0 <=> \A i \in DOMAIN t : t[i] # m
<1>1. DOMAIN t = 1..Len(t) /\ Len(t) \in Nat /\ IsFiniteSet(1..Len(t))
  BY FS_Interval
<1>2. IsFiniteSet({i \in DOMAIN t : t[i] = m})
  BY <1>1, FS_Subset
<1>3. Count(t, m) \in Nat /\ (Count(t, m) = 0 <=> {i \in DOMAIN t : t[i] = m} = {})
  BY <1>2, FS_CardinalityType, FS_EmptySet DEF Count
<1>4. QED
  BY <1>2, <1>3

LEMMA CountAppend ==
    ASSUME NEW t \in Seq(Message), NEW x \in Message, NEW m
    PROVE  Count(Append(t, x), m) = Count(t, m) + (IF x = m THEN 1 ELSE 0)
<1> DEFINE P == {i \in DOMAIN t : t[i] = m}
           Q == {i \in DOMAIN Append(t, x) : Append(t, x)[i] = m}
<1>1. IsFiniteSet(P) /\ Cardinality(P) \in Nat
  BY CountIsNat, FS_CardinalityType
<1>2. x = m => Q = P \cup {Len(t) + 1}
  OBVIOUS
<1>3. x # m => Q = P
  OBVIOUS
<1>4. Len(t) + 1 \notin P
  OBVIOUS
<1>5. Count(t, m) = Cardinality(P) /\ Count(Append(t, x), m) = Cardinality(Q)
  BY DEF Count
<1> HIDE DEF P, Q
<1>6. x = m => Cardinality(Q) = Cardinality(P) + 1
  BY <1>1, <1>2, <1>4, FS_AddElement
<1>7. QED
  BY <1>1, <1>3, <1>5, <1>6

LEMMA CountCut ==
    ASSUME NEW s \in Seq(Message), NEW t \in Seq(Message), Cut(s, t), NEW m
    PROVE  Count(s, m) <= Count(t, m)
<1> DEFINE P == {i \in DOMAIN s : s[i] = m}
           Q == {i \in DOMAIN t : t[i] = m}
<1>1. PICK k \in 0..Len(s), l \in Nat :
                /\ Len(t) = Len(s) + l
                /\ \A i \in 1..Len(s) : s[i] = t[IF i <= k THEN i ELSE i + l]
  BY DEF Cut
<1> DEFINE f == [i \in P |-> IF i <= k THEN i ELSE i + l]
<1>2. IsFiniteSet(Q) /\ IsFiniteSet(P)
  BY CountIsNat
<1>3. \A i \in P : f[i] \in Q
  <2>1. \A i \in P : i \in 1..Len(s) /\ s[i] = m /\ i \in Nat /\ Len(s) \in Nat
    OBVIOUS
  <2>2. \A i \in 1..Len(s) : (IF i <= k THEN i ELSE i + l) \in 1..Len(t)
    BY <1>1
  <2>3. DOMAIN t = 1..Len(t)
    OBVIOUS
  <2>4. QED
    BY <1>1, <2>1, <2>2, <2>3
<1>4. \A i, j \in P : f[i] = f[j] => i = j
  BY <1>1
<1>5. f \in Injection(P, Q)
  BY <1>3, <1>4 DEF Injection, IsInjective
<1>6. Cardinality(P) <= Cardinality(Q)
  BY <1>2, <1>5, FS_Injection
<1>7. QED
  BY <1>6 DEF Count

-----------------------------------------------------------------------------
Kept(d)      == Stream(d)' = Stream(d)
Got(d, m)    == Stream(d)' = Append(Stream(d), m)
Shortened(d) == Cut(Stream(d)', Stream(d))

Same        == \A d \in Conns : Kept(d)
Given(c, m) == (Got(c, m) \/ Kept(c)) /\ \A d \in Conns \ {c} : Kept(d)

LEMMA StreamType ==
    ASSUME IInv, NEW d \in Conns
    PROVE  Stream(d) \in Seq(Message)
<1>1. wire[d] \in Seq(Message) /\ batch[d] \in Seq(Message) /\ send[d] \in Seq(Message)
  BY DEF IInv, TypeOK
<1>2. QED
  BY <1>1 DEF Stream

LEMMA StreamTypes ==
    ASSUME IInv, IInv'
    PROVE  \A d \in Conns : Stream(d) \in Seq(Message) /\ Stream(d)' \in Seq(Message)
<1>1. ASSUME NEW d \in Conns PROVE Stream(d)' \in Seq(Message)
  <2>1. wire'[d] \in Seq(Message) /\ batch'[d] \in Seq(Message) /\ send'[d] \in Seq(Message)
    BY DEF IInv, TypeOK
  <2>2. QED
    BY <2>1 DEF Stream
<1>2. QED
  BY <1>1, StreamType

LEMMA NothingMoves ==
    ASSUME UNCHANGED <<wire, batch, send>>
    PROVE  Same
  BY DEF Same, Kept, Stream

LEMMA EntersStream ==
    ASSUME IInv, NEW c \in Conns, NEW m \in Message, UNCHANGED <<wire, batch>>,
           \/ send' = send
           \/ send' = [send EXCEPT ![c] = Append(@, m)]
    PROVE  Given(c, m)
<1>1. send \in [Conns -> Seq(Message)]
  BY DEF IInv, TypeOK
<1>2. CASE send' = send
  BY <1>2 DEF Given, Kept, Stream
<1>3. CASE send' = [send EXCEPT ![c] = Append(@, m)]
  <2>1. wire[c] \in Seq(Message) /\ batch[c] \in Seq(Message) /\ send[c] \in Seq(Message)
    BY DEF IInv, TypeOK
  <2>2. send'[c] = Append(send[c], m) /\ \A d \in Conns \ {c} : send'[d] = send[d]
    BY <1>1, <1>3
  <2>3. wire[c] \o batch[c] \in Seq(Message)
    BY <2>1
  <2>4. wire[c] \o batch[c] \o Append(send[c], m) = Append(wire[c] \o batch[c] \o send[c], m)
    BY <2>1, <2>3, AppendBehind
  <2>5. Got(c, m)
    BY <2>2, <2>4 DEF Got, Stream
  <2>6. \A d \in Conns \ {c} : Kept(d)
    BY <2>2 DEF Kept, Stream
  <2>7. QED
    BY <2>5, <2>6 DEF Given
<1>4. QED
  BY <1>2, <1>3

LEMMA Regroup ==
    ASSUME NEW s \in Seq(Message), NEW t \in Seq(Message), NEW r \in Seq(Message)
    PROVE  (s \o t) \o r = s \o (t \o r)
  BY ConcatAssociative

LEMMA LeavesStream ==
    ASSUME IInv, IInv', NEW c \in Conns, WriterStep(c), NEW d \in Conns
    PROVE  Kept(d) \/ Shortened(d)
<1>1. /\ send \in [Conns -> Seq(Message)] /\ batch \in [Conns -> Seq(Message)]
      /\ wire \in [Conns -> Seq(Message)]
      /\ (wpc[c] \in {"drain", "write"}) <=> (batch[c] # <<>>)
  BY DEF IInv, TypeOK, FrameInHand
<1> USE DEF WriterExit
<1>2. wire[c] \in Seq(Message) /\ batch[c] \in Seq(Message) /\ send[c] \in Seq(Message)
  BY <1>1
<1>3. CASE d # c
  <2>1. UNCHANGED <<wire[d], batch[d], send[d]>>
    BY <1>1, <1>3 DEF WriterStep, WriteTake, WriteDrain, WriteFrame, WriteClosed, PingFail
  <2>2. QED
    BY <2>1 DEF Kept, Stream
<1>4. CASE d = c /\ WriteTake(c)
  <2>1. /\ batch[c] = <<>> /\ wire'[c] = wire[c] /\ send[c] # <<>> /\ send'[c] = Tail(send[c])
        /\ batch'[c] = <<Head(send[c])>> \/ batch'[c] = <<>>
    BY <1>1, <1>4 DEF WriteTake
  <2>2. /\ <<Head(send[c])>> \in Seq(Message) /\ Tail(send[c]) \in Seq(Message)
        /\ <<Head(send[c])>> \o Tail(send[c]) = send[c]
    BY <1>2, <2>1
  <2> DEFINE h == <<Head(send[c])>>  r == Tail(send[c])
  <2>3. (wire[c] \o <<>>) \o send[c] = wire[c] \o (h \o r)
    BY <1>2, <2>2, Whole
  <2>4. CASE batch'[c] = h
    <3>1. (wire[c] \o h) \o r = wire[c] \o (h \o r)
      <4> HIDE DEF h, r
      <4>1. h \in Seq(Message) /\ r \in Seq(Message)
        BY <2>2 DEF h, r
      <4>2. QED
        BY <1>2, <4>1, Regroup
    <3>2. QED
      BY <1>4, <2>1, <2>3, <2>4, <3>1 DEF Kept, Stream
  <2>5. CASE batch'[c] = <<>>
    <3>1. Cut(wire[c] \o r, wire[c] \o (h \o r))
      BY <1>2, <2>2, CutMiddle
    <3>2. Stream(c)' = wire[c] \o r
      BY <1>2, <2>1, <2>5, Whole DEF Stream
    <3>3. Stream(c) = wire[c] \o (h \o r)
      BY <2>1, <2>3 DEF Stream
    <3>4. QED
      BY <1>4, <3>1, <3>2, <3>3 DEF Shortened
  <2>6. QED
    BY <2>1, <2>4, <2>5
<1>5. CASE d = c /\ WriteDrain(c)
  <2>1. wire'[c] = wire[c] /\ batch'[c] = batch[c] \o send[c] /\ send'[c] = <<>>
    BY <1>1, <1>5 DEF WriteDrain
  <2>2. /\ wire[c] \o (batch[c] \o send[c]) = (wire[c] \o batch[c]) \o send[c]
        /\ wire[c] \o (batch[c] \o send[c]) \in Seq(Message)
    <3>1. batch[c] \o send[c] \in Seq(Message)
      BY <1>2
    <3>2. wire[c] \o (batch[c] \o send[c]) \in Seq(Message)
      BY <1>2, <3>1
    <3>3. QED
      BY <1>2, <3>2, Regroup
  <2>3. Stream(c)' = (wire[c] \o batch[c]) \o send[c]
    BY <2>1, <2>2, Whole DEF Stream
  <2>4. QED
    BY <1>5, <2>3 DEF Kept, Stream
<1>6. CASE d = c /\ WriteFrame(c)
  <2>1. batch'[c] = <<>> /\ send'[c] = send[c] /\ wire'[c] \in {wire[c], wire[c] \o batch[c]}
    BY <1>1, <1>6 DEF WriteFrame
  <2>2. CASE wire'[c] = wire[c] \o batch[c]
    <3>1. wire[c] \o batch[c] \in Seq(Message)
      BY <1>2
    <3>2. Stream(c)' = (wire[c] \o batch[c]) \o send[c]
      BY <2>1, <2>2, <3>1, Whole DEF Stream
    <3>3. QED
      BY <1>6, <3>2 DEF Kept, Stream
  <2>3. CASE wire'[c] = wire[c]
    <3>1. Cut(wire[c] \o send[c], wire[c] \o (batch[c] \o send[c]))
      BY <1>2, CutMiddle
    <3>2. wire[c] \o (batch[c] \o send[c]) = (wire[c] \o batch[c]) \o send[c]
      BY <1>2, Regroup
    <3>3. Stream(c)' = wire[c] \o send[c]
      BY <1>2, <2>1, <2>3, Whole DEF Stream
    <3>4. Stream(c) = (wire[c] \o batch[c]) \o send[c]
      BY DEF Stream
    <3>5. QED
      BY <1>6, <3>1, <3>2, <3>3, <3>4 DEF Shortened
  <2>4. QED
    BY <2>1, <2>2, <2>3
<1>7. CASE d = c /\ (WriteClosed(c) \/ PingFail(c))
  <2>1. wire'[c] = wire[c] /\ batch[c] = <<>> /\ batch'[c] = <<>> /\ send'[c] = send[c]
    BY <1>1, <1>7 DEF WriteClosed, PingFail
  <2>2. QED
    BY <1>7, <2>1 DEF Kept, Stream
<1>8. QED
  BY <1>3, <1>4, <1>5, <1>6, <1>7 DEF WriterStep

-----------------------------------------------------------------------------
(* The steps of the process as far as the order and the number of messages *)
(* in the streams depend on them.                                          *)

Idle == /\ \A d \in Conns : Kept(d) \/ Shortened(d)
        /\ UNCHANGED <<hmsg, hleft, rpc, rmsg, sent>>
        /\ hpc' = "bcast" => hpc = "bcast"

Visits(c) == /\ hpc = "bcast" /\ c \in hleft
             /\ \E m \in Message : hmsg = m /\ Given(c, m)
             /\ hleft' = hleft \ {c}
             /\ UNCHANGED <<hpc, hmsg, rpc, rmsg, sent>>

EndsLoop == /\ Same /\ hpc' = "loop" /\ hmsg' = System
            /\ UNCHANGED <<hleft, rpc, rmsg, sent>>

Notifies(c) == /\ Given(c, System)
               /\ hpc # "bcast" /\ hpc' # "bcast"
               /\ UNCHANGED <<hmsg, hleft, rpc, rmsg, sent>>

Takes(s) == /\ rpc[s] = "direct" /\ rpc' = [rpc EXCEPT ![s] = "echo"]
            /\ hpc # "bcast" /\ hpc' # "bcast"
            /\ UNCHANGED <<hmsg, hleft, rmsg, sent>>
            /\ \E m \in Message :
                  /\ rmsg[s] = m
                  /\ \/ Same
                     \/ \E c \in Conns : User[c] = m.to /\ Given(c, m)

Reads(c) == /\ Same /\ rpc[c] = "read" /\ sent[c] < MaxMsgs[c]
            /\ sent' = [sent EXCEPT ![c] = @ + 1]
            /\ \/ Goto(c, "reply", System)
               \/ \E u \in Users : Goto(c, "direct", Direct(c, sent[c] + 1, u))
               \/ Goto(c, IF Redis THEN "publish" ELSE "offer", Bcast(c, sent[c] + 1))
            /\ UNCHANGED <<hpc, hmsg, hleft>>

Publishes(c) == /\ Same /\ rpc[c] = "publish" /\ rpc' = [rpc EXCEPT ![c] = "offer"]
                /\ UNCHANGED <<hpc, hmsg, hleft, rmsg, sent>>

Offers(c) == /\ Same /\ rpc[c] = "offer" /\ Goto(c, "read", System)
             /\ UNCHANGED sent
             /\ \/ UNCHANGED <<hpc, hmsg, hleft>>
                \/ hpc' = "bcast" /\ hmsg' = rmsg[c] /\ hleft' = clients

Answers(c) == /\ rpc[c] \in {"reply", "echo"} /\ Goto(c, "read", System)
              /\ \E m \in Message : rmsg[c] = m /\ Given(c, m)
              /\ UNCHANGED <<hpc, hmsg, hleft, sent>>

Moves(c) == /\ Same
            /\ \E pc \in {"read", "unregister", "close", "done"} : rpc' = [rpc EXCEPT ![c] = pc]
            /\ rmsg' = rmsg \/ rmsg' = [rmsg EXCEPT ![c] = System]
            /\ hpc' = "bcast" => hpc = "bcast"
            /\ UNCHANGED <<hmsg, hleft, sent>>

Subscribes(c) == /\ Redis
                 /\ \E m \in Message : smsg = m /\ Given(c, m)
                 /\ UNCHANGED <<hpc, hmsg, hleft, rpc, rmsg, sent>>

StreamEvent == \/ Idle \/ EndsLoop
               \/ \E c \in Conns : \/ Visits(c) \/ Notifies(c) \/ Takes(c) \/ Reads(c)
                                   \/ Publishes(c) \/ Offers(c) \/ Answers(c) \/ Moves(c)
                                   \/ Subscribes(c)

LEMMA GivesOffered ==
    ASSUME IInv, NEW c \in Conns, NEW m \in Message, Offered(c, m), UNCHANGED wrVars
    PROVE  Given(c, m)
<1>1. QED
  BY EntersStream DEF Offered

LEMMA GivesDelivered ==
    ASSUME IInv, NEW u, NEW m \in Message, DeliverTo(u, m), UNCHANGED wrVars
    PROVE  Same \/ \E c \in Conns : User[c] = u /\ Given(c, m)
<1>1. TypeOK /\ MapMatchesChannels /\ clients \subseteq Conns
  BY DEF IInv, TypeOK
<1>2. CASE UNCHANGED <<up, clients, send, closed>>
  BY <1>2, NothingMoves
<1>3. CASE \E c \in clients : User[c] = u /\ Offered(c, m)
  BY <1>1, <1>3, GivesOffered
<1>4. QED
  BY <1>1, <1>2, <1>3, DeliverEffect

LEMMA HubEvents == ASSUME IInv, HubStep PROVE StreamEvent
<1>1. /\ rmsg \in [Conns -> Message] /\ hmsg \in Message /\ System \in Message
      /\ hleft \subseteq clients /\ clients \subseteq Conns /\ TypeOK /\ MapMatchesChannels
      /\ hpc # "bcast" => hleft = {}
  BY MessageTypes DEF IInv, TypeOK, LoopInMap
<1>2. CASE HubPark \/ HubStatus
  <2>1. Same
    BY <1>2, NothingMoves DEF HubPark, HubStatus
  <2>2. Idle
    BY <1>2, <2>1 DEF HubPark, HubStatus, Idle, Same
  <2>3. QED
    BY <2>2 DEF StreamEvent
<1>3. CASE HubBroadcastDone
  <2>1. Same
    BY <1>3, NothingMoves DEF HubBroadcastDone
  <2>2. EndsLoop
    BY <1>3, <2>1 DEF HubBroadcastDone, EndsLoop
  <2>3. QED
    BY <2>2 DEF StreamEvent
<1>4. CASE HubBroadcast
  <2>1. PICK c \in hleft : Offer(c, hmsg) /\ hleft' = hleft \ {c}
    BY <1>4 DEF HubBroadcast
  <2>2. c \in clients /\ c \in Conns /\ Offered(c, hmsg) /\ UNCHANGED wrVars
    BY <1>1, <1>4, <2>1, OfferEffect DEF HubBroadcast
  <2>3. Given(c, hmsg)
    BY <1>1, <2>2, GivesOffered
  <2>4. Visits(c)
    BY <1>1, <1>4, <2>1, <2>3 DEF HubBroadcast, Visits
  <2>5. QED
    BY <2>2, <2>4 DEF StreamEvent
<1>5. ASSUME NEW u \in Users, HubNotify(u) PROVE StreamEvent
  <2>1. /\ DeliverTo(u, System) /\ UNCHANGED wrVars
        /\ hpc # "bcast" /\ hpc' # "bcast"
        /\ UNCHANGED <<hmsg, hleft, rpc, rmsg, sent>>
    BY <1>5 DEF HubNotify, HubReady
  <2>2. CASE Same
    <3>1. Idle
      BY <2>1, <2>2 DEF Idle, Same
    <3>2. QED
      BY <3>1 DEF StreamEvent
  <2>3. CASE \E c \in Conns : Given(c, System)
    BY <2>1, <2>3 DEF StreamEvent, Notifies
  <2>4. QED
    BY <1>1, <2>1, <2>2, <2>3, GivesDelivered
<1>6. ASSUME NEW s \in Conns, HubDirect(s) PROVE StreamEvent
  <2>1. rmsg[s] \in Message
    BY <1>1
  <2>2. /\ DeliverTo(rmsg[s].to, rmsg[s]) /\ UNCHANGED wrVars
        /\ hpc # "bcast" /\ hpc' # "bcast"
        /\ rpc[s] = "direct" /\ rpc' = [rpc EXCEPT ![s] = "echo"]
        /\ UNCHANGED <<hmsg, hleft, rmsg, sent>>
    BY <1>6 DEF HubDirect, HubReady
  <2>3. Same \/ \E c \in Conns : User[c] = rmsg[s].to /\ Given(c, rmsg[s])
    BY <2>1, <2>2, GivesDelivered
  <2>4. Takes(s)
    BY <2>1, <2>2, <2>3 DEF Takes
  <2>5. QED
    BY <2>4 DEF StreamEvent
<1>7. ASSUME NEW c \in Conns, HubRegister(c) \/ HubUnregister(c) PROVE StreamEvent
  <2>1. UNCHANGED <<wire, batch, send>>
    BY <1>1, <1>7 DEF HubRegister, HubUnregister, CloseAndDelete, Panic
  <2>2. Moves(c)
    BY <1>7, <2>1, NothingMoves DEF HubRegister, HubUnregister, Moves, NextIsStatus
  <2>3. QED
    BY <2>2 DEF StreamEvent
<1>8. QED
  BY <1>2, <1>3, <1>4, <1>5, <1>6, <1>7 DEF HubStep

LEMMA ReaderEvents == ASSUME IInv, NEW c \in Conns, ReaderStep(c) PROVE StreamEvent
<1>1. rmsg \in [Conns -> Message] /\ hpc \in {"loop", "select", "bcast", "status"}
      /\ rpc \in [Conns -> {"register", "read", "reply", "direct", "echo",
                            "publish", "offer", "unregister", "close", "done"}]
  BY DEF IInv, TypeOK
<1>2. CASE ReadControl(c) \/ ReadDirect(c) \/ ReadBroadcast(c)
  <2>1. Same
    BY <1>2, NothingMoves DEF ReadControl, ReadDirect, ReadBroadcast
  <2>2. Reads(c)
    BY <1>2, <2>1 DEF ReadControl, ReadDirect, ReadBroadcast, Reads
  <2>3. QED
    BY <2>2 DEF StreamEvent
<1>3. CASE ReaderPublish(c)
  <2>1. Same
    BY <1>3, NothingMoves DEF ReaderPublish
  <2>2. Publishes(c)
    BY <1>1, <1>3, <2>1 DEF ReaderPublish, Publishes, Goto
  <2>3. QED
    BY <2>2 DEF StreamEvent
<1>4. CASE ReaderOffer(c)
  <2>1. Same
    BY <1>4, NothingMoves DEF ReaderOffer
  <2>2. Offers(c)
    BY <1>4, <2>1 DEF ReaderOffer, Offers
  <2>3. QED
    BY <2>2 DEF StreamEvent
<1>5. CASE ReaderSend(c)
  <2>1. /\ UNCHANGED <<wire, batch, hpc, hmsg, hleft, sent>>
        /\ rpc[c] \in {"reply", "echo"} /\ rmsg[c] \in Message
    BY <1>1, <1>5 DEF ReaderSend
  <2>2. CASE Goto(c, "unregister", System) /\ UNCHANGED send
    <3>1. Same
      BY <2>1, <2>2, NothingMoves
    <3>2. Moves(c)
      BY <2>1, <2>2, <3>1 DEF Moves, Goto
    <3>3. QED
      BY <3>2 DEF StreamEvent
  <2>3. CASE Goto(c, "read", System) /\ send' = [send EXCEPT ![c] = Append(@, rmsg[c])]
    <3>1. Given(c, rmsg[c])
      BY <2>1, <2>3, EntersStream
    <3>2. Answers(c)
      BY <2>1, <2>3, <3>1 DEF Answers
    <3>3. QED
      BY <3>2 DEF StreamEvent
  <2>4. QED
    BY <1>5, <2>2, <2>3 DEF ReaderSend
<1>6. CASE ReadFail(c) \/ ReaderClose(c)
  <2>1. Same
    BY <1>6, NothingMoves DEF ReadFail, ReaderClose
  <2>2. Moves(c)
    BY <1>6, <2>1 DEF ReadFail, ReaderClose, Moves, Goto
  <2>3. QED
    BY <2>2 DEF StreamEvent
<1>7. QED
  BY <1>2, <1>3, <1>4, <1>5, <1>6 DEF ReaderStep

LEMMA SubscriberEvents == ASSUME IInv, SubStep PROVE StreamEvent
<1>1. smsg \in Message /\ send \in [Conns -> Seq(Message)] /\ (~Redis => spc = "recv")
  BY DEF IInv, TypeOK, SubscriberNeedsRedis
<1>2. ASSUME Same, UNCHANGED <<hubVars, rdVars>> PROVE StreamEvent
  <2>1. Idle
    BY <1>2 DEF Idle, Same
  <2>2. QED
    BY <2>1 DEF StreamEvent
<1>3. CASE SubReceive \/ SubDone \/ SubFatal
  BY <1>2, <1>3, NothingMoves DEF SubReceive, SubDone, SubFatal
<1>4. ASSUME NEW c \in Conns, SubSkip(c) PROVE StreamEvent
  BY <1>2, <1>4, NothingMoves DEF SubSkip
<1>5. ASSUME NEW c \in Conns, SubSend(c) PROVE StreamEvent
  <2>1. /\ Redis /\ UNCHANGED <<wire, batch, hpc, hmsg, hleft, rpc, rmsg, sent>>
    BY <1>1, <1>5 DEF SubSend
  <2>2. send' = send \/ send' = [send EXCEPT ![c] = Append(@, smsg)]
    BY <1>1, <1>5 DEF SubSend
  <2>3. Given(c, smsg)
    BY <1>1, <2>1, <2>2, EntersStream
  <2>4. Subscribes(c)
    BY <1>1, <2>1, <2>3 DEF Subscribes
  <2>5. QED
    BY <2>4 DEF StreamEvent
<1>6. QED
  BY <1>3, <1>4, <1>5 DEF SubStep

LEMMA StreamEvents == ASSUME IInv, IInv', Next PROVE StreamEvent
<1>1. ASSUME NEW c \in Conns, Disconnect(c) PROVE StreamEvent
  <2>1. Same
    BY <1>1, NothingMoves DEF Disconnect
  <2>2. Idle
    BY <1>1, <2>1 DEF Disconnect, Idle, Same
  <2>3. QED
    BY <2>2 DEF StreamEvent
<1>2. ASSUME NEW c \in Conns, WriterStep(c) PROVE StreamEvent
  <2>1. \A d \in Conns : Kept(d) \/ Shortened(d)
    BY <1>2, LeavesStream
  <2>2. UNCHANGED <<hubVars, rdVars>>
    BY <1>2 DEF WriterStep, WriteTake, WriteDrain, WriteFrame, WriteClosed, PingFail
  <2>3. Idle
    BY <2>1, <2>2 DEF Idle
  <2>4. QED
    BY <2>3 DEF StreamEvent
<1>3. QED
  BY <1>1, <1>2, HubEvents, ReaderEvents, SubscriberEvents DEF Next

-----------------------------------------------------------------------------
(* Copies of a message, seen from one step to the next.                    *)

LEMMA CopiesChange ==
    ASSUME IInv, IInv', NEW d \in Conns, NEW m
    PROVE  /\ Copies(d, m) \in Nat /\ Copies(d, m)' \in Nat
           /\ Kept(d) => Copies(d, m)' = Copies(d, m)
           /\ Shortened(d) => Copies(d, m)' <= Copies(d, m)
           /\ \A x \in Message : Got(d, x) =>
                 Copies(d, m)' = Copies(d, m) + (IF x = m THEN 1 ELSE 0)
<1>1. Stream(d) \in Seq(Message) /\ Stream(d)' \in Seq(Message)
  BY StreamTypes
<1>2. Copies(d, m) = Count(Stream(d), m) /\ Copies(d, m)' = Count(Stream(d)', m)
  BY DEF Copies, Count
<1>3. Copies(d, m) \in Nat /\ Copies(d, m)' \in Nat
  BY <1>1, <1>2, CountIsNat
<1>4. Kept(d) => Copies(d, m)' = Copies(d, m)
  BY <1>2 DEF Kept
<1>5. Shortened(d) => Copies(d, m)' <= Copies(d, m)
  BY <1>1, <1>2, CountCut DEF Shortened
<1>6. \A x \in Message : Got(d, x) =>
         Copies(d, m)' = Copies(d, m) + (IF x = m THEN 1 ELSE 0)
  BY <1>1, <1>2, CountAppend DEF Got
<1>7. QED
  BY <1>3, <1>4, <1>5, <1>6

(* The three ways a step can change the copies of one message m. *)
NoMore(m)  == \A d \in Conns : Copies(d, m)' <= Copies(d, m)
OneMore(c, m) == /\ Copies(c, m)' <= Copies(c, m) + 1
                 /\ \A d \in Conns \ {c} : Copies(d, m)' = Copies(d, m)

LEMMA CopiesOfSame ==
    ASSUME IInv, IInv', Same, NEW m
    PROVE  NoMore(m)
<1>1. QED
  BY CopiesChange DEF Same, NoMore

LEMMA CopiesOfGiven ==
    ASSUME IInv, IInv', NEW c \in Conns, NEW x \in Message, Given(c, x), NEW m
    PROVE  OneMore(c, m) /\ (x # m => NoMore(m))
<1>1. QED
  BY CopiesChange DEF Given, NoMore, OneMore

-----------------------------------------------------------------------------
(* Where messages are, and how they are numbered.                          *)

(* A message was numbered when its sender's reader read it. *)
Old(m) == m = System \/ m.n <= sent[m.from]

(* What goes to everybody is never a direct message. *)
ForAll(m) == Old(m) /\ m.kind # "direct"

(* The reader's program counter tells what it carries. *)
ReaderCarries == \A s \in Conns :
   /\ Old(rmsg[s])
   /\ rpc[s] \in {"direct", "echo"} => \E u \in Users : rmsg[s] = Direct(s, sent[s], u)
   /\ rpc[s] \in {"publish", "offer"} => rmsg[s] = Bcast(s, sent[s])
   /\ rpc[s] = "reply" => rmsg[s] = System
   /\ rpc[s] = "publish" => Redis

OthersCarry == /\ ForAll(hmsg) /\ ForAll(smsg)
               /\ \A i \in 1..Len(redis) : ForAll(redis[i])

StreamsHoldOld == \A c \in Conns : \A m \in Message : Copies(c, m) > 0 => Old(m)

CarryInv == ReaderCarries /\ OthersCarry /\ StreamsHoldOld

LEMMA StreamElements ==
    ASSUME IInv, NEW c \in Conns, NEW i \in DOMAIN Stream(c)
    PROVE  Stream(c)[i] \in Message /\ Copies(c, Stream(c)[i]) > 0
<1>1. Stream(c) \in Seq(Message)
  BY StreamType
<1>2. Stream(c)[i] \in Message
  BY <1>1
<1>3. PICK m : m = Stream(c)[i]
  OBVIOUS
<1>4. Count(Stream(c), m) \in Nat /\ Count(Stream(c), m) # 0
  BY <1>1, <1>3, CountIsNat
<1>5. QED
  BY <1>2, <1>3, <1>4 DEF Copies, Count

LEMMA OldStaysOld ==
    ASSUME IInv, IInv', StreamEvent
    PROVE  \A m \in Message : /\ Old(m) => Old(m)'
                              /\ m # System => sent[m.from] <= sent'[m.from]
<1>1. sent \in [Conns -> Nat]
  BY DEF IInv, TypeOK
<1>2. sent' = sent \/ \E c \in Conns : sent' = [sent EXCEPT ![c] = @ + 1]
  BY DEF StreamEvent, Idle, EndsLoop, Visits, Notifies, Takes, Reads, Publishes, Offers, Answers,
         Moves, Subscribes
<1>3. QED
  BY <1>1, <1>2, MessageKinds DEF Old

LEMMA RedisChange ==
    ASSUME IInv, ReaderCarries, OthersCarry, Next
    PROVE  /\ ForAll(smsg')
           /\ \A i \in 1..Len(redis') : ForAll(redis'[i])
<1>1. redis \in Seq(Message) /\ rmsg \in [Conns -> Message]
  BY DEF IInv, TypeOK
<1>0. ForAll(System)
  BY MessageFields DEF ForAll, Old
<1>2. CASE UNCHANGED <<redis, smsg>>
  BY <1>2 DEF OthersCarry
<1>3. ASSUME NEW m \in Message, ForAll(m), Publish(m), UNCHANGED smsg
      PROVE  /\ ForAll(smsg')
             /\ \A i \in 1..Len(redis') : ForAll(redis'[i])
  BY <1>1, <1>3 DEF Publish, OthersCarry
<1>4. CASE HubStep
  <2>1. CASE HubStatus
    BY <1>0, <1>3, <2>1, MessageTypes DEF HubStatus
  <2>2. QED
    BY <1>2, <1>4, <2>1 DEF HubStep, HubPark, HubBroadcast, HubBroadcastDone, HubNotify,
                            HubRegister, HubUnregister, HubDirect
<1>5. ASSUME NEW c \in Conns, ReaderStep(c)
      PROVE  /\ ForAll(smsg')
             /\ \A i \in 1..Len(redis') : ForAll(redis'[i])
  <2>1. CASE ReaderPublish(c)
    <3>1. ForAll(rmsg[c]) /\ rmsg[c] \in Message
      BY <1>1, <2>1, MessageFields DEF ReaderPublish, ReaderCarries, ForAll
    <3>2. QED
      BY <1>3, <2>1, <3>1 DEF ReaderPublish
  <2>2. QED
    BY <1>2, <1>5, <2>1 DEF ReaderStep, ReadControl, ReadDirect, ReadBroadcast, ReaderOffer,
                            ReaderSend, ReadFail, ReaderClose
<1>6. CASE \E c \in Conns : Disconnect(c) \/ WriterStep(c)
  BY <1>2, <1>6 DEF Disconnect, WriterStep, WriteTake, WriteDrain, WriteFrame, WriteClosed, PingFail
<1>7. CASE SubStep
  <2>1. CASE SubReceive
    <3>1. smsg' = redis[1] /\ redis' = Tail(redis) /\ Len(redis) > 0
      BY <1>1, <2>1 DEF SubReceive
    <3>2. QED
      BY <1>1, <3>1 DEF OthersCarry
  <2>2. CASE SubDone
    BY <1>0, <2>2 DEF SubDone, OthersCarry
  <2>3. QED
    BY <1>2, <1>7, <2>1, <2>2 DEF SubStep, SubFatal, SubSend, SubSkip
<1>8. QED
  BY <1>4, <1>5, <1>6, <1>7 DEF Next

(* What any stream may get is a message its sender has already counted.    *)
LEMMA StreamsGetOld ==
    ASSUME IInv, IInv', CarryInv, StreamEvent
    PROVE  \A m \in Message : ~Old(m) => NoMore(m)
<1> SUFFICES ASSUME NEW m \in Message, ~Old(m) PROVE NoMore(m)
  OBVIOUS
<1>1. ASSUME Same PROVE NoMore(m)
  BY <1>1, CopiesOfSame
<1>2. ASSUME NEW c \in Conns, NEW x \in Message, Given(c, x), Old(x) PROVE NoMore(m)
  BY <1>2, CopiesOfGiven
<1>3. CASE Idle
  BY <1>3, CopiesChange DEF Idle, NoMore
<1>4. ASSUME NEW c \in Conns, Visits(c) \/ Subscribes(c) PROVE NoMore(m)
  BY <1>2, <1>4 DEF Visits, Subscribes, CarryInv, OthersCarry, ForAll
<1>5. ASSUME NEW c \in Conns, Answers(c) \/ Takes(c) PROVE NoMore(m)
  BY <1>1, <1>2, <1>5 DEF Answers, Takes, CarryInv, ReaderCarries
<1>6. ASSUME NEW c \in Conns, Notifies(c) PROVE NoMore(m)
  BY <1>2, <1>6, MessageTypes DEF Notifies, Old
<1>7. QED
  BY <1>1, <1>3, <1>4, <1>5, <1>6 DEF StreamEvent, EndsLoop, Reads, Publishes, Offers, Moves

LEMMA ReadersCarryOn ==
    ASSUME IInv, IInv', CarryInv, StreamEvent
    PROVE  ReaderCarries' /\ ForAll(hmsg)'
<1>1. /\ sent \in [Conns -> Nat] /\ rmsg \in [Conns -> Message] /\ hmsg \in Message
      /\ rpc \in [Conns -> {"register", "read", "reply", "direct", "echo",
                            "publish", "offer", "unregister", "close", "done"}]
  BY DEF IInv, TypeOK
<1>2. \A m \in Message : Old(m) => Old(m)'
  BY OldStaysOld
<1>3. ReaderCarries /\ OthersCarry
  BY DEF CarryInv
<1>4. System \in Message /\ Old(System)' /\ ForAll(System)'
  BY MessageTypes, MessageFields DEF Old, ForAll
<1>5. ASSUME UNCHANGED <<rpc, rmsg, sent>> PROVE ReaderCarries'
  BY <1>3, <1>5 DEF ReaderCarries, Old
<1>6. ASSUME UNCHANGED hmsg PROVE ForAll(hmsg)'
  BY <1>1, <1>2, <1>3, <1>6 DEF OthersCarry, ForAll
<1>7. CASE Idle \/ EndsLoop \/ \E c \in Conns : Visits(c) \/ Notifies(c) \/ Subscribes(c)
  BY <1>4, <1>5, <1>6, <1>7 DEF Idle, EndsLoop, Visits, Notifies, Subscribes
<1>8. ASSUME NEW c \in Conns, Takes(c) \/ Publishes(c) PROVE ReaderCarries' /\ ForAll(hmsg)'
  <2>1. /\ UNCHANGED <<rmsg, sent, hmsg>>
        /\ \/ rpc[c] = "direct" /\ rpc' = [rpc EXCEPT ![c] = "echo"]
           \/ rpc[c] = "publish" /\ rpc' = [rpc EXCEPT ![c] = "offer"]
    BY <1>8 DEF Takes, Publishes
  <2>2. QED
    BY <1>1, <1>3, <1>6, <2>1 DEF ReaderCarries, Old
<1>9. ASSUME NEW c \in Conns, Answers(c) \/ Offers(c) \/ Moves(c)
      PROVE  ReaderCarries' /\ ForAll(hmsg)'
  <2>1. /\ UNCHANGED sent
        /\ rmsg' = rmsg \/ rmsg' = [rmsg EXCEPT ![c] = System]
        /\ \E pc \in {"read", "unregister", "close", "done"} : rpc' = [rpc EXCEPT ![c] = pc]
    BY <1>9 DEF Answers, Offers, Moves, Goto
  <2>2. ReaderCarries'
    <3> SUFFICES ASSUME NEW s \in Conns
                 PROVE  /\ Old(rmsg[s])'
                        /\ (rpc[s] \in {"direct", "echo"})' =>
                              \E u \in Users : (rmsg[s] = Direct(s, sent[s], u))'
                        /\ (rpc[s] \in {"publish", "offer"})' => (rmsg[s] = Bcast(s, sent[s]))'
                        /\ (rpc[s] = "reply" => rmsg[s] = System)'
                        /\ (rpc[s] = "publish" => Redis)'
      BY DEF ReaderCarries
    <3>1. CASE s = c
      <4>1. rpc'[s] \in {"read", "unregister", "close", "done"} /\ Old(rmsg[s])'
        BY <1>1, <1>2, <1>3, <1>4, <2>1, <3>1 DEF ReaderCarries
      <4>2. QED
        BY <4>1
    <3>2. CASE s # c
      <4>1. rpc'[s] = rpc[s] /\ rmsg'[s] = rmsg[s] /\ sent'[s] = sent[s]
        BY <1>1, <2>1, <3>2
      <4>2. Old(rmsg[s])'
        BY <1>1, <1>2, <1>3, <4>1 DEF ReaderCarries
      <4>3. QED
        BY <1>3, <4>1, <4>2 DEF ReaderCarries
    <3>3. QED
      BY <3>1, <3>2
  <2>3. ForAll(hmsg)'
    <3>1. CASE hmsg' = hmsg
      BY <1>6, <3>1
    <3>2. CASE Offers(c) /\ hmsg' = rmsg[c]
      <4>1. rmsg[c] = Bcast(c, sent[c]) /\ rmsg[c] \in Message /\ Old(rmsg[c])
        BY <1>1, <1>3, <3>2 DEF Offers, ReaderCarries
      <4>2. QED
        BY <1>2, <3>2, <4>1, MessageFields DEF ForAll
    <3>3. QED
      BY <1>9, <3>1, <3>2 DEF Answers, Offers, Moves
  <2>4. QED
    BY <2>2, <2>3
<1>10. ASSUME NEW c \in Conns, Reads(c) PROVE ReaderCarries' /\ ForAll(hmsg)'
  <2>1. /\ UNCHANGED hmsg /\ sent' = [sent EXCEPT ![c] = sent[c] + 1]
        /\ \/ Goto(c, "reply", System)
           \/ \E u \in Users : Goto(c, "direct", Direct(c, sent[c] + 1, u))
           \/ Goto(c, IF Redis THEN "publish" ELSE "offer", Bcast(c, sent[c] + 1))
    BY <1>10 DEF Reads
  <2>2. ASSUME NEW s \in Conns
        PROVE  /\ Old(rmsg[s])'
               /\ (rpc[s] \in {"direct", "echo"})' =>
                     \E u \in Users : (rmsg[s] = Direct(s, sent[s], u))'
               /\ (rpc[s] \in {"publish", "offer"})' => (rmsg[s] = Bcast(s, sent[s]))'
               /\ (rpc[s] = "reply" => rmsg[s] = System)'
               /\ (rpc[s] = "publish" => Redis)'
    <3>1. CASE s # c
      <4>1. rpc'[s] = rpc[s] /\ rmsg'[s] = rmsg[s] /\ sent'[s] = sent[s]
        BY <1>1, <2>1, <3>1 DEF Goto
      <4>2. Old(rmsg[s])'
        BY <1>1, <1>2, <1>3, <4>1 DEF ReaderCarries
      <4>3. QED
        BY <1>3, <4>1, <4>2 DEF ReaderCarries
    <3>2. CASE s = c
      <4>1. sent'[s] = sent[s] + 1 /\ sent'[s] \in Nat
        BY <1>1, <2>1, <3>2
      <4>2. CASE Goto(c, "reply", System)
        BY <1>1, <1>4, <3>2, <4>2 DEF Goto
      <4>3. ASSUME NEW u \in Users, Goto(c, "direct", Direct(c, sent[c] + 1, u))
            PROVE  /\ rpc'[s] = "direct" /\ rmsg'[s] = Direct(s, sent'[s], u) /\ Old(rmsg[s])'
        BY <1>1, <3>2, <4>1, <4>3, MessageFields DEF Goto, Old
      <4>4. ASSUME Goto(c, IF Redis THEN "publish" ELSE "offer", Bcast(c, sent[c] + 1))
            PROVE  /\ rpc'[s] = (IF Redis THEN "publish" ELSE "offer")
                   /\ rmsg'[s] = Bcast(s, sent'[s]) /\ Old(rmsg[s])'
        BY <1>1, <3>2, <4>1, <4>4, MessageFields DEF Goto, Old
      <4>5. QED
        BY <2>1, <4>2, <4>3, <4>4
    <3>3. QED
      BY <3>1, <3>2
  <2>3. QED
    BY <1>6, <2>1, <2>2 DEF ReaderCarries
<1>11. QED
  BY <1>7, <1>8, <1>9, <1>10 DEF StreamEvent

LEMMA CarryStep ==
    ASSUME IInv, IInv', CarryInv, Next
    PROVE  CarryInv'
<1>1. /\ StreamEvent /\ \A m \in Message : Old(m) => Old(m)'
      /\ redis' \in Seq(Message) /\ smsg' \in Message
  BY StreamEvents, OldStaysOld DEF IInv, TypeOK
<1>2. ReaderCarries' /\ ForAll(hmsg)'
  BY <1>1, ReadersCarryOn
<1>3. \A m \in Message : ForAll(m) => ForAll(m)'
  BY <1>1 DEF ForAll
<1>4. OthersCarry'
  <2>1. ForAll(smsg') /\ \A i \in 1..Len(redis') : ForAll(redis'[i])
    BY RedisChange DEF CarryInv
  <2>2. ForAll(smsg)'
    BY <1>1, <1>3, <2>1 DEF ForAll
  <2>3. ASSUME NEW i \in 1..Len(redis') PROVE ForAll(redis[i])'
    <3>1. redis'[i] \in Message
      BY <1>1
    <3>2. QED
      BY <1>1, <2>1, <3>1 DEF ForAll
  <2>4. QED
    BY <1>2, <2>2, <2>3 DEF OthersCarry
<1>5. StreamsHoldOld'
  <2> SUFFICES ASSUME NEW c \in Conns, NEW m \in Message, (Copies(c, m) > 0)' PROVE Old(m)'
    BY DEF StreamsHoldOld
  <2>1. CASE Old(m)
    BY <1>1, <2>1
  <2>2. CASE ~Old(m)
    <3>1. Copies(c, m)' <= Copies(c, m)
      BY <1>1, <2>2, StreamsGetOld DEF NoMore
    <3>2. ~(Copies(c, m) > 0)
      BY <2>2 DEF CarryInv, StreamsHoldOld
    <3>3. QED
      BY <3>1, <3>2, CopiesChange
  <2>3. QED
    BY <2>1, <2>2
<1>6. QED
  BY <1>2, <1>4, <1>5 DEF CarryInv

-----------------------------------------------------------------------------
(* The order of one sender's messages in every stream.                     *)

(* If a and b are of one sender, a is not the later one. *)
Before(a, b) == (/\ a # System /\ b # System /\ a.from = b.from
                 /\ Redis => a.kind = "direct" /\ b.kind = "direct") => a.n <= b.n

InOrder(t) == \A i, j \in DOMAIN t : i < j => Before(t[i], t[j])

LEMMA InOrderCut ==
    ASSUME NEW s \in Seq(Message), NEW t \in Seq(Message), InOrder(t), Cut(s, t)
    PROVE  InOrder(s)
<1>1. PICK k \in 0..Len(s), l \in Nat :
                /\ Len(t) = Len(s) + l
                /\ \A i \in 1..Len(s) : s[i] = t[IF i <= k THEN i ELSE i + l]
  BY DEF Cut
<1> DEFINE g(i) == IF i <= k THEN i ELSE i + l
<1>2. DOMAIN s = 1..Len(s) /\ DOMAIN t = 1..Len(t) /\ Len(s) \in Nat
  OBVIOUS
<1>3. \A i \in 1..Len(s) : g(i) \in DOMAIN t /\ s[i] = t[g(i)]
  BY <1>1, <1>2
<1>4. \A i, j \in 1..Len(s) : i < j => g(i) < g(j)
  BY <1>1
<1> HIDE DEF g
<1>5. QED
  BY <1>2, <1>3, <1>4 DEF InOrder

LEMMA InOrderAppend ==
    ASSUME NEW t \in Seq(Message), NEW x \in Message, InOrder(t),
           \A i \in DOMAIN t : Before(t[i], x)
    PROVE  InOrder(Append(t, x))
<1> DEFINE a == Append(t, x)
<1>1. /\ DOMAIN a = 1..(Len(t) + 1) /\ DOMAIN t = 1..Len(t) /\ Len(t) \in Nat
      /\ \A i \in 1..Len(t) : a[i] = t[i]
      /\ a[Len(t) + 1] = x
  OBVIOUS
<1> HIDE DEF a
<1>2. ASSUME NEW i \in DOMAIN a, NEW j \in DOMAIN a, i < j PROVE Before(a[i], a[j])
  <2>1. i \in DOMAIN t /\ a[i] = t[i]
    BY <1>1, <1>2
  <2>2. CASE j = Len(t) + 1
    BY <1>1, <2>1, <2>2
  <2>3. CASE j \in DOMAIN t
    BY <1>1, <1>2, <2>1, <2>3 DEF InOrder
  <2>4. QED
    BY <1>1, <2>2, <2>3
<1>3. InOrder(a)
  BY <1>2 DEF InOrder
<1>4. QED
  BY <1>3 DEF a

StreamsInOrder == \A c \in Conns : InOrder(Stream(c))

(* While the hub is handing out a broadcast, its sender has nothing newer  *)
(* under way: its reader may have read on, but waits for the hub.          *)
BcastIsLast == (hpc = "bcast" /\ ~Redis /\ hmsg # System) =>
   /\ rpc[hmsg.from] # "echo"
   /\ \A c \in Conns : \A m \in Message :
         (Copies(c, m) > 0 /\ m # System /\ m.from = hmsg.from) => m.n <= hmsg.n

OrderInv == StreamsInOrder /\ BcastIsLast

(* x may be appended to the stream of c. *)
Follows(c, x) == \A m \in Message : Copies(c, m) > 0 => Before(m, x)

LEMMA OrderKept ==
    ASSUME IInv, IInv', StreamsInOrder, NEW d \in Conns,
           \/ Kept(d) \/ Shortened(d)
           \/ \E x \in Message : Got(d, x) /\ Follows(d, x)
    PROVE  InOrder(Stream(d))'
<1>1. Stream(d) \in Seq(Message) /\ Stream(d)' \in Seq(Message) /\ InOrder(Stream(d))
  BY StreamTypes DEF StreamsInOrder
<1>2. \A x : Follows(d, x) => \A i \in DOMAIN Stream(d) : Before(Stream(d)[i], x)
  BY StreamElements DEF Follows
<1>3. CASE Kept(d)
  BY <1>1, <1>3 DEF Kept, InOrder, Before
<1>4. InOrder(Stream(d)')
  <2>1. CASE Shortened(d)
    BY <1>1, <2>1, InOrderCut DEF Shortened
  <2>2. CASE \E x \in Message : Got(d, x) /\ Follows(d, x)
    BY <1>1, <1>2, <2>2, InOrderAppend DEF Got
  <2>3. CASE Kept(d)
    BY <1>1, <2>3 DEF Kept
  <2>4. QED
    BY <2>1, <2>2, <2>3
<1>5. QED
  BY <1>4 DEF InOrder, Before

LEMMA OrderGiven ==
    ASSUME IInv, IInv', StreamsInOrder, NEW c \in Conns, NEW x \in Message, Given(c, x),
           Follows(c, x)
    PROVE  StreamsInOrder'
<1>1. ASSUME NEW d \in Conns PROVE InOrder(Stream(d))'
  BY OrderKept DEF Given
<1>2. QED
  BY <1>1 DEF StreamsInOrder

LEMMA NewestFollows ==
    ASSUME CarryInv, NEW c \in Conns, NEW m \in Message,
           m = System \/ m.n = sent[m.from] \/ (Redis /\ m.kind # "direct")
    PROVE  Follows(c, m)
<1>1. ASSUME NEW a \in Message, Copies(c, a) > 0, a # System, m # System, a.from = m.from,
             m.n = sent[m.from]
      PROVE  a.n <= m.n
  BY <1>1 DEF CarryInv, StreamsHoldOld, Old
<1>2. QED
  BY <1>1 DEF Follows, Before

LEMMA StreamsStayInOrder ==
    ASSUME IInv, IInv', CarryInv, OrderInv, StreamEvent
    PROVE  StreamsInOrder'
<1>0. StreamsInOrder /\ hmsg \in Message
  BY DEF OrderInv, IInv, TypeOK
<1>1. ASSUME \A d \in Conns : Kept(d) \/ Shortened(d) PROVE StreamsInOrder'
  BY <1>0, <1>1, OrderKept DEF StreamsInOrder
<1>2. CASE Idle
  BY <1>1, <1>2 DEF Idle
<1>3. ASSUME Same PROVE StreamsInOrder'
  BY <1>1, <1>3 DEF Same
<1>4. ASSUME NEW c \in Conns, Visits(c) PROVE StreamsInOrder'
  <2>1. hpc = "bcast" /\ Given(c, hmsg)
    BY <1>4 DEF Visits
  <2>2. CASE Redis
    BY <1>0, <2>1, <2>2, OrderGiven, NewestFollows DEF CarryInv, OthersCarry, ForAll
  <2>3. CASE ~Redis
    <3>1. Follows(c, hmsg)
      BY <2>1, <2>3 DEF OrderInv, BcastIsLast, Follows, Before
    <3>2. QED
      BY <1>0, <2>1, <3>1, OrderGiven
  <2>4. QED
    BY <2>2, <2>3
<1>5. ASSUME NEW c \in Conns, Takes(c) \/ Answers(c) PROVE StreamsInOrder'
  <2>1. PICK m \in Message : /\ rmsg[c] = m
                             /\ Same \/ \E d \in Conns : Given(d, m)
    BY <1>5 DEF Takes, Answers
  <2>2. m = System \/ m.n = sent[m.from]
    BY <1>5, <2>1, MessageFields DEF Takes, Answers, CarryInv, ReaderCarries
  <2>3. QED
    BY <1>0, <1>3, <2>1, <2>2, OrderGiven, NewestFollows
<1>6. ASSUME NEW c \in Conns, Notifies(c) PROVE StreamsInOrder'
  BY <1>0, <1>6, OrderGiven, NewestFollows, MessageTypes DEF Notifies
<1>7. ASSUME NEW c \in Conns, Subscribes(c) PROVE StreamsInOrder'
  BY <1>0, <1>7, OrderGiven, NewestFollows DEF Subscribes, CarryInv, OthersCarry, ForAll
<1>8. QED
  BY <1>2, <1>3, <1>4, <1>5, <1>6, <1>7
  DEF StreamEvent, EndsLoop, Reads, Publishes, Offers, Moves

LEMMA BcastStaysLast ==
    ASSUME IInv, IInv', CarryInv, OrderInv, StreamEvent
    PROVE  BcastIsLast'
<1> SUFFICES ASSUME hpc' = "bcast", ~Redis, hmsg' # System
             PROVE  /\ rpc'[hmsg'.from] # "echo"
                    /\ \A c \in Conns : \A m \in Message :
                         (Copies(c, m)' > 0 /\ m # System /\ m.from = hmsg'.from)
                            => m.n <= hmsg'.n
  BY DEF BcastIsLast
<1>0. /\ hmsg \in Message /\ hmsg' \in Message /\ BcastIsLast
      /\ hmsg' # System => hmsg'.from \in Conns /\ hmsg'.n \in Nat
      /\ rpc \in [Conns -> {"register", "read", "reply", "direct", "echo",
                            "publish", "offer", "unregister", "close", "done"}]
      /\ rmsg \in [Conns -> Message]
  BY MessageKinds DEF OrderInv, IInv, TypeOK
<1>1. ASSUME NEW m \in Message, m # System, NoMore(m), hmsg' = hmsg, hpc = "bcast",
             m.from = hmsg.from, NEW c \in Conns, Copies(c, m)' > 0
      PROVE  m.n <= hmsg.n
  <2>1. Copies(c, m) > 0
    BY <1>1, CopiesChange DEF NoMore
  <2>2. QED
    BY <1>0, <1>1, <2>1 DEF BcastIsLast
<1>2. CASE Idle
  <2>1. hpc = "bcast" /\ UNCHANGED <<hmsg, rpc>>
    BY <1>2 DEF Idle
  <2>2. \A m \in Message : NoMore(m)
    BY <1>2, CopiesChange DEF Idle, NoMore
  <2>3. QED
    BY <1>0, <1>1, <2>1, <2>2 DEF BcastIsLast
<1>3. ASSUME NEW c \in Conns, Visits(c)
      PROVE  /\ rpc'[hmsg'.from] # "echo"
             /\ \A d \in Conns : \A m \in Message :
                  (Copies(d, m)' > 0 /\ m # System /\ m.from = hmsg'.from) => m.n <= hmsg'.n
  <2>1. hpc = "bcast" /\ UNCHANGED <<hmsg, rpc>>
    BY <1>3 DEF Visits
  <2>2. \A m \in Message : hmsg # m => NoMore(m)
    BY <1>3, CopiesOfGiven DEF Visits
  <2>3. hmsg.n <= hmsg.n
    BY <1>0, <2>1
  <2>4. QED
    BY <1>0, <1>1, <2>1, <2>2, <2>3 DEF BcastIsLast
<1>4. ASSUME NEW c \in Conns, Answers(c)
      PROVE  /\ rpc'[hmsg'.from] # "echo"
             /\ \A d \in Conns : \A m \in Message :
                  (Copies(d, m)' > 0 /\ m # System /\ m.from = hmsg'.from) => m.n <= hmsg'.n
  <2>1. /\ hpc = "bcast" /\ UNCHANGED hmsg /\ rpc' = [rpc EXCEPT ![c] = "read"]
        /\ rpc[c] \in {"reply", "echo"}
    BY <1>4 DEF Answers, Goto
  <2>2. rpc'[hmsg.from] # "echo"
    BY <1>0, <2>1 DEF BcastIsLast
  <2>3. PICK x \in Message : rmsg[c] = x /\ Given(c, x)
    BY <1>4 DEF Answers
  <2>4. x = System \/ x.from # hmsg.from
    BY <1>0, <2>1, <2>3, MessageFields DEF BcastIsLast, CarryInv, ReaderCarries
  <2>5. \A m \in Message : x # m => NoMore(m)
    BY <2>3, CopiesOfGiven
  <2>6. QED
    BY <1>1, <2>1, <2>2, <2>4, <2>5
<1>5. ASSUME NEW c \in Conns, Reads(c) \/ Publishes(c) \/ Moves(c) \/ Offers(c),
             UNCHANGED <<hpc, hmsg>> \/ (hpc = "bcast" /\ UNCHANGED hmsg)
      PROVE  /\ rpc'[hmsg'.from] # "echo"
             /\ \A d \in Conns : \A m \in Message :
                  (Copies(d, m)' > 0 /\ m # System /\ m.from = hmsg'.from) => m.n <= hmsg'.n
  <2>1. /\ hpc = "bcast" /\ UNCHANGED hmsg /\ Same
        /\ \E pc \in {"read", "reply", "direct", "publish", "offer", "unregister", "close", "done"} :
              rpc' = [rpc EXCEPT ![c] = pc]
    BY <1>5 DEF Reads, Publishes, Moves, Offers, Goto
  <2>2. rpc'[hmsg.from] # "echo"
    BY <1>0, <2>1 DEF BcastIsLast
  <2>3. \A m \in Message : NoMore(m)
    BY <2>1, CopiesOfSame
  <2>4. QED
    BY <1>1, <2>1, <2>2, <2>3
<1>6. ASSUME NEW c \in Conns, Offers(c), hmsg' = rmsg[c]
      PROVE  /\ rpc'[hmsg'.from] # "echo"
             /\ \A d \in Conns : \A m \in Message :
                  (Copies(d, m)' > 0 /\ m # System /\ m.from = hmsg'.from) => m.n <= hmsg'.n
  <2>1. hmsg'.from = c /\ hmsg'.n = sent[c] /\ rpc'[c] = "read" /\ Same
    BY <1>0, <1>6, MessageFields DEF Offers, Goto, CarryInv, ReaderCarries
  <2>2. ASSUME NEW d \in Conns, NEW m \in Message, Copies(d, m)' > 0, m # System, m.from = c
        PROVE  m.n <= sent[c]
    <3>1. Copies(d, m) > 0
      BY <2>1, <2>2, CopiesOfSame, CopiesChange DEF NoMore
    <3>2. QED
      BY <2>2, <3>1 DEF CarryInv, StreamsHoldOld, Old
  <2>3. QED
    BY <2>1, <2>2
<1>7. QED
  BY <1>2, <1>3, <1>4, <1>5, <1>6
  DEF StreamEvent, EndsLoop, Notifies, Takes, Reads, Publishes, Offers, Moves, Subscribes

LEMMA InitOrder == Init => CarryInv /\ OrderInv
<1> SUFFICES ASSUME Init PROVE CarryInv /\ OrderInv
  OBVIOUS
<1>1. \A c \in Conns : Stream(c) = <<>>
  BY DEF Init, Stream
<1>2. \A c \in Conns : \A m : Copies(c, m) = 0
  <2>1. \A m : {i \in DOMAIN <<>> : <<>>[i] = m} = {}
    OBVIOUS
  <2>2. QED
    BY <1>1, <2>1, FS_EmptySet DEF Copies
<1>3. CarryInv
  BY <1>2, MessageFields
  DEF Init, CarryInv, ReaderCarries, OthersCarry, StreamsHoldOld, Old, ForAll
<1>4. OrderInv
  BY <1>1, <1>2 DEF Init, OrderInv, StreamsInOrder, InOrder, BcastIsLast
<1>5. QED
  BY <1>3, <1>4

LEMMA OrderStep ==
    ASSUME IInv, IInv', CarryInv, OrderInv, [Next]_vars
    PROVE  CarryInv' /\ OrderInv'
<1>1. CASE UNCHANGED vars
  <2>1. /\ UNCHANGED <<hpc, hmsg, rpc, rmsg, sent, redis, smsg>>
        /\ \A c \in Conns : Kept(c)
    BY <1>1 DEF vars, Kept, Stream
  <2>2. \A c \in Conns : \A m : Copies(c, m)' = Copies(c, m)
    BY <2>1, CopiesChange DEF Kept
  <2>3. ReaderCarries'
    BY <2>1 DEF CarryInv, ReaderCarries, Old
  <2>4. OthersCarry'
    BY <2>1 DEF CarryInv, OthersCarry, ForAll, Old
  <2>5. StreamsHoldOld'
    BY <2>1, <2>2 DEF CarryInv, StreamsHoldOld, Old
  <2>6. StreamsInOrder'
    BY <2>1, OrderKept DEF OrderInv, StreamsInOrder
  <2>7. BcastIsLast'
    BY <2>1, <2>2 DEF OrderInv, BcastIsLast
  <2>8. QED
    BY <2>3, <2>4, <2>5, <2>6, <2>7 DEF CarryInv, OrderInv
<1>2. CASE Next
  BY <1>2, CarryStep, StreamEvents, StreamsStayInOrder, BcastStaysLast DEF OrderInv
<1>3. QED
  BY <1>1, <1>2

(* What one connection sends never overtakes itself on its way to another: *)
(* direct messages always, broadcasts too without Redis (readPump handles  *)
(* one message at a time, Hub.Run one event, and a channel is a queue).    *)
THEOREM SendersKeepTheirOrder == Spec => []SenderOrder
<1>1. OrderInv => SenderOrder
  BY DEF OrderInv, StreamsInOrder, InOrder, Before, SenderOrder
<1>2. Init => IInv /\ CarryInv /\ OrderInv
  BY InitInv, InitOrder
<1>3. IInv /\ CarryInv /\ OrderInv /\ [Next]_vars => (IInv /\ CarryInv /\ OrderInv)'
  BY StepKeepsInv, OrderStep
<1>4. QED
  BY <1>1, <1>2, <1>3, PTL DEF Spec

-----------------------------------------------------------------------------
(* Where the copies of a direct message are.                               *)

(* The sender's own connection may hold two: its confirmation, and the     *)
(* delivery when it wrote to its own user and the hub picked this tab.     *)
Placed(m) ==
   /\ \A c \in Conns : Copies(c, m) > 0 => c = m.from \/ User[c] = m.to
   /\ \A c, d \in Conns \ {m.from} : Copies(c, m) > 0 /\ Copies(d, m) > 0 => c = d
   /\ \A c \in Conns \ {m.from} : Copies(c, m) <= 1
   /\ Copies(m.from, m) <= 2
   /\ Copies(m.from, m) = 2 => /\ User[m.from] = m.to
                               /\ \A c \in Conns \ {m.from} : Copies(c, m) = 0

DirectPlaced == \A m \in Message : m.kind = "direct" => Placed(m)

(* Before the hub takes it, a direct message is in no stream; before the   *)
(* confirmation, the sender holds it only if the delivery came to it.      *)
Awaits(s, m) ==
   /\ rpc[s] = "direct" => \A c \in Conns : Copies(c, m) = 0
   /\ rpc[s] = "echo" =>
        /\ Copies(s, m) <= 1
        /\ Copies(s, m) = 1 => /\ User[s] = m.to
                               /\ \A c \in Conns \ {s} : Copies(c, m) = 0

ReadersAwait == \A s \in Conns : \A m \in Message : rmsg[s] = m => Awaits(s, m)

DirectInv == DirectPlaced /\ ReadersAwait

LEMMA PlacedStays ==
    ASSUME IInv, IInv', NEW m \in Message, m.kind = "direct", Placed(m), NoMore(m)
    PROVE  Placed(m)'
<1>1. m.from \in Conns
  BY MessageKinds, MessageFields
<1>2. \A c \in Conns : /\ Copies(c, m) \in Nat /\ Copies(c, m)' \in Nat
                       /\ Copies(c, m)' <= Copies(c, m)
  BY CopiesChange DEF NoMore
<1>3. QED
  BY <1>1, <1>2 DEF Placed

LEMMA AwaitsStays ==
    ASSUME IInv, IInv', NEW m \in Message, NEW s \in Conns, Awaits(s, m), NoMore(m),
           rpc'[s] = rpc[s]
    PROVE  Awaits(s, m)'
<1>1. \A c \in Conns : /\ Copies(c, m) \in Nat /\ Copies(c, m)' \in Nat
                       /\ Copies(c, m)' <= Copies(c, m)
  BY CopiesChange DEF NoMore
<1>2. QED
  BY <1>1 DEF Awaits

(* The hub hands message m of s over. *)
LEMMA DirectTaken ==
    ASSUME IInv, IInv', CarryInv, DirectInv, NEW s \in Conns, Takes(s),
           NEW m \in Message, rmsg[s] = m
    PROVE  Placed(m)' /\ Awaits(s, m)'
<1>1. m.from = s /\ m.kind = "direct" /\ rpc[s] = "direct"
  BY MessageFields DEF CarryInv, ReaderCarries, Takes
<1>2. \A c \in Conns : Copies(c, m) = 0 /\ Copies(c, m)' \in Nat
  BY <1>1, CopiesChange DEF DirectInv, ReadersAwait, Awaits
<1>3. rpc'[s] = "echo"
  BY DEF Takes, IInv, TypeOK
<1>4. CASE Same
  <2>1. \A c \in Conns : Copies(c, m)' = 0
    BY <1>2, <1>4, CopiesOfSame DEF NoMore
  <2>2. QED
    BY <1>1, <1>3, <2>1 DEF Placed, Awaits
<1>5. CASE \E c \in Conns : User[c] = m.to /\ Given(c, m)
  <2>1. PICK c \in Conns : User[c] = m.to /\ Given(c, m)
    BY <1>5
  <2>2. Copies(c, m)' <= 1 /\ \A d \in Conns \ {c} : Copies(d, m)' = 0
    BY <1>2, <2>1, CopiesOfGiven DEF OneMore
  <2>3. Placed(m)'
    BY <1>1, <1>2, <2>1, <2>2 DEF Placed
  <2>4. Awaits(s, m)'
    BY <1>2, <1>3, <2>1, <2>2 DEF Awaits
  <2>5. QED
    BY <2>3, <2>4
<1>6. QED
  BY <1>4, <1>5 DEF Takes

(* The reader of s confirms its message m. *)
LEMMA DirectConfirmed ==
    ASSUME IInv, IInv', CarryInv, DirectInv, NEW s \in Conns, rpc[s] = "echo",
           NEW m \in Message, rmsg[s] = m, Given(s, m)
    PROVE  Placed(m)'
<1>1. m.from = s /\ m.kind = "direct"
  BY MessageFields DEF CarryInv, ReaderCarries
<1>2. Placed(m) /\ Awaits(s, m)
  BY <1>1 DEF DirectInv, DirectPlaced, ReadersAwait
<1>3. /\ \A c \in Conns : Copies(c, m) \in Nat /\ Copies(c, m)' \in Nat
      /\ Copies(s, m)' <= Copies(s, m) + 1
      /\ \A d \in Conns \ {s} : Copies(d, m)' = Copies(d, m)
  BY CopiesChange, CopiesOfGiven DEF OneMore
<1>4. QED
  BY <1>1, <1>2, <1>3 DEF Placed, Awaits

LEMMA DirectStep ==
    ASSUME IInv, IInv', CarryInv, DirectInv, StreamEvent
    PROVE  DirectInv'
<1>0. /\ rpc \in [Conns -> {"register", "read", "reply", "direct", "echo",
                            "publish", "offer", "unregister", "close", "done"}]
      /\ rmsg \in [Conns -> Message] /\ sent \in [Conns -> Nat]
  BY DEF IInv, TypeOK
<1>1. ASSUME \A m \in Message : m.kind = "direct" => NoMore(m) PROVE DirectPlaced'
  BY <1>1, PlacedStays DEF DirectInv, DirectPlaced
<1>2. ASSUME NEW s \in Conns, rpc'[s] = rpc[s], rmsg'[s] = rmsg[s],
             \A m \in Message : m.kind = "direct" /\ m.from = s => NoMore(m)
      PROVE  \A m \in Message : rmsg'[s] = m => Awaits(s, m)'
  <2> SUFFICES ASSUME NEW m \in Message, rmsg[s] = m PROVE Awaits(s, m)'
    BY <1>2
  <2>1. CASE rpc[s] \in {"direct", "echo"}
    <3>1. m.kind = "direct" /\ m.from = s
      BY <2>1, MessageFields DEF CarryInv, ReaderCarries
    <3>2. QED
      BY <1>2, <3>1, AwaitsStays DEF DirectInv, ReadersAwait
  <2>2. CASE rpc[s] \notin {"direct", "echo"}
    BY <1>2, <2>2 DEF Awaits
  <2>3. QED
    BY <2>1, <2>2
<1>3. ASSUME UNCHANGED <<rpc, rmsg>>, \A m \in Message : m.kind = "direct" => NoMore(m)
      PROVE  DirectInv'
  <2>1. \A s \in Conns : \A m \in Message : rmsg'[s] = m => Awaits(s, m)'
    BY <1>2, <1>3
  <2>2. QED
    BY <1>1, <1>3, <2>1 DEF DirectInv, ReadersAwait
<1>4. CASE Idle
  <2>1. \A m \in Message : NoMore(m)
    BY <1>4, CopiesChange DEF Idle, NoMore
  <2>2. QED
    BY <1>3, <1>4, <2>1 DEF Idle
<1>5. CASE EndsLoop
  BY <1>3, <1>5, CopiesOfSame DEF EndsLoop
<1>6. ASSUME NEW c \in Conns, Visits(c) \/ Notifies(c) \/ Subscribes(c) PROVE DirectInv'
  <2>1. PICK x \in Message : x.kind # "direct" /\ Given(c, x)
    BY <1>6, MessageTypes, MessageFields
    DEF Visits, Notifies, Subscribes, CarryInv, OthersCarry, ForAll
  <2>2. \A m \in Message : m.kind = "direct" => NoMore(m)
    BY <2>1, CopiesOfGiven
  <2>3. QED
    BY <1>3, <1>6, <2>2 DEF Visits, Notifies, Subscribes
<1>7. ASSUME NEW s \in Conns, Takes(s) PROVE DirectInv'
  <2>1. PICK x \in Message : rmsg[s] = x /\ (Same \/ \E c \in Conns : Given(c, x))
    BY <1>7 DEF Takes
  <2>2. /\ UNCHANGED rmsg /\ \A d \in Conns \ {s} : rpc'[d] = rpc[d]
        /\ x.from = s /\ x.kind = "direct"
    BY <1>0, <1>7, <2>1, MessageFields DEF Takes, CarryInv, ReaderCarries
  <2>3. Placed(x)' /\ Awaits(s, x)'
    BY <1>7, <2>1, DirectTaken
  <2>4. \A m \in Message : m # x => NoMore(m)
    BY <2>1, CopiesOfSame, CopiesOfGiven
  <2>5. DirectPlaced'
    BY <2>3, <2>4, PlacedStays DEF DirectInv, DirectPlaced
  <2>6. ASSUME NEW d \in Conns, NEW m \in Message, rmsg'[d] = m PROVE Awaits(d, m)'
    <3>1. CASE d = s
      BY <2>1, <2>2, <2>3, <2>6, <3>1
    <3>2. CASE d # s
      BY <1>2, <2>2, <2>4, <2>6, <3>2
    <3>3. QED
      BY <3>1, <3>2
  <2>7. QED
    BY <2>5, <2>6 DEF DirectInv, ReadersAwait
<1>8. ASSUME NEW s \in Conns, Answers(s) PROVE DirectInv'
  <2>1. PICK x \in Message : rmsg[s] = x /\ Given(s, x)
    BY <1>8 DEF Answers
  <2>2. /\ rpc'[s] = "read"
        /\ \A d \in Conns \ {s} : rpc'[d] = rpc[d] /\ rmsg'[d] = rmsg[d]
    BY <1>0, <1>8 DEF Answers, Goto
  <2>3. \A m \in Message : m # x => NoMore(m)
    BY <2>1, CopiesOfGiven
  <2>4. x.kind = "direct" => rpc[s] = "echo" /\ x.from = s
    BY <1>8, <2>1, MessageFields DEF Answers, CarryInv, ReaderCarries
  <2>5. x.kind = "direct" => Placed(x)'
    BY <2>1, <2>4, DirectConfirmed
  <2>6. DirectPlaced'
    BY <2>3, <2>5, PlacedStays DEF DirectInv, DirectPlaced
  <2>7. ASSUME NEW d \in Conns, NEW m \in Message, rmsg'[d] = m PROVE Awaits(d, m)'
    <3>1. CASE d = s
      BY <2>2, <3>1 DEF Awaits
    <3>2. CASE d # s
      BY <1>2, <2>2, <2>3, <2>4, <2>7, <3>2
    <3>3. QED
      BY <3>1, <3>2
  <2>8. QED
    BY <2>6, <2>7 DEF DirectInv, ReadersAwait
<1>9. ASSUME NEW s \in Conns, Reads(s) \/ Publishes(s) \/ Offers(s) \/ Moves(s) PROVE DirectInv'
  <2>1. \A m \in Message : NoMore(m)
    BY <1>9, CopiesOfSame DEF Reads, Publishes, Offers, Moves
  <2>2. \A d \in Conns \ {s} : rpc'[d] = rpc[d] /\ rmsg'[d] = rmsg[d]
    BY <1>0, <1>9 DEF Reads, Publishes, Offers, Moves, Goto
  <2>3. rpc'[s] # "echo"
    BY <1>0, <1>9 DEF Reads, Publishes, Offers, Moves, Goto
  <2>4. ASSUME NEW m \in Message, rmsg'[s] = m, rpc'[s] = "direct", NEW c \in Conns
        PROVE  Copies(c, m)' = 0
    <3>1. m.from = s /\ m.n = sent[s] + 1 /\ m # System
      BY <1>0, <1>9, <2>4, MessageFields DEF Reads, Publishes, Offers, Moves, Goto
    <3>2. ~Old(m)
      BY <1>0, <3>1 DEF Old
    <3>3. ~(Copies(c, m) > 0)
      BY <3>2 DEF CarryInv, StreamsHoldOld
    <3>4. QED
      BY <2>1, <3>3, CopiesChange DEF NoMore
  <2>5. ASSUME NEW d \in Conns, NEW m \in Message, rmsg'[d] = m PROVE Awaits(d, m)'
    <3>1. CASE d = s
      BY <2>3, <2>4, <2>5, <3>1 DEF Awaits
    <3>2. CASE d # s
      BY <1>2, <2>1, <2>2, <2>5, <3>2
    <3>3. QED
      BY <3>1, <3>2
  <2>6. QED
    BY <1>1, <2>1, <2>5 DEF DirectInv, ReadersAwait
<1>10. QED
  BY <1>4, <1>5, <1>6, <1>7, <1>8, <1>9 DEF StreamEvent

LEMMA NoCopiesYet == Init => \A c \in Conns : \A m : Copies(c, m) = 0
<1>1. \A m : {i \in DOMAIN <<>> : <<>>[i] = m} = {}
  OBVIOUS
<1>2. Init => \A c \in Conns : Stream(c) = <<>>
  BY DEF Init, Stream
<1>3. QED
  BY <1>1, <1>2, FS_EmptySet DEF Copies

LEMMA InitDirect == Init => DirectInv
<1>1. \A m \in Message : m.kind = "direct" => m.from \in Conns
  BY MessageKinds, MessageFields
<1>2. QED
  BY <1>1, NoCopiesYet DEF Init, DirectInv, DirectPlaced, Placed, ReadersAwait, Awaits

(* What the placement says of the set of connections that hold a message.  *)
LEMMA HoldersOf ==
    ASSUME IInv, NEW m \in Message, m.kind = "direct", Placed(m)
    PROVE  LET holders == {c \in Conns : Copies(c, m) > 0}
           IN /\ \A c \in holders : c = m.from \/ User[c] = m.to
              /\ Cardinality(holders \ {m.from}) <= 1
              /\ \A c \in holders \ {m.from} : Copies(c, m) = 1
              /\ Copies(m.from, m)
                   <= 1 + (IF User[m.from] = m.to /\ holders \subseteq {m.from} THEN 1 ELSE 0)
<1> DEFINE holders == {c \in Conns : Copies(c, m) > 0}
<1>1. m.from \in Conns /\ \A c \in Conns : Copies(c, m) \in Nat
  <2>1. \A c \in Conns : Stream(c) \in Seq(Message)
    BY StreamType
  <2>2. \A c \in Conns : Copies(c, m) \in Nat
    BY <2>1, CountIsNat DEF Copies, Count
  <2>3. QED
    BY <2>2, MessageKinds, MessageFields
<1>2. \A c \in holders : c = m.from \/ User[c] = m.to
  BY DEF Placed
<1>3. Cardinality(holders \ {m.from}) <= 1
  <2>1. CASE holders \ {m.from} = {}
    BY <2>1, FS_EmptySet
  <2>2. CASE \E c \in Conns : holders \ {m.from} = {c}
    <3>1. PICK c \in Conns : holders \ {m.from} = {c}
      BY <2>2
    <3>2. Cardinality({c}) = 1
      BY FS_Singleton
    <3>3. QED
      BY <3>1, <3>2
  <2>3. QED
    BY <2>1, <2>2 DEF Placed
<1>4. \A c \in holders \ {m.from} : Copies(c, m) = 1
  BY <1>1 DEF Placed
<1>5. Copies(m.from, m)
         <= 1 + (IF User[m.from] = m.to /\ holders \subseteq {m.from} THEN 1 ELSE 0)
  <2>1. CASE Copies(m.from, m) = 2
    <3>1. User[m.from] = m.to /\ holders \subseteq {m.from}
      BY <2>1 DEF Placed
    <3>2. QED
      BY <2>1, <3>1
  <2>2. CASE Copies(m.from, m) # 2
    BY <1>1, <2>2 DEF Placed
  <2>3. QED
    BY <2>1, <2>2
<1>6. QED
  BY <1>2, <1>3, <1>4, <1>5

(* A direct message comes to at most one connection of its recipient and   *)
(* once, and its sender holds its confirmation once (the directMsg case of *)
(* Hub.Run, hub.go:137-159, and the echo of readPump).                     *)
THEOREM DirectDelivered == Spec => []DirectDelivery
<1>1. IInv /\ DirectInv => DirectDelivery
  <2> SUFFICES ASSUME IInv, DirectInv, NEW s \in Conns, NEW n \in 1..MaxMsgs[s], NEW u \in Users
               PROVE  LET m == Direct(s, n, u)
                          holders == {c \in Conns : Copies(c, m) > 0}
                      IN /\ \A c \in holders : c = s \/ User[c] = u
                         /\ Cardinality(holders \ {s}) <= 1
                         /\ \A c \in holders \ {s} : Copies(c, m) = 1
                         /\ Copies(s, m) <= 1 + (IF User[s] = u /\ holders \subseteq {s}
                                                 THEN 1 ELSE 0)
    BY DEF DirectDelivery
  <2> DEFINE m == Direct(s, n, u)
  <2>1. m \in Message /\ m.kind = "direct" /\ m.from = s /\ m.to = u
    BY MessageTypes, MessageFields
  <2> HIDE DEF m
  <2>2. Placed(m)
    BY <2>1 DEF DirectInv, DirectPlaced
  <2>3. QED
    BY <2>1, <2>2, HoldersOf DEF m
<1>2. Init => IInv /\ CarryInv /\ OrderInv /\ DirectInv
  BY InitInv, InitOrder, InitDirect
<1>3. IInv /\ CarryInv /\ OrderInv /\ DirectInv /\ [Next]_vars
         => (IInv /\ CarryInv /\ OrderInv /\ DirectInv)'
  <2> SUFFICES ASSUME IInv, CarryInv, OrderInv, DirectInv, [Next]_vars, IInv'
               PROVE  (CarryInv /\ OrderInv /\ DirectInv)'
    BY StepKeepsInv
  <2>1. CASE Next
    BY <2>1, StreamEvents, DirectStep, OrderStep
  <2>2. CASE UNCHANGED vars
    <3>1. Idle
      BY <2>2 DEF vars, Idle, Kept, Stream
    <3>2. QED
      BY <3>1, DirectStep, OrderStep DEF StreamEvent
  <2>3. QED
    BY <2>1, <2>2
<1>4. QED
  BY <1>1, <1>2, <1>3, PTL DEF Spec

-----------------------------------------------------------------------------
(* The copies of a broadcast, as long as the hub is its only way.          *)

(* No stream holds a broadcast twice; none holds one that is still to be   *)
(* offered; of the one going out, those the loop has still to visit hold   *)
(* none.                                                                   *)
BcastsOnce == \A c \in Conns : \A m \in Message : m.kind = "bcast" => Copies(c, m) <= 1

OffersAreNew ==
   \A s \in Conns : \A m \in Message : (rpc[s] = "offer" /\ rmsg[s] = m) =>
      hmsg # m /\ \A c \in Conns : Copies(c, m) = 0

LoopHasNotServed ==
   \A m \in Message : (hpc = "bcast" /\ hmsg = m /\ m # System) =>
      \A c \in hleft : Copies(c, m) = 0

BcastInv == ~Redis => BcastsOnce /\ OffersAreNew /\ LoopHasNotServed

LEMMA BcastQuiet ==
    ASSUME IInv, IInv', ~Redis, BcastInv, \A m \in Message : m.kind = "bcast" => NoMore(m)
    PROVE  /\ BcastsOnce'
           /\ \A m \in Message : m.kind = "bcast" => \A c \in Conns :
                 Copies(c, m) = 0 => Copies(c, m)' = 0
<1>1. \A c \in Conns : \A m \in Message : m.kind = "bcast" =>
         /\ Copies(c, m) \in Nat /\ Copies(c, m)' \in Nat
         /\ Copies(c, m)' <= Copies(c, m)
  BY CopiesChange DEF NoMore
<1>2. QED
  BY <1>1 DEF BcastInv, BcastsOnce

LEMMA BcastStep ==
    ASSUME IInv, IInv', CarryInv, BcastInv, StreamEvent
    PROVE  BcastInv'
<1> SUFFICES ASSUME ~Redis PROVE BcastsOnce' /\ OffersAreNew' /\ LoopHasNotServed'
  BY DEF BcastInv
<1>0. /\ rpc \in [Conns -> {"register", "read", "reply", "direct", "echo",
                            "publish", "offer", "unregister", "close", "done"}]
      /\ rmsg \in [Conns -> Message] /\ sent \in [Conns -> Nat]
      /\ hmsg \in Message /\ hmsg' \in Message
      /\ hleft \subseteq Conns /\ hleft' \subseteq Conns
  BY DEF IInv, TypeOK
<1>1. BcastsOnce /\ OffersAreNew /\ LoopHasNotServed
  BY DEF BcastInv
<1>2. \A m \in Message : (m # System /\ m.kind # "direct") => m.kind = "bcast"
  BY MessageFields DEF Message, Chat
<1>3. \A m \in Message : hmsg = m /\ m # System => m.kind = "bcast"
  BY <1>2 DEF CarryInv, OthersCarry, ForAll
<1>4. \A s \in Conns : \A m \in Message : rpc[s] = "offer" /\ rmsg[s] = m
         => m.kind = "bcast" /\ m.from = s
  BY MessageFields DEF CarryInv, ReaderCarries
<1>5. ASSUME \A m \in Message : m.kind = "bcast" => NoMore(m),
             \A s \in Conns : rpc'[s] = "offer" => rpc[s] = "offer" /\ rmsg'[s] = rmsg[s],
             hmsg' = hmsg \/ hmsg' = System,
             hpc' = "bcast" => hpc = "bcast", hleft' \subseteq hleft
      PROVE  BcastsOnce' /\ OffersAreNew' /\ LoopHasNotServed'
  <2>1. /\ BcastsOnce'
        /\ \A m \in Message : m.kind = "bcast" => \A c \in Conns :
              Copies(c, m) = 0 => Copies(c, m)' = 0
    BY <1>5, BcastQuiet
  <2>2. OffersAreNew'
    <3> SUFFICES ASSUME NEW s \in Conns, NEW m \in Message, rpc'[s] = "offer", rmsg'[s] = m
                 PROVE  hmsg' # m /\ \A c \in Conns : Copies(c, m)' = 0
      BY DEF OffersAreNew
    <3>1. rpc[s] = "offer" /\ rmsg[s] = m /\ m.kind = "bcast"
      BY <1>4, <1>5
    <3>2. hmsg' # m
      BY <1>1, <1>5, <3>1, MessageFields DEF OffersAreNew
    <3>3. QED
      BY <1>1, <2>1, <3>1, <3>2 DEF OffersAreNew
  <2>3. LoopHasNotServed'
    <3> SUFFICES ASSUME NEW m \in Message, hpc' = "bcast", hmsg' = m, m # System,
                        NEW c \in hleft'
                 PROVE  Copies(c, m)' = 0
      BY DEF LoopHasNotServed
    <3>1. hpc = "bcast" /\ hmsg = m /\ c \in hleft /\ c \in Conns /\ m.kind = "bcast"
      BY <1>0, <1>3, <1>5
    <3>2. QED
      BY <1>1, <2>1, <3>1 DEF LoopHasNotServed
  <2>4. QED
    BY <2>1, <2>2, <2>3
<1>6. CASE Idle
  <2>1. \A m \in Message : NoMore(m)
    BY <1>6, CopiesChange DEF Idle, NoMore
  <2>2. QED
    BY <1>5, <1>6, <2>1 DEF Idle
<1>7. CASE EndsLoop
  BY <1>5, <1>7, CopiesOfSame DEF EndsLoop
<1>8. ASSUME NEW c \in Conns, Notifies(c) PROVE BcastsOnce' /\ OffersAreNew' /\ LoopHasNotServed'
  <2>1. \A m \in Message : m.kind = "bcast" => NoMore(m)
    BY <1>8, CopiesOfGiven, MessageTypes, MessageFields DEF Notifies
  <2>2. QED
    BY <1>5, <1>8, <2>1 DEF Notifies
<1>9. ASSUME NEW s \in Conns, Takes(s) \/ Answers(s)
      PROVE  BcastsOnce' /\ OffersAreNew' /\ LoopHasNotServed'
  <2>1. PICK x \in Message : rmsg[s] = x /\ (Same \/ \E c \in Conns : Given(c, x))
    BY <1>9 DEF Takes, Answers
  <2>2. x.kind # "bcast"
    BY <1>9, <2>1, MessageFields DEF Takes, Answers, CarryInv, ReaderCarries
  <2>3. \A m \in Message : m.kind = "bcast" => NoMore(m)
    BY <2>1, <2>2, CopiesOfSame, CopiesOfGiven
  <2>4. /\ \A d \in Conns : rpc'[d] = "offer" => rpc[d] = "offer" /\ rmsg'[d] = rmsg[d]
        /\ UNCHANGED <<hmsg, hleft>> /\ (hpc' = "bcast" => hpc = "bcast")
    BY <1>0, <1>9 DEF Takes, Answers, Goto
  <2>5. QED
    BY <1>5, <2>3, <2>4
<1>10. ASSUME NEW s \in Conns, Moves(s)
       PROVE  BcastsOnce' /\ OffersAreNew' /\ LoopHasNotServed'
  <2>1. /\ \A d \in Conns : rpc'[d] = "offer" => rpc[d] = "offer" /\ rmsg'[d] = rmsg[d]
        /\ UNCHANGED <<hmsg, hleft>> /\ (hpc' = "bcast" => hpc = "bcast") /\ Same
    BY <1>0, <1>10 DEF Moves
  <2>2. QED
    BY <1>5, <2>1, CopiesOfSame
<1>11. ASSUME NEW c \in Conns, Publishes(c) \/ Subscribes(c) PROVE FALSE
  BY <1>11 DEF Publishes, Subscribes, CarryInv, ReaderCarries
<1>12. ASSUME NEW c \in Conns, Visits(c)
       PROVE  BcastsOnce' /\ OffersAreNew' /\ LoopHasNotServed'
  <2>1. PICK x \in Message : hmsg = x /\ Given(c, x)
    BY <1>12 DEF Visits
  <2>2. /\ hpc = "bcast" /\ c \in hleft /\ hleft' = hleft \ {c}
        /\ UNCHANGED <<hmsg, rpc, rmsg>>
    BY <1>12 DEF Visits
  <2>3. \A m \in Message : m # x => NoMore(m)
    BY <2>1, CopiesOfGiven
  <2>4. CASE x = System
    BY <1>5, <2>2, <2>3, <2>4, MessageFields
  <2>5. CASE x # System
    <3>1. Copies(c, x)' <= 1 /\ \A d \in Conns \ {c} : Copies(d, x)' = Copies(d, x)
      <4>1. Copies(c, x) = 0
        BY <1>1, <2>1, <2>2, <2>5 DEF LoopHasNotServed
      <4>2. QED
        BY <2>1, <4>1, CopiesOfGiven DEF OneMore
    <3>2. \A d \in Conns : \A m \in Message : m # x => Copies(d, m)' <= Copies(d, m)
      BY <2>3 DEF NoMore
    <3>3. \A d \in Conns : \A m \in Message : Copies(d, m) \in Nat /\ Copies(d, m)' \in Nat
      BY CopiesChange
    <3>4. BcastsOnce'
      <4> SUFFICES ASSUME NEW d \in Conns, NEW m \in Message, m.kind = "bcast"
                   PROVE  Copies(d, m)' <= 1
        BY DEF BcastsOnce
      <4>1. Copies(d, m) <= 1
        BY <1>1 DEF BcastsOnce
      <4>2. QED
        BY <3>1, <3>2, <3>3, <4>1
    <3>5. OffersAreNew'
      <4> SUFFICES ASSUME NEW s \in Conns, NEW m \in Message, rpc[s] = "offer", rmsg[s] = m
                   PROVE  hmsg # m /\ \A d \in Conns : Copies(d, m)' = 0
        BY <2>2 DEF OffersAreNew
      <4>1. hmsg # m /\ \A d \in Conns : Copies(d, m) = 0
        BY <1>1 DEF OffersAreNew
      <4>2. QED
        BY <2>1, <3>2, <3>3, <4>1
    <3>6. LoopHasNotServed'
      <4> SUFFICES ASSUME NEW d \in hleft' PROVE Copies(d, x)' = 0
        BY <2>1, <2>2 DEF LoopHasNotServed
      <4>1. Copies(d, x) = 0 /\ d \in Conns \ {c}
        BY <1>0, <1>1, <2>1, <2>2, <2>5 DEF LoopHasNotServed
      <4>2. QED
        BY <3>1, <4>1
    <3>7. QED
      BY <3>4, <3>5, <3>6
  <2>6. QED
    BY <2>4, <2>5
<1>13. ASSUME NEW c \in Conns, Reads(c)
       PROVE  BcastsOnce' /\ OffersAreNew' /\ LoopHasNotServed'
  <2>1. /\ UNCHANGED <<hpc, hmsg, hleft>> /\ Same
        /\ \A d \in Conns \ {c} : rpc'[d] = rpc[d] /\ rmsg'[d] = rmsg[d]
    BY <1>0, <1>13 DEF Reads, Goto
  <2>2. /\ BcastsOnce'
        /\ \A m \in Message : m.kind = "bcast" => \A d \in Conns :
              Copies(d, m) = 0 => Copies(d, m)' = 0
    BY <2>1, CopiesOfSame, BcastQuiet
  <2>3. OffersAreNew'
    <3> SUFFICES ASSUME NEW s \in Conns, NEW m \in Message, rpc'[s] = "offer", rmsg'[s] = m
                 PROVE  hmsg # m /\ m.kind = "bcast" /\ \A d \in Conns : Copies(d, m) = 0
      BY <2>1, <2>2 DEF OffersAreNew
    <3>1. CASE s # c
      BY <1>1, <1>4, <2>1, <3>1 DEF OffersAreNew
    <3>2. CASE s = c
      <4>1. m = Bcast(c, sent[c] + 1)
        BY <1>0, <1>13, <3>2 DEF Reads, Goto
      <4>2. ~Old(m) /\ m.kind = "bcast"
        BY <1>0, <4>1, MessageFields DEF Old
      <4>3. hmsg # m
        BY <4>2 DEF CarryInv, OthersCarry, ForAll
      <4>4. \A d \in Conns : ~(Copies(d, m) > 0)
        BY <4>2 DEF CarryInv, StreamsHoldOld
      <4>5. QED
        BY <4>2, <4>3, <4>4, CopiesChange
    <3>3. QED
      BY <3>1, <3>2
  <2>4. LoopHasNotServed'
    BY <1>0, <1>1, <1>3, <2>1, <2>2 DEF LoopHasNotServed
  <2>5. QED
    BY <2>2, <2>3, <2>4
<1>14. ASSUME NEW c \in Conns, Offers(c)
       PROVE  BcastsOnce' /\ OffersAreNew' /\ LoopHasNotServed'
  <2>1. /\ Same /\ rpc[c] = "offer" /\ rpc'[c] = "read"
        /\ \A d \in Conns \ {c} : rpc'[d] = rpc[d] /\ rmsg'[d] = rmsg[d]
    BY <1>0, <1>14 DEF Offers, Goto
  <2>2. CASE UNCHANGED <<hpc, hmsg, hleft>>
    BY <1>5, <2>1, <2>2, CopiesOfSame
  <2>3. CASE hmsg' = rmsg[c]
    <3>1. /\ BcastsOnce'
          /\ \A m \in Message : m.kind = "bcast" => \A d \in Conns :
                Copies(d, m) = 0 => Copies(d, m)' = 0
      BY <2>1, CopiesOfSame, BcastQuiet
    <3>2. PICK x \in Message : x = rmsg[c]
      BY <1>0
    <3>3. OffersAreNew'
      <4> SUFFICES ASSUME NEW s \in Conns, NEW m \in Message, rpc'[s] = "offer", rmsg'[s] = m
                   PROVE  hmsg' # m /\ m.kind = "bcast" /\ \A d \in Conns : Copies(d, m) = 0
        BY <3>1 DEF OffersAreNew
      <4>1. rpc[s] = "offer" /\ rmsg[s] = m /\ s # c
        BY <2>1
      <4>2. QED
        BY <1>1, <1>4, <2>1, <2>3, <3>2, <4>1 DEF OffersAreNew
    <3>4. LoopHasNotServed'
      <4>1. x.kind = "bcast" /\ \A d \in Conns : Copies(d, x) = 0
        BY <1>1, <1>4, <2>1, <3>2 DEF OffersAreNew
      <4>2. QED
        BY <1>0, <2>3, <3>1, <3>2, <4>1 DEF LoopHasNotServed
    <3>5. QED
      BY <3>1, <3>3, <3>4
  <2>4. QED
    BY <1>14, <2>2, <2>3 DEF Offers
<1>15. QED
  BY <1>6, <1>7, <1>8, <1>9, <1>10, <1>11, <1>12, <1>13, <1>14 DEF StreamEvent

LEMMA InitBcast == Init => BcastInv
  BY NoCopiesYet DEF Init, BcastInv, BcastsOnce, OffersAreNew, LoopHasNotServed

(* Without Redis a broadcast is handed to no connection twice, however     *)
(* readers, the hub's loop and the writers interleave (Broadcast and the   *)
(* broadcast case of Hub.Run, hub.go:160-190).  With Redis the subscriber  *)
(* hands out the echo as well, and the assumption is needed.               *)
THEOREM BroadcastHandedOutOnce == ASSUME ~Redis PROVE Spec => []BroadcastAtMostOnce
<1>1. BcastInv => BroadcastAtMostOnce
  BY MessageTypes, MessageFields DEF BcastInv, BcastsOnce, BroadcastAtMostOnce
<1>2. Init => IInv /\ CarryInv /\ OrderInv /\ BcastInv
  BY InitInv, InitOrder, InitBcast
<1>3. IInv /\ CarryInv /\ OrderInv /\ BcastInv /\ [Next]_vars
         => (IInv /\ CarryInv /\ OrderInv /\ BcastInv)'
  <2> SUFFICES ASSUME IInv, CarryInv, OrderInv, BcastInv, [Next]_vars, IInv'
               PROVE  (CarryInv /\ OrderInv /\ BcastInv)'
    BY StepKeepsInv
  <2>1. CASE Next
    BY <2>1, StreamEvents, BcastStep, OrderStep
  <2>2. CASE UNCHANGED vars
    <3>1. Idle
      BY <2>2 DEF vars, Idle, Kept, Stream
    <3>2. QED
      BY <3>1, BcastStep, OrderStep DEF StreamEvent
  <2>3. QED
    BY <2>1, <2>2
<1>4. QED
  BY <1>1, <1>2, <1>3, PTL DEF Spec
=============================================================================
