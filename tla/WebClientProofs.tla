--------------------------- MODULE WebClientProofs ---------------------------
(* Proofs about the web page: its connection (WebSocketClient) and what it *)
(* shows (ChatView), for every number of sockets, peers and messages.      *)
EXTENDS ChatView, SequenceTheorems, TLAPS

-----------------------------------------------------------------------------
(* The connection.                                                         *)

(* What the event handlers keep: sockets are used in order, the pending    *)
(* timeout belongs to a page whose connection is closed, and an object     *)
(* that was opened has cleared the timer until it is closed.               *)
SocketInv ==
    /\ SocketTypeOK
    /\ OneLiveSocket /\ BeatsWhileOpen /\ LossIsRetried
    /\ \A i \in Sockets : i > ws => socket[i] = "unused" /\ i \notin opened
    /\ socket[ws] # "unused"
    /\ page = "chat" /\ timer = "pending" => socket[ws] = "closed"
    /\ page = "chat" /\ ws \in opened /\ socket[ws] # "closed" => timer = "null"
    /\ page = "chat" /\ socket[ws] \in {"open", "closing"} /\ heartbeat => ws \in opened

LEMMA SocketInvInit == SocketInit => SocketInv
<1> SUFFICES ASSUME SocketInit PROVE SocketInv
    OBVIOUS
<1> USE MaxSocketsAssumption DEF SocketInit, Sockets
<1>1. /\ ws = 1 /\ ws \in Sockets /\ opened = {} /\ timer = "null"
      /\ socket[ws] = "connecting" /\ \A i \in Sockets : i > ws => socket[i] = "unused"
      OBVIOUS
<1>2. SocketTypeOK
      BY <1>1 DEF SocketTypeOK
<1>3. OneLiveSocket /\ BeatsWhileOpen /\ LossIsRetried
      BY <1>1 DEF OneLiveSocket, BeatsWhileOpen, LossIsRetried, Live
<1>4. QED BY <1>1, <1>2, <1>3 DEF SocketInv

(* Every handler, whatever the state it finds, keeps the invariant. *)
LEMMA SocketInvStep == SocketInv /\ [SocketNext]_sockVars => SocketInv'
<1> SUFFICES ASSUME SocketInv, [SocketNext]_sockVars
             PROVE  SocketInv'
    OBVIOUS
<1> USE MaxSocketsAssumption
    DEF SocketInv, SocketTypeOK, OneLiveSocket, BeatsWhileOpen, LossIsRetried, Live, Sockets
<1>1. ASSUME NEW i \in Sockets, OnOpen(i) PROVE SocketInv'
      BY <1>1 DEF OnOpen
<1>2. ASSUME NEW i \in Sockets, PeerCloses(i) PROVE SocketInv'
      BY <1>2 DEF PeerCloses
<1>3. ASSUME NEW i \in Sockets, OnClose(i) PROVE SocketInv'
      BY <1>3 DEF OnClose
<1>4. CASE Reconnect
  <2>1. CASE ~session
        BY <1>4, <2>1 DEF Reconnect, InitWebSocket, Leave
  <2>2. CASE session
        BY <1>4, <2>2 DEF Reconnect, InitWebSocket
  <2>3. QED BY <2>1, <2>2
<1>5. CASE Logout
      BY <1>5 DEF Logout
<1>6. CASE LogoutSettled
      BY <1>6 DEF LogoutSettled, CloseSocket
<1>7. CASE LeavePage
      BY <1>7 DEF LeavePage, Leave
<1>8. CASE OtherTabLogout
      BY <1>8 DEF OtherTabLogout
<1>9. CASE OtherTabLogin
      BY <1>9 DEF OtherTabLogin
<1>10. CASE UNCHANGED sockVars
      BY <1>10 DEF sockVars
<1>11. QED BY <1>1, <1>2, <1>3, <1>4, <1>5, <1>6, <1>7, <1>8, <1>9, <1>10 DEF SocketNext

LEMMA SocketInvariant == SocketSpec => []SocketInv
  BY SocketInvInit, SocketInvStep, PTL DEF SocketSpec

(* For any number of reconnections the page holds one connection at most,  *)
(* and it is the one ws refers to.                                         *)
THEOREM SingleConnection == SocketSpec => []OneLiveSocket
<1>1. SocketInv => OneLiveSocket
      BY DEF SocketInv
<1>2. QED BY <1>1, SocketInvariant, PTL

(* The heartbeat runs while a connection is open, and for no other reason. *)
THEOREM HeartbeatFollowsSocket == SocketSpec => []BeatsWhileOpen
<1>1. SocketInv => BeatsWhileOpen
      BY DEF SocketInv
<1>2. QED BY <1>1, SocketInvariant, PTL

(* An established connection that is lost has its retry pending.           *)
THEOREM LossHasRetry == SocketSpec => []LossIsRetried
<1>1. SocketInv => LossIsRetried
      BY DEF SocketInv
<1>2. QED BY <1>1, SocketInvariant, PTL

-----------------------------------------------------------------------------
(* The whole page behaves, as far as its connection goes, like             *)
(* WebSocketClient: nothing that is shown, opened or loaded moves it.      *)

LEMMA PageInit == Init => SocketInit
  BY DEF Init

LEMMA PageStep == [Next]_vars => [SocketNext]_sockVars
  BY DEF Next, vars, ViewNext, OpenChat, FromPeer, Echo, HistoryArrives, NoHistory,
         SendMessage, ListArrives, ListLimited, ListFails, ListRetry

THEOREM PageRefinesSocket == Spec => SocketSpec
  BY PageInit, PageStep, PTL DEF Spec, SocketSpec

-----------------------------------------------------------------------------
(* What is shown.                                                          *)

CountsTyped == unread \in [Peers -> Nat]

ViewInv == CountsTyped /\ ActiveIsRead /\ BadgesSettle /\ PaneMatchesOpen

LEMMA ViewInvInit == Init => ViewInv
  BY ChatAssumption
     DEF Init, ViewInit, ViewInv, CountsTyped, ActiveIsRead, BadgesSettle, PaneMatchesOpen

(* The counts of a view step, one conjunct of the invariant at a time. *)
LEMMA ViewInvStep == ViewInv /\ [Next]_vars => ViewInv'
<1> SUFFICES ASSUME ViewInv, [Next]_vars PROVE ViewInv'
    OBVIOUS
<1> USE ChatAssumption DEF ViewInv, CountsTyped, ActiveIsRead, BadgesSettle, PaneMatchesOpen
<1>1. ASSUME NEW u \in Peers, OpenChat(u) PROVE ViewInv'
  <2>1. /\ active' = u /\ unread' = [unread EXCEPT ![u] = 0] /\ pane' \in {pane, {}}
        /\ listed' = listed /\ badges' = badges /\ retries' = retries
        BY <1>1 DEF OpenChat
  <2>2. CountsTyped' /\ ActiveIsRead'
        BY <2>1
  <2>3. BadgesSettle'
    <3>1. CASE unread[u] > 0
      <4>1. loading' \/ ~listOk'
            BY <1>1, <3>1 DEF OpenChat, LoadConversations
      <4>2. QED BY <4>1, <2>1
    <3>2. CASE ~(unread[u] > 0)
      <4>1. unread[u] = 0 /\ unread' = unread
            BY <3>2, <2>1
      <4>2. loading' = loading /\ listOk' = listOk
            BY <1>1, <3>2 DEF OpenChat
      <4>3. QED BY <4>1, <4>2, <2>1
    <3>3. QED BY <3>1, <3>2
  <2>4. PaneMatchesOpen'
    <3>1. CASE session
      <4>1. asked' = Append(asked, u) /\ Append(asked, u) # <<>>
            BY <1>1, <3>1 DEF OpenChat, LoadChatHistory
      <4>2. QED BY <4>1
    <3>2. CASE ~session
      <4>1. lastReply' = Nobody /\ active' # Nobody
            BY <1>1, <3>2, <2>1 DEF OpenChat, LoadChatHistory
      <4>2. QED BY <4>1
    <3>3. QED BY <3>1, <3>2
  <2>5. QED BY <2>2, <2>3, <2>4
<1>2. ASSUME NEW u \in Peers, FromPeer(u) PROVE ViewInv'
  <2>1. active' = active /\ lastReply' = lastReply /\ asked' = asked
        BY <1>2 DEF FromPeer
  <2>2. loading' \/ ~listOk'
        BY <1>2 DEF FromPeer, LoadConversations
  <2>3. BadgesSettle'
        BY <2>1, <2>2
  <2>4. CASE u = active
        BY <1>2, <2>1, <2>3, <2>4 DEF FromPeer
  <2>5. CASE u # active
    <3>1. unread' = [unread EXCEPT ![u] = @ + 1] /\ pane' = pane
          BY <1>2, <2>5 DEF FromPeer
    <3>2. CountsTyped'
          BY <3>1
    <3>3. ActiveIsRead' /\ PaneMatchesOpen'
          BY <3>1, <2>1, <2>5
    <3>4. QED BY <2>3, <3>2, <3>3
  <2>6. QED BY <2>4, <2>5
<1>3. ASSUME NEW u \in Peers, Echo(u) PROVE ViewInv'
      BY <1>3 DEF Echo, Frame, LoadConversations
<1>4. ASSUME NEW i \in DOMAIN asked, HistoryArrives(i) \/ NoHistory(i) PROVE ViewInv'
      BY <1>4 DEF HistoryArrives, NoHistory, listVars
<1>5. CASE SendMessage
      BY <1>5 DEF SendMessage, listVars
<1>6. CASE ListArrives
      BY <1>6 DEF ListArrives, viewVars
<1>7. CASE ListLimited \/ ListFails \/ ListRetry
  <2>1. UNCHANGED viewVars
        BY <1>7 DEF ListLimited, ListFails, ListRetry
  <2>2. loading' \/ ~listOk'
        BY <1>7 DEF ListLimited, ListFails, ListRetry, LoadConversations
  <2>3. BadgesSettle'
        BY <2>1, <2>2
  <2>4. QED BY <2>1, <2>3 DEF viewVars
<1>8. CASE SocketNext /\ UNCHANGED chatVars
      BY <1>8 DEF chatVars, viewVars, listVars
<1>9. CASE UNCHANGED vars
      BY <1>9 DEF vars, chatVars, viewVars, listVars
<1>10. QED BY <1>1, <1>2, <1>3, <1>4, <1>5, <1>6, <1>7, <1>8, <1>9 DEF Next, ViewNext

LEMMA ViewInvariant == Spec => []ViewInv
  BY ViewInvInit, ViewInvStep, PTL DEF Spec

(* The open conversation is never counted as unread.                       *)
THEOREM OpenIsRead == Spec => []ActiveIsRead
<1>1. ViewInv => ActiveIsRead
      BY DEF ViewInv
<1>2. QED BY <1>1, ViewInvariant, PTL

(* Skipping a reload while another is under way costs no badge.            *)
THEOREM ListSettles == Spec => []BadgesSettle
<1>1. ViewInv => BadgesSettle
      BY DEF ViewInv
<1>2. QED BY <1>1, ViewInvariant, PTL

(* After the last reply, if it was the open conversation's, the pane is    *)
(* that conversation's.                                                    *)
THEOREM PaneSettles == Spec => []PaneMatchesOpen
<1>1. ViewInv => PaneMatchesOpen
      BY DEF ViewInv
<1>2. QED BY <1>1, ViewInvariant, PTL

(* On the whole page, too, there is one connection at most.                *)
THEOREM PageHasOneConnection == Spec => []OneLiveSocket
  BY PageRefinesSocket, SingleConnection, PTL

-----------------------------------------------------------------------------
(* The types of what is shown.  A count never exceeds the frames received, *)
(* a badge is a count of some earlier moment, and only opening a           *)
(* conversation asks for a history.                                        *)

ViewTyped ==
    /\ active \in Peers \cup {Nobody} /\ lastReply \in Peers \cup {Nobody}
    /\ unread \in [Peers -> 0..frames] /\ badges \in [Peers -> 0..frames]
    /\ pane \subseteq Peers /\ wrote \subseteq Peers /\ listed \subseteq Peers
    /\ asked \in Seq(Peers) /\ Len(asked) <= opens
    /\ loading \in BOOLEAN /\ listOk \in BOOLEAN
    /\ retries \in 0..MaxRetries /\ opens \in 0..MaxOpens /\ frames \in 0..MaxFrames

(* A settled request leaves the queue. *)
LEMMA OneRequestLess ==
    ASSUME NEW s \in Seq(Peers), NEW i \in DOMAIN s
    PROVE  RemoveAt(s, i) \in Seq(Peers) /\ Len(RemoveAt(s, i)) = Len(s) - 1
<1>1. i \in 1..Len(s) /\ Len(s) \in Nat
      OBVIOUS
<1>2. /\ SubSeq(s, 1, i - 1) \in Seq(Peers) /\ Len(SubSeq(s, 1, i - 1)) = i - 1
      /\ SubSeq(s, i + 1, Len(s)) \in Seq(Peers) /\ Len(SubSeq(s, i + 1, Len(s))) = Len(s) - i
      BY <1>1
<1> DEFINE a == SubSeq(s, 1, i - 1)  b == SubSeq(s, i + 1, Len(s))
<1>3. a \o b \in Seq(Peers) /\ Len(a \o b) = Len(a) + Len(b)
      BY <1>2, ConcatProperties
<1>4. RemoveAt(s, i) = a \o b
      BY DEF RemoveAt
<1> HIDE DEF a, b
<1>5. Len(a) = i - 1 /\ Len(b) = Len(s) - i
      BY <1>2 DEF a, b
<1>6. QED BY <1>1, <1>3, <1>4, <1>5

LEMMA ViewTypedInit == Init => ViewTyped
<1> SUFFICES ASSUME ViewInit PROVE ViewTyped
    BY DEF Init
<1>1. asked \in Seq(Peers) /\ Len(asked) = 0 /\ opens = 0 /\ frames = 0
      BY DEF ViewInit
<1>2. unread \in [Peers -> 0..frames] /\ badges \in [Peers -> 0..frames]
      BY <1>1 DEF ViewInit
<1>3. opens \in 0..MaxOpens /\ frames \in 0..MaxFrames /\ retries \in 0..MaxRetries
      BY <1>1, ChatAssumption DEF ViewInit
<1>4. /\ active \in Peers \cup {Nobody} /\ lastReply \in Peers \cup {Nobody}
      /\ pane \subseteq Peers /\ wrote \subseteq Peers /\ listed \subseteq Peers
      /\ loading \in BOOLEAN /\ listOk \in BOOLEAN
      BY DEF ViewInit
<1>5. Len(asked) <= opens
      BY <1>1
<1>6. QED BY <1>1, <1>2, <1>3, <1>4, <1>5 DEF ViewTyped

LEMMA ViewTypedStep == SocketTypeOK /\ ViewTyped /\ [Next]_vars => ViewTyped'
<1> SUFFICES ASSUME SocketTypeOK, ViewTyped, [Next]_vars PROVE ViewTyped'
    OBVIOUS
<1> USE ChatAssumption DEF ViewTyped
<1>0. session \in BOOLEAN
      BY DEF SocketTypeOK
<1>1. ASSUME LoadConversations PROVE loading' \in BOOLEAN /\ listOk' \in BOOLEAN
      BY <1>0, <1>1 DEF LoadConversations
<1>2. ASSUME Frame PROVE frames' \in 0..MaxFrames /\ frames' = frames + 1
      BY <1>2 DEF Frame
<1>3. ASSUME NEW u \in Peers, OpenChat(u) PROVE ViewTyped'
  <2>1. /\ asked' = asked \/ asked' = Append(asked, u)
        /\ opens' = opens + 1 /\ opens' \in 0..MaxOpens
        BY <1>3 DEF OpenChat, LoadChatHistory
  <2>2. asked' \in Seq(Peers) /\ Len(asked') <= opens'
    <3>1. asked \in Seq(Peers) /\ Len(asked) <= opens /\ Len(asked) \in Nat /\ opens \in Nat
          OBVIOUS
    <3>2. Append(asked, u) \in Seq(Peers) /\ Len(Append(asked, u)) = Len(asked) + 1
          BY <3>1
    <3> HIDE DEF ViewTyped
    <3>3. CASE asked' = asked
          BY <2>1, <3>1, <3>3
    <3>4. CASE asked' = Append(asked, u)
          BY <2>1, <3>1, <3>2, <3>4
    <3>5. QED BY <2>1, <3>3, <3>4
  <2>3. /\ loading' \in BOOLEAN /\ listOk' \in BOOLEAN
        /\ lastReply' \in Peers \cup {Nobody}
        BY <1>1, <1>3 DEF OpenChat, LoadChatHistory
  <2>4. QED BY <1>3, <2>1, <2>2, <2>3 DEF OpenChat
<1>4. ASSUME NEW u \in Peers, FromPeer(u) \/ Echo(u) PROVE ViewTyped'
  <2>1. loading' \in BOOLEAN /\ listOk' \in BOOLEAN /\ frames' \in 0..MaxFrames /\ frames' = frames + 1
        BY <1>1, <1>2, <1>4 DEF FromPeer, Echo
  <2>2. unread' \in [Peers -> 0..frames'] /\ badges \in [Peers -> 0..frames']
    <3>1. \A n \in 0..frames : n \in 0..frames' /\ n + 1 \in 0..frames'
          BY <2>1
    <3>2. badges \in [Peers -> 0..frames'] /\ unread \in [Peers -> 0..frames']
          BY <3>1
    <3>3. unread' = unread \/ unread' = [unread EXCEPT ![u] = @ + 1]
          BY <1>4 DEF FromPeer, Echo
    <3>4. unread[u] + 1 \in 0..frames'
          BY <1>4, <3>1
    <3>5. QED BY <3>2, <3>3, <3>4
  <2>3. QED BY <1>4, <2>1, <2>2 DEF FromPeer, Echo
<1>5. ASSUME NEW i \in DOMAIN asked, HistoryArrives(i) \/ NoHistory(i) PROVE ViewTyped'
  <2>1. asked' \in Seq(Peers) /\ Len(asked') <= opens
    <3>1. asked' = RemoveAt(asked, i)
          BY <1>5 DEF HistoryArrives, NoHistory
    <3>2. QED BY <3>1, OneRequestLess
  <2>2. asked[i] \in Peers
        OBVIOUS
  <2>3. QED BY <1>5, <2>1, <2>2 DEF HistoryArrives, NoHistory, listVars
<1>6. CASE SendMessage
      BY <1>6 DEF SendMessage, listVars
<1>7. CASE ListArrives \/ ListLimited \/ ListFails
  <2>1. /\ UNCHANGED <<viewVars, opens, frames>> /\ loading' \in BOOLEAN /\ listOk' \in BOOLEAN
        /\ listed' \subseteq Peers /\ badges' \in {badges, unread}
        BY <1>7 DEF ListArrives, ListLimited, ListFails
  <2>2. retries' \in 0..MaxRetries
        BY <1>7 DEF ListArrives, ListLimited, ListFails
  <2>3. QED BY <2>1, <2>2 DEF viewVars
<1>8. CASE ListRetry
  <2>1. loading' \in BOOLEAN /\ listOk' \in BOOLEAN
        BY <1>1, <1>8 DEF ListRetry
  <2>2. QED BY <1>8, <2>1 DEF ListRetry, viewVars
<1>9. CASE UNCHANGED chatVars
      BY <1>9 DEF chatVars, viewVars, listVars
<1>10. QED BY <1>3, <1>4, <1>5, <1>6, <1>7, <1>8, <1>9 DEF Next, ViewNext, vars

(* Every variable of the page keeps its type: counts and requests under    *)
(* way stay within the numbers of frames and of opened conversations.      *)
THEOREM PageTypeCorrect == Spec => []TypeOK
<1>1. SocketInv => SocketTypeOK
      BY DEF SocketInv
<1>2. SocketTypeOK /\ ViewTyped => TypeOK
  <2> SUFFICES ASSUME SocketTypeOK, ViewTyped PROVE TypeOK
      OBVIOUS
  <2>1. 0..frames \subseteq 0..MaxFrames
        BY ChatAssumption DEF ViewTyped
  <2>2. unread \in [Peers -> 0..MaxFrames] /\ badges \in [Peers -> 0..MaxFrames]
        BY <2>1 DEF ViewTyped
  <2>3. QED BY <2>2 DEF ViewTyped, TypeOK
<1>3. QED BY <1>1, <1>2, ViewTypedInit, ViewTypedStep, SocketInvariant, PageRefinesSocket, PTL
             DEF Spec
=============================================================================
