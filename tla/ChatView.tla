------------------------------- MODULE ChatView -------------------------------
(* What the web page shows (websocket.js, app.js, chat.js) on top of its   *)
(* connection: the open conversation and the message pane, the unread      *)
(* counts, and the conversation list with its badges.  The pane is filled  *)
(* by the socket and by history requests, the list by requests of its own; *)
(* replies may come in any order, late, or not at all.                     *)
EXTENDS WebSocketClient, Sequences, SequencesExt, FiniteSets

CONSTANTS
  Peers,        \* the users one can talk to
  Nobody,       \* activeConversation = null
  MaxOpens,     \* bound: how often a conversation is opened
  MaxFrames,    \* bound: how many frames with a chat message arrive
  MaxRetries    \* bound: pending retries of the conversation list

ASSUME ChatAssumption ==
    /\ Nobody \notin Peers
    /\ MaxOpens \in Nat /\ MaxFrames \in Nat /\ MaxRetries \in Nat

VARIABLES
  active,       \* activeConversation
  unread,       \* unreadMessages; 0 stands for a missing key
  pane,         \* whose conversations the messages in .chat-messages are of
  asked,        \* history requests under way, in the order they were made
  lastReply,    \* history: whose messages the request settled last displayed,
                \* Nobody if it displayed none or could not be made
  wrote,        \* the peers this page has sent a message to
  loading,      \* loadingConversations: a request for the list is under way
  listed,       \* the conversations the list shows
  badges,       \* the unread counts the list was rendered with
  retries,      \* pending 3 s timeouts that load the list again
  listOk,       \* history: since the list was rendered, no attempt to load it
                \* has failed or found no user
  opens, frames \* how many so far

viewVars == <<active, unread, pane, asked, lastReply, wrote>>
listVars == <<loading, listed, badges, retries, listOk>>
chatVars == <<viewVars, listVars, opens, frames>>
vars     == <<sockVars, chatVars>>

Here == page = "chat"

ViewInit ==
    /\ active = Nobody /\ unread = [u \in Peers |-> 0]
    /\ pane = {} /\ asked = <<>> /\ lastReply = Nobody /\ wrote = {}
    /\ loading = TRUE                \* initializeDemoData
    /\ listed = {} /\ badges = [u \in Peers |-> 0]
    /\ retries = 0 /\ listOk = FALSE
    /\ opens = 0 /\ frames = 0

Init == SocketInit /\ ViewInit

(* loadConversationsFromAPI up to its await: nothing without a user, and   *)
(* nothing while another request is under way.                             *)
LoadConversations ==
    /\ loading' = (loading \/ session)
    /\ listOk' = (listOk /\ session)

(* loadChatHistory up to its await: nothing without a user.                *)
LoadChatHistory(u) ==
    /\ asked' = IF session THEN Append(asked, u) ELSE asked
    /\ lastReply' = IF session THEN lastReply ELSE Nobody

-----------------------------------------------------------------------------
(* The message pane.                                                       *)

(* Mutant: a handler of chat.js and one of app.js both run for one click. *)
OpenChatTwice(u) ==
    /\ Here /\ opens < MaxOpens
    /\ active' = u /\ opens' = opens + 1
    /\ pane' = {}
    /\ unread' = [unread EXCEPT ![u] = 0]
    /\ IF unread[u] > 0 THEN LoadConversations ELSE UNCHANGED <<loading, listOk>>
    /\ asked' = IF session THEN asked \o <<u, u>> ELSE asked
    /\ UNCHANGED <<sockVars, lastReply, wrote, listed, badges, retries, frames>>

(* Mutant: opening a conversation does not touch the unread count. *)
OpenChatUnread(u) ==
    /\ Here /\ opens < MaxOpens
    /\ active' = u /\ opens' = opens + 1
    /\ pane' \in {pane, {}}
    /\ LoadChatHistory(u)
    /\ UNCHANGED <<sockVars, unread, wrote, listVars, frames>>

(* Mutant: the count is cleared, but the badges are not updated. *)
OpenChatQuietly(u) ==
    /\ Here /\ opens < MaxOpens
    /\ active' = u /\ opens' = opens + 1
    /\ pane' \in {pane, {}}
    /\ unread' = [unread EXCEPT ![u] = 0]
    /\ LoadChatHistory(u)
    /\ UNCHANGED <<sockVars, wrote, listVars, frames>>

(* openChat and setActiveConversation: the one of chat.js empties the pane *)
(* first, the one of app.js does not.                                      *)
OpenChat(u) ==
    /\ Here /\ opens < MaxOpens
    /\ active' = u /\ opens' = opens + 1
    /\ pane' \in {pane, {}}
    /\ unread' = [unread EXCEPT ![u] = 0]
    /\ IF unread[u] > 0 THEN LoadConversations ELSE UNCHANGED <<loading, listOk>>
    /\ LoadChatHistory(u)
    /\ UNCHANGED <<sockVars, wrote, listed, badges, retries, frames>>

(* displayChatHistory: the reply replaces the pane's content, whichever    *)
(* conversation is open by now.                                            *)
HistoryArrives(i) ==
    /\ Here
    /\ pane' = {asked[i]} /\ lastReply' = asked[i]
    /\ asked' = RemoveAt(asked, i)
    /\ UNCHANGED <<sockVars, active, unread, wrote, listVars, opens, frames>>

(* Nothing is displayed if the request fails, and neither if there are no  *)
(* messages yet: the server then answers null (db.go:308, a nil slice),    *)
(* and the pane keeps what it shows.                                       *)
NoHistory(i) ==
    /\ Here
    /\ lastReply' = Nobody
    /\ asked' = RemoveAt(asked, i)
    /\ UNCHANGED <<sockVars, active, unread, pane, wrote, listVars, opens, frames>>

(* The send button.  The server gets the message if ws is open; the input  *)
(* is cleared in any case.                                                 *)
SendMessage ==
    /\ Here /\ active # Nobody
    /\ socket[ws] = "open"
    /\ wrote' = wrote \cup {active}
    /\ UNCHANGED <<sockVars, active, unread, pane, asked, lastReply, listVars, opens, frames>>

-----------------------------------------------------------------------------
(* handleIncomingMessage for a message of type "message".                  *)

(* A frame with one message arrives on a socket that is open.  A frame in  *)
(* which the server's writer put several, one per line, fails to parse and *)
(* changes nothing here: it is lost.                                       *)
Frame == /\ Here /\ frames < MaxFrames
         /\ \E i \in Sockets : socket[i] = "open"
         /\ frames' = frames + 1

(* A message for me: shown in the open conversation, else counted, and the *)
(* badges are updated; the list is reloaded either way.                    *)
FromPeer(u) ==
    /\ Frame
    /\ IF u = active
       THEN pane' = pane \cup {u} /\ UNCHANGED unread
       ELSE unread' = [unread EXCEPT ![u] = @ + 1] /\ UNCHANGED pane
    /\ LoadConversations
    /\ UNCHANGED <<sockVars, active, asked, lastReply, wrote, listed, badges, retries, opens>>

(* Mutant: an echo is shown whatever conversation is open. *)
EchoShown(u) ==
    /\ Frame /\ u \in wrote
    /\ pane' = pane \cup {u}
    /\ LoadConversations
    /\ UNCHANGED <<sockVars, active, unread, asked, lastReply, wrote, listed, badges, retries, opens>>

(* My own message to u comes back from the server. *)
Echo(u) ==
    /\ Frame /\ u \in wrote
    /\ pane' = IF u = active THEN pane \cup {u} ELSE pane
    /\ LoadConversations
    /\ UNCHANGED <<sockVars, active, unread, asked, lastReply, wrote, listed, badges, retries, opens>>

-----------------------------------------------------------------------------
(* The conversation list, after the await.                                 *)

(* The reply is rendered with the unread counts of this moment; which      *)
(* conversations it lists is the server's affair.                          *)
ListArrives ==
    /\ Here /\ loading
    /\ loading' = FALSE /\ listOk' = TRUE
    /\ listed' \in SUBSET Peers
    /\ badges' = unread
    /\ UNCHANGED <<sockVars, viewVars, retries, opens, frames>>

(* 429: another try in 3 s *)
ListLimited ==
    /\ Here /\ loading /\ retries < MaxRetries
    /\ loading' = FALSE /\ listOk' = FALSE
    /\ retries' = retries + 1
    /\ UNCHANGED <<sockVars, viewVars, listed, badges, opens, frames>>

ListFails ==
    /\ Here /\ loading
    /\ loading' = FALSE /\ listOk' = FALSE
    /\ UNCHANGED <<sockVars, viewVars, listed, badges, retries, opens, frames>>

ListRetry ==
    /\ Here /\ retries > 0
    /\ retries' = retries - 1
    /\ LoadConversations
    /\ UNCHANGED <<sockVars, viewVars, listed, badges, opens, frames>>

-----------------------------------------------------------------------------
ViewNext ==
    \/ \E u \in Peers : OpenChat(u) \/ FromPeer(u) \/ Echo(u)
    \/ \E i \in DOMAIN asked : HistoryArrives(i) \/ NoHistory(i)
    \/ SendMessage
    \/ ListArrives \/ ListLimited \/ ListFails \/ ListRetry

Next == (SocketNext /\ UNCHANGED chatVars) \/ ViewNext

Spec == Init /\ [][Next]_vars

-----------------------------------------------------------------------------
(* Invariants.                                                             *)

TypeOK ==
    /\ SocketTypeOK
    /\ active \in Peers \cup {Nobody} /\ lastReply \in Peers \cup {Nobody}
    /\ unread \in [Peers -> 0..MaxFrames] /\ badges \in [Peers -> 0..MaxFrames]
    /\ pane \subseteq Peers /\ wrote \subseteq Peers /\ listed \subseteq Peers
    /\ asked \in Seq(Peers) /\ Len(asked) <= opens
    /\ loading \in BOOLEAN /\ listOk \in BOOLEAN
    /\ retries \in 0..MaxRetries /\ opens \in 0..MaxOpens /\ frames \in 0..MaxFrames

(* The conversation one is looking at never counts as unread, whatever     *)
(* arrives in which order.                                                 *)
ActiveIsRead == active # Nobody => unread[active] = 0

(* Although a reload is skipped while another is under way, the list does  *)
(* not end up with stale badges: when nothing is pending, and no attempt   *)
(* to load it has failed or found no user since it was rendered, every     *)
(* listed conversation shows its unread count.  Tabs that log out and in   *)
(* again meanwhile make no difference.                                     *)
BadgesSettle ==
    ~loading /\ retries = 0 /\ listOk => \A u \in listed : badges[u] = unread[u]

(* Once no history request is under way, and the last one settled          *)
(* displayed the open conversation, the pane holds messages of that        *)
(* conversation only, whatever was opened, sent or received in between,    *)
(* and whoever logged out or in again in another tab.  (After a history    *)
(* that failed, was empty or could not be asked for without a user, the    *)
(* pane may still hold those of the conversation that was open before.)    *)
PaneMatchesOpen ==
    asked = <<>> /\ active # Nobody /\ lastReply = active => pane \subseteq {active}
=============================================================================
