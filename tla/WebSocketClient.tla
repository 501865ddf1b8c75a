--------------------------- MODULE WebSocketClient ---------------------------
(* The connection of the web page to the chat server (websocket.js): the   *)
(* WebSocket objects the page creates one after the other, the one that    *)
(* the global variable ws refers to, the reconnection timer, the heartbeat *)
(* interval and logging out.  JavaScript runs one task at a time, so an    *)
(* action is one event handler from beginning to end.                      *)
EXTENDS Naturals

CONSTANT MaxSockets     \* bound: how many WebSocket objects a page creates

ASSUME MaxSocketsAssumption == MaxSockets \in Nat \ {0}

VARIABLES
  session,    \* the browser's storage holds a user with a token
  page,       \* "chat", or "gone": the browser shows another page
  socket,     \* readyState of each WebSocket object
  ws,         \* the object ws refers to
  opened,     \* history: the objects whose onopen has run
  timer,      \* reconnectInterval: null, the handle of a pending timeout,
              \* or the handle of one that has fired
  heartbeat,  \* heartbeatInterval # null
  logout      \* "no", "calling" the server, "done": waiting for the redirect

sockVars == <<session, page, socket, ws, opened, timer, heartbeat, logout>>

Sockets == 1..MaxSockets

SocketInit ==
    /\ session = TRUE /\ page = "chat"
    /\ socket = [i \in Sockets |-> IF i = 1 THEN "connecting" ELSE "unused"]
    /\ ws = 1 /\ opened = {}
    /\ timer = "null" /\ heartbeat = FALSE
    /\ logout = "no"

(* Leaving the page closes its sockets and clears its timers; no handler   *)
(* runs any more.                                                          *)
Leave ==
    /\ page' = "gone"
    /\ socket' = [i \in Sockets |-> IF socket[i] = "unused" THEN "unused" ELSE "closed"]

(* Without a user in the storage the page goes to the login page.  A new   *)
(* object replaces ws whatever the state of the old one.                   *)
InitWebSocket ==
    \/ ~session /\ Leave /\ UNCHANGED ws
    \/ /\ session /\ ws < MaxSockets
       /\ ws' = ws + 1
       /\ socket' = [socket EXCEPT ![ws + 1] = "connecting"]
       /\ UNCHANGED page

(* ws.close(): a connecting or open socket starts to close *)
CloseSocket(i) ==
    socket' = [socket EXCEPT ![i] = IF @ \in {"connecting", "open"} THEN "closing" ELSE @]

(* Mutant: the timer of the attempt is not cleared on success. *)
OnOpenKeepingTimer(i) ==
    /\ page = "chat" /\ socket[i] = "connecting"
    /\ socket' = [socket EXCEPT ![i] = "open"]
    /\ opened' = opened \cup {i}
    /\ heartbeat' = TRUE
    /\ UNCHANGED <<session, page, ws, timer, logout>>

(* onopen: clearInterval also cancels a pending timeout.  startHeartbeat   *)
(* replaces the interval there may be.                                     *)
OnOpen(i) ==
    /\ page = "chat" /\ socket[i] = "connecting"
    /\ socket' = [socket EXCEPT ![i] = "open"]
    /\ opened' = opened \cup {i}
    /\ timer' = "null"
    /\ heartbeat' = TRUE
    /\ UNCHANGED <<session, page, ws, logout>>

(* The server or the network starts to close; onclose is yet to come. *)
PeerCloses(i) ==
    /\ page = "chat" /\ socket[i] = "open"
    /\ socket' = [socket EXCEPT ![i] = "closing"]
    /\ UNCHANGED <<session, page, ws, opened, timer, heartbeat, logout>>

(* Mutant: the interval goes on after its socket. *)
OnCloseBeating(i) ==
    /\ page = "chat" /\ socket[i] \in {"connecting", "open", "closing"}
    /\ socket' = [socket EXCEPT ![i] = "closed"]
    /\ timer' = IF timer = "null" THEN "pending" ELSE timer
    /\ UNCHANGED <<session, page, ws, opened, heartbeat, logout>>

(* onclose: the end of an open connection, a refused upgrade (401, the     *)
(* server's answer to a revoked token) or no answer.  The branch for code  *)
(* 1008 or the reason "Unauthorized" is left out: no part of the system    *)
(* ends a WebSocket with either, a refusal reads 1006 with no reason.      *)
OnClose(i) ==
    /\ page = "chat" /\ socket[i] \in {"connecting", "open", "closing"}
    /\ socket' = [socket EXCEPT ![i] = "closed"]
    /\ heartbeat' = FALSE
    /\ timer' = IF timer = "null" THEN "pending" ELSE timer
    /\ UNCHANGED <<session, page, ws, opened, logout>>

(* Mutant: a repeating timer, as its name and clearInterval suggest. *)
ReconnectRepeating ==
    /\ page = "chat" /\ timer = "pending"
    /\ InitWebSocket
    /\ UNCHANGED <<session, opened, timer, heartbeat, logout>>

(* The 5 s timeout.  Its handle stays in reconnectInterval. *)
Reconnect ==
    /\ page = "chat" /\ timer = "pending"
    /\ timer' = "fired"
    /\ InitWebSocket
    /\ UNCHANGED <<session, opened, heartbeat, logout>>

(* logout(), confirmed once: the button is disabled then.  Without a user  *)
(* in the storage nothing happens.                                         *)
Logout ==
    /\ page = "chat" /\ logout = "no" /\ session
    /\ logout' = "calling"
    /\ UNCHANGED <<session, page, socket, ws, opened, timer, heartbeat>>

(* Its finally: the server has answered, or will not. *)
LogoutSettled ==
    /\ page = "chat" /\ logout = "calling"
    /\ heartbeat' = FALSE
    /\ CloseSocket(ws)
    /\ session' = FALSE
    /\ logout' = "done"
    /\ UNCHANGED <<page, ws, opened, timer>>

(* 300 ms after that, or the user leaves the page (beforeunload) *)
LeavePage ==
    /\ page = "chat"
    /\ Leave
    /\ UNCHANGED <<session, ws, opened, timer, heartbeat, logout>>

(* Another tab of the same browser logs out; the storage is shared. *)
OtherTabLogout ==
    /\ page = "chat" /\ session
    /\ session' = FALSE
    /\ UNCHANGED <<page, socket, ws, opened, timer, heartbeat, logout>>

(* Another tab logs in again and stays logged in ("remember", login.js:70), *)
(* which the storage gives to this page too.  The same user: a page whose  *)
(* storage changes to another one is left out.                             *)
OtherTabLogin ==
    /\ page = "chat" /\ ~session
    /\ session' = TRUE
    /\ UNCHANGED <<page, socket, ws, opened, timer, heartbeat, logout>>

SocketNext ==
    \/ \E i \in Sockets : OnOpen(i) \/ PeerCloses(i) \/ OnClose(i)
    \/ Reconnect
    \/ Logout \/ LogoutSettled \/ LeavePage
    \/ OtherTabLogout \/ OtherTabLogin

SocketSpec == SocketInit /\ [][SocketNext]_sockVars

-----------------------------------------------------------------------------
(* Invariants.                                                             *)

SocketTypeOK ==
    /\ session \in BOOLEAN /\ page \in {"chat", "gone"}
    /\ socket \in [Sockets -> {"unused", "connecting", "open", "closing", "closed"}]
    /\ ws \in Sockets /\ opened \subseteq Sockets
    /\ timer \in {"null", "pending", "fired"}
    /\ heartbeat \in BOOLEAN
    /\ logout \in {"no", "calling", "done"}

Live == {i \in Sockets : socket[i] \in {"connecting", "open", "closing"}}

(* The page never has two connections at once, and the one it has is the   *)
(* one it sends on: reconnecting does not leave an older socket behind     *)
(* that would receive every message a second time.                         *)
OneLiveSocket == Live \subseteq {ws}

(* As long as the page has an open connection and is not logging out its   *)
(* heartbeat runs (the server's presence key lives on it), and it never    *)
(* runs for a socket that has not been opened or has been closed.          *)
BeatsWhileOpen ==
    page = "chat" =>
      /\ socket[ws] = "open" => heartbeat
      /\ heartbeat => socket[ws] \in {"open", "closing"}

(* A connection that was established and then lost is always being         *)
(* re-established: a timeout is pending that will call initWebSocket.      *)
LossIsRetried ==
    page = "chat" /\ ws \in opened /\ socket[ws] = "closed" => timer = "pending"

(* websocket.js:110, "Tự động reconnect sau 5 giây": a page whose          *)
(* connection is closed reconnects after 5 seconds.  A first attempt that  *)
(* fails leaves the handle of its timeout behind, and onclose then sets    *)
(* no other: the page stays disconnected for good.                         *)
ClosedIsRetried ==
    page = "chat" /\ socket[ws] = "closed" => timer = "pending"
=============================================================================
