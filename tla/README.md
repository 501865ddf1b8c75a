# E5 Realtime Chat in TLA+

TLA+ specifications of the server of E5 Realtime Chat (Go, `src/server`, with a
JavaScript client in `src/client`), the TLC configurations that check them on
small instances, and theorems about them that TLAPS proves for every value of
the constants. Paths in this document are relative to the repository; line
numbers refer to the files as they stand in `src/`.

`PROJECT.json` is the index: it names for every definition the lines it
translates, for every property the bug (a "Mutant" definition) that breaks it,
and for every hazard the properties that would notice it going wrong.

## 1. The system

A server process accepts WebSocket connections behind nginx; several processes
may share one PostgreSQL, one Redis and one RabbitMQ.

| Component | State | Operations | Talks to |
|---|---|---|---|
| Hub (`internal/websocket/hub.go`) | map of registered clients; four unbuffered channels | register, unregister, broadcast, direct message; publish to Redis; subscriber | readers and writers by channels, presence, Redis pub/sub |
| Connection (`client.go`, `serveWs` in `main.go`) | `Client.send` (buffered, 256), the transport | `readPump`, `writePump`, ping/pong | hub, rate limiter, presence, messages table |
| Presence (`cache/service.go`, `auth/service.go`) | Redis set `online_users`, keys `user:online:<id>` (30 s), column `is_online` | set online/offline, refresh, is-online, login, logout | every hub, HTTP handlers |
| Friends (`handlers/friends.go`, `migrations/001_init.sql`) | table `friendships` | request, accept, reject, list | hub (notice), messages trigger |
| Messages (`database/db.go`, `handlers/messages.go`) | table `messages`, trigger | save, history, conversations | readers, HTTP |
| Token revocation (`auth/blacklist.go`, `middleware.go`, `handlers.go`) | Redis keys or a map per process | logout, check, sweep | Redis, every request and upgrade |
| Rate limiter (`middleware/ratelimit.go`) | a Redis counter per window and identifier | check, reset | HTTP middleware, reader |
| Work queues (`queue/*.go`) | RabbitMQ queues | publish, consume, ack, nack | RabbitMQ |
| Accounts (`auth/service.go`) | table `users` | register, login | PostgreSQL, presence |
| Web client connection (`client/assets/js/websocket.js`) | the global `ws`, reconnect timer, heartbeat interval | connect, reconnect, beat, log out | the server |
| Web client view (`websocket.js`, `app.js`, `chat.js`) | open conversation, message pane, unread counts, conversation list | open, send, receive, load history and list | the connection, HTTP |

### Where it is hard, and what correct means

* **Hub and connections.** A reader and a writer per connection, the hub, HTTP
  handlers and, with Redis, a subscriber run concurrently. The hub owns the map
  of clients and closes their channels; readers send on their own channel
  without asking, the subscriber iterates over the map without a lock. Eviction
  (a full channel) and unregister both close. Correct means: map and channels
  agree, nothing sends on or closes a closed channel, the hub never waits for
  anybody, nothing is lost, doubled or reordered on a healthy connection, and
  what was closed is torn down.
* **Presence.** Two Redis commands for each change, issued by the hubs of
  several processes and by HTTP handlers, any of which may fail; processes
  crash. Correct means: a user with no connection is not left online, and what
  clients were told agrees with the store.
* **Friends and messages.** Check-then-insert without a transaction, requests
  that cross or are repeated, a handler that dies before it notifies; a trigger
  that looks at friendship at one moment. Correct means: one notice for one
  request, friendships do not get lost, messages are stored among friends only.
* **Revocation.** An entry with a time to live has to hand over to the token's
  own expiry without a gap, while lookups, delayed deletions, sweeps and Redis
  outages interleave.
* **Web client.** JavaScript runs one handler at a time, but timers, socket
  events, clicks and HTTP answers come in any order. Correct means: one live
  connection, which is retried when lost and kept alive while open; and a pane,
  unread counts and badges that agree once nothing is under way.
* **Rate limiter.** Instances share a counter per identifier and window of the
  clock; a request computes the window, and Redis evaluates it later, perhaps
  twice. Correct means: no more than the limit in a window, nobody refused while
  there is a token left.
* **A conversation from end to end.** A message reaches a page twice, by the
  socket and in a history, through stores and goroutines that run at their own
  pace; the hub that forwards it knows its own connections only, of which some
  have ended. Correct means: what the pane shows twice, out of order or not at
  all has one of the few known reasons, and the next history puts it right.
* **Work queues.** A consumer, its connection or the broker's view of it may end
  between a handler and its ack; a message that does not decode comes back for
  ever. Correct means: nothing is lost or acked unhandled, repetitions come from
  losses only, and what decodes gets handled.

`PROJECT.json` lists the hazards one by one, each at its line.

## 2. The modules

| Module | What it is |
|---|---|
| `Hub` | hub, readers, writers and Redis subscriber of one process |
| `Outbox` | abstract specification: what a connection's outgoing stream promises |
| `HubProofs` | proofs: safety of the hub; every stream implements `Outbox`; order and number of the copies of a message |
| `Presence`, `PresenceProofs` | online status across instances, with proofs |
| `Friends`, `FriendsProofs` | friend requests and direct-message permission, with proofs |
| `TokenBlacklist`, `TokenBlacklistProofs` | revocation of tokens, with proofs |
| `WebSocketClient` | the connection of the web page |
| `ChatView` | what the page shows; extends `WebSocketClient` |
| `WebClientProofs` | proofs about both |
| `RateLimiter`, `RateLimiterProofs` | the request limits, with proofs |
| `DirectChat`, `DirectChatProofs` | one conversation from the sender's page to the reader's pane, over several instances, with proofs |
| `WorkQueue`, `WorkQueueProofs` | a RabbitMQ queue and its consumers, with proofs |
| `MCHub`, `MCPresence`, `MCFriends`, `MCTokenBlacklist`, `MCChatView`, `MCRateLimiter`, `MCDirectChat`, `MCWorkQueue` | small instances for TLC |

The modules abstract each other: in `Hub` a call to a store succeeds or fails
either way; `Presence` sees of a hub only its register, unregister and eviction
events; `Friends` sees of a reader only that it saves a message;
`WebSocketClient` sees of the server that it accepts, refuses or closes, and
`ChatView` that messages and answers arrive or do not. `ChatView` extends
`WebSocketClient`: its steps are those of the connection with the view
unchanged, or steps of the view that leave the connection alone. `DirectChat`
composes what the others keep apart: pages, connections, readers, hubs, writers,
the table and the history, each reduced to what one conversation sees of it.

### Hub

Each goroutine has a program counter that stands at the operation it is about
to do. The hub's channels are unbuffered, so a blocking send is a rendezvous:
the sender waits at `"register"`, `"direct"` or `"unregister"` until the hub
takes it (`HubRegister`, `HubDirect`, `HubUnregister`, one action each for the
whole case of `Run`). A broadcast is offered with `select/default`: it reaches
the hub only when that is parked in its `select` (`HubPark`), else it is
dropped (`ReaderOffer`). The broadcast loop visits clients one per step, in any
order, because the map's order is random and the subscriber runs meanwhile.
`Offer` is the code's non-blocking send with its eviction branch. `ReaderSend`
is the reader's unguarded `c.send <- ...`: it waits while the buffer is full
and panics into the deferred unregister when the hub closed the channel (net/http
recovers it). The writer takes a message (`WriteTake`), drains the backlog
(`WriteDrain`), and writes one frame (`WriteFrame`); it ends when the channel is
closed and empty, or when the transport fails.

With Redis, `SubReceive`, `SubSend`, `SubSkip` are the iteration over the map
without a lock: it produces clients that may have been closed by the hub in
between (a send on a closed channel ends the process), and the runtime may
detect the concurrent map access (`SubFatal`). A panic outside a reader ends the
behaviour (`up = FALSE`): the restarted process is another behaviour.

Left out: rooms and typing indicators (the server relays them as any message),
the text of messages, the ping ticker (its failure is `PingFail`).

### Presence

Every store command is a step. A hub handles one event to its end, its commands
included (`todo[i]`), before the next; an HTTP handler likewise for one user.
`Fail` is a command that returns an error, whether or not it was carried out,
and ends the function, except that a login goes on after its failed UPDATE.
`Crash` takes an instance with its connections and its pending commands. The
history `spoiled` remembers whom a login, an eviction, a failure or a crash has
touched since the user's last new beginning, a connection made with no other
there and no command under way.
`RefreshUserOnline` only puts off `FlagExpires`, which may happen at any time,
so it needs no action.

### Friends

`SendFriendRequest` is three steps, `CheckRequest` (SELECT EXISTS),
`InsertRequest` (INSERT under UNIQUE(user_id, friend_id), one direction only)
and `NotifyRequest`, and may die between them (`AbortRequest`). Accepting and
rejecting are single statements conditioned on `pending`. `DirectMessage` is
the reader's save, with the trigger; the hand-over to the hub, which follows
whatever came of it, is `Forward` of `DirectChat`.

### TokenBlacklist

Time is a counter. Logout computes the ttl (`LogoutStart`) and stores it later
(`LogoutStore`), in Redis or, when Redis is absent or fails, in the process's
map. A request arrives, asks the blacklist (`AskRedis` or `AskMemory`) and then
verifies the token (`Verify`), each a step. An expired entry seen in the map is
deleted by a goroutine later (`Delete`). Whether Redis is used is decided when
the processes start (`useRedis`, either way in `Init`).

### WebSocketClient and ChatView

An action is one event handler from beginning to end, up to its `await` where it
has one. `socket[i]` is the `readyState` of the i-th WebSocket object the page
made and `ws` the one its global variable refers to. `timer` is
`reconnectInterval`, which after its timeout has fired holds a handle that means
nothing (`"fired"`): only `onopen` resets it. The branch of `onclose` for code
1008 is left out, as nothing in the system closes with that code: a refused
upgrade is seen by the page as 1006 without a reason. Other tabs share the
storage, so they may log out (`OtherTabLogout`) or, with "remember", in again
(`OtherTabLogin`, login.js:70) while this page stays open. That it is the same
user who logs in again is an assumption: a page whose storage changes to another
user keeps the old `currentUser`, which is left out.

The pane is abstracted to the set of peers whose conversations its messages
belong to, which is what shows that a wrong one was rendered. A history request
is a step that appends to `asked` and a later one that replaces the pane
(`HistoryArrives`) or does not (`NoHistory`: it fails, or there are no messages,
which the server sends as `null`), in any order. The list is loaded by one
request at a time (`loading`), with a 3 s retry after a 429, and rendered with
the unread counts of that moment. Without a user in the storage neither request
is made: `lastReply` and `listOk` remember that something was not displayed or
not rendered for that reason, as they do of a failure. Both variants of
`openChat` are covered: the one of `chat.js` empties the pane first, the one of
`app.js` does not.

### RateLimiter

Time is a window and an offset. `Stamp` computes the key from the caller's
clock; `Pass` and `Refuse` are the two outcomes of the script, which may come
any number of ticks later; `AnswerLost` is a script that ran and whose answer
did not come back; `FailOpen` a request served without one. A counter keeps the
time it was set at and expires one window later (`Expired`). The limit of a
request's preset matters only when it finds no counter (`TokenTaken`). The
instances and Redis share one clock: skew between them is not modelled.

### DirectChat

The page of `Me` and its conversation with `Peer`. `pc[m]` follows a message:
on its way to the server (`Send`), then the reader's two steps, `Save` (with or
without success, which the code treats alike) and `Forward`, or `Throttle`.
`Forward` merges `SendDirectMessage` with the hub's delivery, as the channel
between them is unbuffered: it picks some connection of `Me` in the hub of the
sender's instance (the first in map order), or none; the sender's own copy goes
to the connection the message came on. `Write` empties the channel into a frame,
which the page can only parse if it holds one text; what else the frame may hold
(statuses, acknowledgements) makes the loss possible at any time. A connection
is made by the page (`Connect`), registered at any instance (`Register`), lost
(`Drop`), and stays registered until its reader notices (`Unregister`).
A history is asked for (`Open`), read (`ReadHistory`, the newest `Limit` rows)
and shown (`Show`, instead of what the pane held; an empty one is `null` and
changes nothing) in steps of their own, and two may overlap.

`created_at` is taken as the order in which the inserts are committed. A
reconnection does not ask for the history again, as in the code. A connection
closed by the server is seen as one that drops: what the page sends meanwhile is
lost in both. A second tab, and the crash of an instance, are left out here.
`late`, `gone`, `raced` and `base` are histories for the properties.

### WorkQueue

The broker is external: messages are numbered as it received them, `ready` is
its queue, and `Unacked(i)` what it has delivered to process `i` without an
answer, which is exactly what the goroutine has not taken (`buf`), has in its
hand, or has answered with the answer under way. `Deliver` respects the prefetch
and the queue's order, in which a requeued message takes its former place.
`Take`, `Handle` and `Reject` are the loop of `Consume`'s goroutine; none of the
four handlers can fail, so a nack means that the message does not decode
(`bad`). `ConnectionLost` closes the deliveries: the handler goes on and its
answer fails, an error nobody looks at, and nothing connects again until the
process restarts (`Crash`, `Start`, which may also end without the queue). The
broker itself does not restart; its queues are durable and the messages
persistent (rabbitmq.go:95, 128), so it would come back with what it had ready.
`Publish` stands for publishers to come, since the server calls none of the four
publish methods; it asks for no confirmation, so a message lost before the
broker has it is outside what `Accounted` can promise.

## 3. What the runs show

Every run ends within about three and a half minutes on two cores. `CHECK_DEADLOCK FALSE` is
said where the modelled system may stop: connections end, calls are used up, a
process dies. `friends` checks for deadlock.

| Run | Instance | Properties |
|---|---|---|
| `hub_local` | 2 connections of 2 users, capacity 1, one sends twice, no Redis | `TypeOK`, `MapMatchesChannels`, `OnlyRedisPanics`, `BroadcastAtMostOnce`, `SenderOrder`, `StreamsAreOutboxes`, `NoSilentLoss` |
| `hub_redis` | 1 connection, with Redis and its subscriber, fair | `MapMatchesChannels`, `StreamsAreOutboxes`, `SenderServed` |
| `hub_live` | a user with 2 tabs, one of which sends, an HTTP notice, fair | `DirectDelivery`, `ClosedIsTornDown`, `SenderServed` |
| `presence` | 4 connections, 2 users, 2 instances; a login or logout, a failure, an eviction, a crash | `TypeOK`, `NobodyLeftBehind`, `StatusFollowsStore` |
| `friends` | 3 users, 2 of them friends, 3 concurrent requests in any direction | `TypeOK`, `RepeatsNotifyOnce`, `StoredAmongFriends`, `FriendsForLife` |
| `blacklist` | 2 processes, 2 requests, 2 logouts, an outage, with and without Redis | `TypeOK`, `RevokedIsRefused` |
| `web_client` | a page with 3 sockets, 2 peers, 2 conversations opened, 2 messages, 1 retry of the list, another tab logging out and in | `TypeOK`, `OneLiveSocket`, `BeatsWhileOpen`, `LossIsRetried`, `ActiveIsRead`, `BadgesSettle`, `PaneMatchesOpen` |
| `rate_limit` | 3 requests of one address, limits 1 and 2, three windows of 2 ticks | `TypeOK`, `QuotaPerWindow`, `RefusedOnlyWhenSpent` |
| `direct_chat` | 2 users, 2 instances, 3 messages of either, histories of 2 rows, 2 of openings and lost connections (at most 1, of `Me`) | `TypeOK`, `ShownTwiceOnlyIfLate`, `SenderOrderKept`, `MissingOnlyIfLost` |
| `work_queue` | 2 processes, prefetch 2, 3 messages, 2 starts, fair | `TypeOK`, `Accounted`, `HandledAgainOnlyIfLost`, `EventuallyHandled` |

**Bounds.** Capacity 1 stands for 256: what matters is a full channel in the
middle of the loop, and one slot fills soonest; the theorems hold for every
capacity. Two messages of one sender are the fewest that can be reordered or
doubled, and two connections the fewest that can disturb each other; in
`hub_live` they are two tabs of one user, who writes to himself or to somebody
absent: the recipient of a direct message then has a tab to be left out. One
published message in flight (`MaxRedis`) suffices, as the subscriber takes them
one by one. In `presence` one user's tabs are on different instances and the
other's on the same one, so that both kinds of interleaving occur in one run,
and one disturbance of each kind can combine with the others. Three calls in
`friends` cover a crossed pair with a repetition, also after a rejection, beside
a friendship that is there already. In
`blacklist` the token expires at 2 and the clock runs to 4, past the end of
every entry that can be made. In `web_client` three sockets give a loss, a
retry and a retry after a retry; two conversations are the fewest of which one
can be the wrong one, and their replies can cross; a third opening, which lets a
conversation be left and opened again, is covered by the theorems. In `rate_limit` three
requests exceed either limit within a window, and with three windows a counter
set late overlaps the next two. In `direct_chat` two rows are the fewest in
which an order can be wrong and three messages exceed them; a lost connection
gives a second one beside the stale one, two openings give replies that overlap,
and a loss with one opening the missing and the repeated messages; both twice,
or a loss of the other user's connection as well, is beyond TLC and left to the
theorems. In `work_queue` a prefetch of two lets
one undecodable message stand before another one, and a third message decide;
two starts are two processes or one that is restarted.

**Conditions in properties.** `NobodyLeftBehind` speaks of users who are not
`spoiled`: after a failure, an eviction, a crash or a login the code promises
nothing until the next visit. `StatusFollowsStore` speaks of users with all tabs
on one instance and of behaviours without failures, crashes and calls so far.
`EventuallyHandled` needs a process that keeps its connection from some time on,
and fewer undecodable messages than the prefetch: as many of them block the
consumer for good.
`RevokedIsRefused` speaks of behaviours without an outage so far.
`PaneMatchesOpen` speaks of moments when no history request is under way and the
last one to be settled displayed the open conversation; a conversation opened
without a user counts as not displayed. `BadgesSettle` speaks of moments when no
request or retry is pending and no attempt to load the list has failed or found
no user since it was rendered. Both hold whoever logs out and in meanwhile. `QuotaPerWindow` counts what is taken while the window lasts.

**Fairness** (`Hub!FairSpec`, `WorkQueue!FairSpec`). Weak fairness for each
goroutine that can run, as Go's scheduler is preemptive. Strong fairness where a
goroutine is one of several waiting: Go serves the blocked senders of a channel
in order and `select` picks among the ready cases at random, so whoever the hub
could serve again and again is served; and the same for a reader that waits for
room in its channel. Nobody has to connect, send or hang up. A read or write on
a dead connection fails because of the deadlines (`pongWait`, `writeWait`). In
`WorkQueue` the goroutine and the answers are weakly fair; a delivery is strongly
fair, as each nack takes the credit away for a moment and the broker delivers
while there is credit before it reads the next answer. Nothing has to be
published, started or lost.

### Where code and documents disagree

| Run | Documented | What happens |
|---|---|---|
| `hub_stuck_reader` | client.go:62, a lost connection is unregistered | a reader that waits for room in its own channel, its writer gone, does not unregister unless the hub sends to its client once more and evicts it; without such a send, never |
| `client_gives_up` | websocket.js:110, "Tự động reconnect sau 5 giây" (reconnects automatically after 5 seconds) | a first failed attempt leaves the handle of its timeout behind, and no other is made |

Seen while modelling, without a run of their own:

* service.go:171 says of the online mark that it "will auto-expire if user
  doesn't refresh": the set `online_users`, which alone is asked, has no expiry,
  so after a crash its users stay online until they come back (`Crash` of
  `Presence`);
* 001_init.sql:306 says "Must be friends to send direct messages": the table
  refuses such a message, the reader logs the error and the hub delivers it
  (client.go:173, `Save` and `Forward` of `DirectChat`);
* a direct message to a user connected to another instance is lost until the
  next history: `chat:direct` is declared (hub.go:201) and not used, though
  README.md:136 promises Pub/Sub between instances; the same when the
  recipient's connection is not registered yet, or another one that has ended
  still is (hub.go:143);
* a reconnected page does not reload the open conversation, so what it missed
  stays missing until the conversation is opened again (websocket.js:64); a
  message stored before a history was read and delivered after it is shown
  twice (websocket.js:257);
* a consumer that has lost its connection never gets another (rabbitmq.go:160);
  as many undecodable messages as the prefetch stop a queue for good
  (rabbitmq.go:164);
* the subscriber also receives its own process's publications, so with Redis a
  local client gets a broadcast twice, though hub.go:254 speaks of messages
  "from another instance"; and it can abort the process (hub.go:258, `SubFatal`
  and the first case of `SubSend`);
* closing one of two tabs, or reloading a page, marks a connected user offline
  (hub.go:108); an evicted user stays online until the next disconnect
  (hub.go:132);
* the copy a sender gets back does not mean anybody received the message
  (client.go:192); the local fallback for a status that could not be published
  never finds a receiver (hub.go:234);
* two crossed friend requests give two rows and two entries in each list
  (friends.go:172); `DB.GetUserFriends` lists one direction only (db.go:413, not
  called);
* a token revoked during a Redis outage is only in one process's map, which is
  not asked once Redis answers again (blacklist.go:84): it is accepted then,
  against "Fallback in-memory map if Redis is unavailable" (blacklist.go:13);
* one counter serves all presets of an address, so after a first request to a
  normal route the strict ones are served up to 300 or 600 times
  (ratelimit.go:81); around a window's end twice the limit passes within a
  minute (ratelimit.go:71); HTTP callers are always identified by address, as
  the user id is looked up under another key, before authentication
  (ratelimit.go:142);
* a history answer that arrives late replaces the pane, whatever is open by then
  (websocket.js:482); an empty history leaves the former conversation's messages
  there when the conversation is opened from the list or by `startChat`, because
  the server answers `null` (db.go:308, websocket.js:481);
* a frame in which the writer put several messages (client.go:246) does not
  parse and all of them are lost to the page (websocket.js:84); text typed while
  the socket is not open is cleared all the same (websocket.js:411); the branch
  for "Unauthorized" is never taken, so a page with a revoked token tries once
  more and then stays as it is (websocket.js:102).

## 4. What is proved

For every set of users, connections, processes and calls and all bounds, from
the constants' typing assumptions only (`HubAssumption`, `FriendsAssumption`,
which also has the calls finite, `BlacklistAssumption`, `MaxSocketsAssumption`,
both `ChatAssumption`s, `RateAssumption`, `PresenceAssumption`, `QueueAssumption`, which has the processes
finite):

* `HubProofs`: `TypeCorrect`, `MapAgreement` (`MapMatchesChannels`),
  `NoPanicWithoutRedis` (`OnlyRedisPanics`), `DirectNeverDropped`
  (`NoSilentLoss`). `MapMatchesChannels` is not inductive by itself: the
  broadcast loop works on clients it found earlier, so the invariant `IInv` adds
  that those are still in the map when it comes to them (`LoopInMap`), that
  the subscriber is idle without Redis, that a writer holds messages exactly
  between taking and writing (`FrameInHand`), and that it does not run before
  its client is registered.
  `StreamsRefineOutbox`: with `pending` the writer's batch followed by the
  channel and `received` the history of the wire, each step of the process is a
  step of the `Outbox` of every connection or leaves it alone; a lemma per kind
  of step (accept, receive, lose, break, close, crash), and the algebra of
  sequences in lemmas of their own.
  `SendersKeepTheirOrder` (`SenderOrder`), `DirectDelivered` (`DirectDelivery`)
  and, for `Redis = FALSE`, `BroadcastHandedOutOnce` (`BroadcastAtMostOnce`) speak
  of what all streams hold at once. One lemma (`StreamEvents`) sorts the steps of
  the process by what they do to the streams (nothing, a piece cut out, one
  message appended to one of them) and to what readers, hub and subscriber carry;
  the three invariants are then shown to survive each of those events.
  `CarryInv`: whatever is carried or in a stream was numbered by its sender's
  reader. `OrderInv`: each stream is in order and, while the hub hands out a
  broadcast, its sender has nothing newer in any stream, because its reader's
  next message waits for the hub. `DirectInv`: a message its reader still has to
  hand over is nowhere, and before the confirmation the sender's own tab holds it
  only if the hub chose that tab. `BcastInv`: no stream holds a broadcast that is
  still to be offered, nor one the loop has not visited the broadcast going out.
* `PresenceProofs`: `TypeCorrect`, `NobodyIsLeftBehind` (`NobodyLeftBehind`) and
  `StatusAgrees` (`StatusFollowsStore`). The invariant relates the commands still
  ahead of every process to what they will undo: for a user who is not
  `spoiled`, a command that brings her online belongs to the hub of a connection
  that is up (`BroughtByConnection`), and whatever shows her online has such a
  connection or a command ahead that takes it away (`SomebodyCleansUp`). For the
  published status, a hub's call is what is left of one of two sequences of three
  commands (`HubsActForTheirs`), and set and status differ only between the first
  and the last (`DifferMidCallOnly`).
* `FriendsProofs`: `TypeCorrect`, `RequestNotifiedOnce`, `MessagesAmongFriends`,
  `FriendshipLasts`. A notice may still be on its way when the row it belongs to
  is rejected and asked for again: the invariant counts notices and calls about
  to notify together against rejections and the row that is there now.
* `TokenBlacklistProofs`: `TypeCorrect` and `RevocationHolds`. The invariant,
  as long as no outage occurred: a logout on its way will enter the token at
  least until it expires; a revoked token that lives has an entry that lasts as
  long, where the process looks; whatever is being deleted has expired; and a
  late request that got past the blacklist carries an expired token.
* `WebClientProofs`: `SingleConnection`, `HeartbeatFollowsSocket` and
  `LossHasRetry` of the connection; `PageRefinesSocket`, that the page with its
  view implements the connection alone, which carries these over
  (`PageHasOneConnection`); `OpenIsRead`, `ListSettles` and `PaneSettles` of
  the view, and `PageTypeCorrect` of the two together. `SocketInv` ties the timer to the socket: a pending timeout belongs
  to a closed connection, and an object that was opened has cleared the timer
  until it closes. The view's invariant `ViewInv` is the conjunction of its
  properties with the counts' type, as each handler needs what the others keep;
  it is inductive because the histories say what became of the last request,
  also when it could not be made: a conversation that opens without a user leaves
  the pane as it is, and another tab may log in again at once.
* `RateLimiterProofs`: `TypeCorrect`, `QuotaHolds`, `RefusalsAreDue`. The
  invariant is an account per window: tokens left, given and lost add up to the
  limit of the preset that came first (`Account`). It holds because a counter
  cannot expire inside its own window, as it is not set before it, and nobody
  holds a key of a window still to come (`StampsPast`).
* `WorkQueueProofs`: `TypeCorrect`, `NothingLost` (`Accounted`),
  `RepetitionsAreLosses` (`HandledAgainOnlyIfLost`). The invariant says where a
  message can be: nothing is kept without a connection (`Shape`), what is
  delivered was published (`Known`) and is in one place among a process's
  buffer, hand and answers (`OnePlace`), an ack under way is for a message
  handled and a nack for one that does not decode (`Kinds`), and acked, ready
  and each connection's unanswered messages are disjoint and all there are
  (`Shared`). And it counts (`Account`): what was done of a
  message, the handling still ahead of it and those that run on without their
  connection are paid for by its first delivery and its losses. The handlers
  that outlive their connection are why the place of a message alone does not do.
* `DirectChatProofs`: `TypeCorrect`, `TwiceOnlyIfLate` (`ShownTwiceOnlyIfLate`),
  `NothingElseMissing` (`MissingOnlyIfLost`) and `SendersOrderIsKept`
  (`SenderOrderKept`). The invariant: there is
  one row and one live copy of a message (`OneCopy`); a reply under way is the
  newest rows of a beginning of the table, and the rows stored since are coming,
  lost or raced (`Replies`); the same of the one shown, where they may also be
  in the pane (`Shown`); and the pane is that history followed by what came
  since, once each (`Pane`). What is missing has to be accounted for while a
  reply is under way, since it must hold when that replaces the one shown.
  The order of a sender's messages needs the whole way (`OrderInv`): they are
  sent in order, a reader has passed a message only when those before it are
  through (`ReadInOrder`), so rows and copies are queued in order
  (`StoredInOrder`, `CopiesInOrder`), and once a message is in the pane, no
  earlier one of its connection is on a connection the page has open
  (`PaneInOrder`). That last part holds across reconnections because a new
  connection has nothing in its channel and a lost one delivers nothing more
  (`Registered`); and what a history without it was shown before, while it was
  on its way, is the exception the property names.

Every safety invariant and action property of the runs is thus stated by a
theorem. Only model-checked are the liveness properties (`ClosedIsTornDown`,
`SenderServed`, `EventuallyHandled`; TLAPS proves neither liveness under fairness
nor ENABLED). `BroadcastAtMostOnce` is proved, as it is checked, without Redis:
with it a local client may get a broadcast twice (see above). No module declares
a RECURSIVE operator, and no proof needs induction over data. The invariants that
carry the proofs were checked by TLC on the instances of section 3 first.

## 5. Not modelled

Functions of `CacheService`, `database.DB` and the blacklist that nothing calls
(sessions, profiles, cached histories, rooms, the older blacklist), of the rate
limiter (blocking an address, resetting a counter); the thin Redis wrapper,
each function of which is one command modelled where it is used; password
hashing, CORS, routing, start-up order, pages and styles, containers and nginx.
Read-only queries other than the history of a conversation (conversations,
search, statistics) change no state and nothing else depends on their timing
but what `ChatView` has of the list. Registration is a SELECT and an INSERT of
which the UNIQUE constraints of `users` make the race harmless: its loser is
told 500 instead of 409 (auth/service.go:39), and no state depends on it. A
logout leaves open the WebSocket connections made with the token (main.go:61):
the server has no operation that would end them, so there is nothing to model.

## 6. Plan

Done: `Hub` with `Outbox`, `Presence`, `Friends`, `TokenBlacklist`,
`WebSocketClient`, `ChatView`, `RateLimiter`, `DirectChat`, `WorkQueue` and the
proofs above, which cover every safety property of the runs. What would come next:

1. Several hubs in full detail on one Redis channel: broadcasts that cross from
   one process to another, with their repetition at the publisher.
2. Two tabs of one user in `DirectChat`, of which one gets the messages.

Each passing run asks one question of one set of bounds; properties share an
instance whenever one set of bounds serves them all.
