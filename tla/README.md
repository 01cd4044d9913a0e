# A TLA+ model of VikingTalk

VikingTalk is a terminal chat: one asyncio server (`server.py`) keeps who is
online, in which channel, and which file offers are pending; clients
(`client.py`) talk to it in JSON frames, and send files to each other directly
(`filetransfer.py`). This directory holds TLA+ modules translated from that
code, TLC configurations that check them on small instances, and theorems
checked by TLAPS. `PROJECT.json` lists the runs, the source lines behind each
definition, and the hazards the properties are aimed at. Source lines below are
those of the repository, e.g. `server.py:358`.

To repeat a run: `tlc -config MCChatServer.cfg MCChatServer.tla`; to
check the proofs of a module: `tlapm ChatServerProofs.tla`.

## The system

| Part | State | Operations | Talks to |
|---|---|---|---|
| Session registry (`server.py`) | `sessions`, `channels`, `connections`, each session's `username` and `channel`; the lock | connect, `/register`, `/login`, `/logout`, `/create`, `/join`, `/leave`, queries, cleanup, shutdown | the database (worker threads), every handler (the lock) |
| File-offer broker (`server.py`) | `offers` | offer, accept, decline, result, cancellation, expiry | registry (looks sessions up), heartbeat |
| Messages and history (`server.py`, `database.py`) | table `messages` | public and private message, history at login and join, notices | registry (member lists) |
| Heartbeat (`server.py`) | `last_pong` of each session | ping, disconnect the silent, expire offers | registry, broker |
| Start and stop (`server.py`) | the listener, `_server`, `_heartbeat_task` | serve, signal, `shutdown()` | all handlers |
| Database (`database.py`) | tables `users`, `channels`, `messages`; NOCASE names, a foreign key | one commit per call, under its own thread lock | |
| Wire protocol (`protocol.py`) | none | frames of at most `MAX_MESSAGE_SIZE` | |
| Client (`client.py`) | connection, user name and channel as shown, the tables `_offers`, `_outgoing`, `_incoming` | reader loop, reconnect loop, commands, keyboard | server; a `send_file` task and an `IncomingTransfer` per file |
| File transfer (`filetransfer.py`) | a one-shot listener, its timer, `_claimed`, `_on_done`; the downloads directory | listen, authenticate, receive, expire, close; dial, send | the other client's half, over a direct connection |
| Discovery, launcher, configuration | none to speak of | UDP question and answer; set up the environment | |

Everything is single-threaded asyncio, except that database calls run in worker
threads. What makes it hard:

- **Interleaving at awaits.** A handler serves one request at a time but takes the one
  `asyncio.Lock` several times per request; between those sections other handlers run.
  State read in one section is used in a later one: the account found by `/login`,
  `session.channel`, the recipient of an offer.
- **A lock that may be held long.** `_cmd_create` (server.py:559-562) and the refusals
  (360, 770) await with the lock held, so any acquire may have to queue; the lock is
  FIFO, and some of the correctness depends on that.
- **Connections that break** at any await; cleanup runs later, as one more sequence of
  sections; sends to a dead peer are swallowed or raise.
- **Two programs and two connections for one file transfer**, each of which can end
  alone, with a timer, a listener that closes itself, and results that travel through
  the server.
- **Files on disk** shared by receives that interleave, and a client that is killed in
  the middle.

What would be wrong, in each part: two logins of one account, an entry in
`sessions` that no connection owns, a user in two channels or in none, a name
nobody can use again (registry); two answers to one offer, an offer nobody ends, a
party that is not told (broker); a report that is not true of the disk, a port
left open, an entry that stays for ever (transfer); a file lost or mixed
(downloads); a message missing between history and live traffic (messages); one
slow client that stops the pings of all (heartbeat); a prompt that lies, two
reconnect loops at once, a connection nobody reads (client).

## Modules

| Module | Models | State and actions in the code |
|---|---|---|
| `Presence` | what the registry promises: each user is in one channel or offline and moves in single steps | abstract |
| `ChatServer` | the session registry, tables `users` and `channels`, the lock, shutdown | one action per critical section, below |
| `OfferBroker` | EXTENDS `ChatServer` with `offers` and the heartbeat's expiry | `offers` is `self.offers`; `ask`, `dest`, `todo` are handlers' locals; `told` is what was written to whom, `lost` what never was because an earlier send raised |
| `Transfer` | one file transfer: two clients, the listener, the sending task, and the server as seen from them | one variable per table entry, task or connection |
| `Downloads` | several receives of files with one name, and the directory | `final`, `part`, `content` are the disk |
| `ChatDelivery` | what the server writes to whom: messages, history, notices | `user`, `room` are the sessions; `job` is what each handler has still to do; `live`, `frame`, `notices` are what each client has been written |
| `Lifecycle` | the heartbeat, clients that stop reading or vanish, the shutdown | `buffer` and `wire` are the transports; `at`, `beatAt`, `mainAt` the `drain()` each task waits in; `age` is the time since `touch()` |
| `ChatClient` | the client's connection: reader, reconnect loop, main loop, prompt | `username`, `channel`, `running`, `connected`, `attempts`, `writer` are attributes; `step` is where `disconnect()` is; `session`, `held` are what the server has |
| `LockQueue` | the order of those who hold and wait for a lock, for the broker's invariants | abstract |
| `MC...` | constants, symmetry and bounds for TLC | |
| `...Proofs` | the theorems about a module | |

`OfferBroker` is composed with `ChatServer` and checked to implement it. The other
modules take from their neighbours what the neighbours promise: `ChatDelivery`
starts from sessions that agree with the member lists (`MembershipExact`) and
accounts logged in once (`OneLoginPerAccount`); `Lifecycle` knows of users only
that they are logged in; `Transfer` and `ChatClient` see a server that answers
request by request.

### ChatServer

`pc[s]` names the next critical section of the handler of connection `s`, or the
await it is suspended in; `arg[s]` is the canonical name in its locals; `queue` is
the lock's holder followed by its waiters. `Wait` queues up, `Turn` is holding the
lock, `Release`, `Again` and `Move` end a section: releasing, asking for the
lock again at once, or awaiting with it held (`hold`).

| Request | Sections, in order |
|---|---|
| connection (167-208) | `Accept`, `Enter` |
| `/register` (315-333) | `RegisterUser`: the INSERT in its thread |
| `/login` (335-392) | `VerifyLogin` (the threads), `LoginAdmit` or `LoginRefuse`+`Unhold`, `Welcome`, `Greet` |
| `/logout` (524-546) | `CmdLogout`, `Logout`, then `Drop`... for the offers, `Farewell` |
| `/create` (548-565) | `CmdCreate`, `Make`+`Unhold` |
| `/join`, `/leave` (567-636) | `CmdJoin`, `Join`, `Part`, `Welcome`, `Greet` |
| a read-only request | `Lookup`, `Peek`..., `PeekDone` or `PeekRefused`+`Unhold` |
| end of the connection (220-248) | `Hangup`, `CleanSession` (then `Drop`..., `Farewell`) or `CleanOrphan` |
| shutdown (131-163, 1118-1136) | `Stop`, `Shutdown`, `Clear` |

What is abstracted: a section in which nothing of the registry changes is only a
turn at the lock, and how many of them a request takes is left open (`Peek`,
`Drop` repeat). A name is a spelling, and `Fold` maps it to its NOCASE key;
passwords always match. `None` in `sessions`, and the empty set in `members`,
stand for absent keys. An uncontended `acquire` does not suspend in Python; in the
model it is a step like any other, which only adds interleavings of the kind that
a contended lock allows anyway. `Shutdown` may come at any time after `Stop`,
which covers Python up to 3.11 (at once) and from 3.12 (after `wait_closed`).
Left out: the `CancelledError` that `asyncio.run` delivers to handlers still
running when `main` returns.

### OfferBroker

Replaces the empty turns of `ChatServer` by what they do to offers: `SendOffer`,
`Seek` (the first section: `_find_session`), `Put` (the second: count and insert);
`SendAnswer`, `Take`, `Reply` (accept and decline); `Cancel`, `Tell` for
`_cancel_offers_for`; `BeatWakes`, `Expire`, `BeatTells` for the heartbeat.
`Flaky` holds the connections a send to which may raise an `OSError` that is no
`ConnectionError`, which `_send` (1045-1051) does not catch: `TellRaises` skips
the rest of a handler, `BeatDies` ends the heartbeat task, and what either had
still to tell is put into `lost`. Two answers to one offer may both be under way:
nothing on the recipient's side keeps them apart until `Take` finds the second one
void. Ids are fresh (`new_transfer_id` draws from `uuid4`). Every step is a
step of `ChatServer` under the mapping of `Core` (`CoreSpec`; the run `offer_ends`
checks it, `ImplementsCore` proves it). The properties of the registry mention no
section that the mapping renames, so they carry over to the server with its broker.
`BrokerShutdown` cancels the heartbeat, which gives up its place in the lock's
queue (`WithoutBeat`). If the heartbeat has died, awaiting it raises its error
again (server.py:138), which `shutdown()` does not catch: `ShutdownRaises` ends the
server without clearing anything, and `Aborted` is where that comes to rest.

### Transfer

It starts with the offer shown to the recipient. `chat[c]` is whether the TCP
connection of client `c` to the server is whole, `online[c]` whether the server still
lists it, and `client[c]` where its reader loop is; `inbox` and `toServer` are the
messages under way, in order; `port` and `timer` are the listener and its 60-second
task, `link` the handler of the sender's connection, `stray` those of other
connections, `send` the sender's task. The server is taken a handler at a time: what
happens between its sections is `OfferBroker`'s subject. `waits` tells the Pythons
apart: `Server.wait_closed` returns at once up to 3.11, and waits for open connections
from 3.12.1; it is chosen at the start and never changes. This decides what
`IncomingTransfer.close` does inside `_expire` and inside the client's cleanup.
`CmdAccept` opens the port and sends `/accept` in one step: the await of
`incoming.start()` (client.py:448) between the two is merged, and no property is about
what may come in there. Left out: `/quit` and `/logout` during a transfer, several
transfers at once, an `/accept` that cannot open a port.

### Downloads

A receive (`_receive`, filetransfer.py:281-329) is `Begin` (`unique_path`), `Open`
(after `FILE_DATA_READY` is drained), `Chunk`..., then `Deliver` (`os.replace`),
`DeliverFails` or `Fail`. Renaming and unlinking have POSIX semantics: an open
file survives both. `Crash` kills the client and leaves the directory as it is.
A checksum is right by definition: it is taken over the bytes received, which
come over TCP.

### ChatDelivery

A request's first section is one action (`Login`, `Logout`, `Join`, `Public`,
`Private`, `CmdHistory`, `Cleanup`), which leaves in `job[c]` what the handler has
still to do, in order: `tell` is a `_broadcast_channel` before its section under the
lock, which `Snapshot` is; `fetch` is a `_send_history` before its thread has read the
rows (`ReadHistory`); `write` is the sends of an item that are still to come
(`SendOne`). Any handler may run between two of these. A request that comes while its
handler is busy waits in the stream, so the model lets it be made later. Row ids are
given by the database, under its lock: `said` is the table with the private messages
woven in. `SendRaises` is an `OSError` that `_send` does not catch, out of the send to
a dead connection (`Flaky`): it ends the sender's handler, and in `cleanup` the task.
`PrivateRaises` is the same for the first of the two sends of a private message
(server.py:481): there is no echo then. `HistoryMax` and `FrameMax` stand for 500 rows
and 65536 bytes.

### Lifecycle

`write_message` writes and then awaits `drain()`, which returns at once, without
letting another task run, unless the transport holds more than its high-water mark
(64 KiB). So a broadcast is one step up to the first connection in `Blocking`, where
the handler waits (`at`) with the rest of its targets to come (`left`). Any write to
a client that does not read (`Slow`), a ping or a goodbye included, may leave
nothing, some bytes or a full transport unsent (`buffer`). `close()` ends a
connection at once only if nothing is unsent; else it flushes first (`"closing"`),
and `drain()` waits on in the meantime if the transport is full.
A vanished client's connection is lost when TCP gives up on unacknowledged bytes
(`GiveUp`), with a `TimeoutError`, which is no `ConnectionError`: the handler that
is writing to it ends (`RaiseInRequest`), though its own client is well, and so does
any that writes to it before it is cleaned up (`"timedout"`). The
heartbeat works on the list and the time it took at the start of the round (`Round`).
`hindered` is a history variable for `NoFalseTimeout`. Left out: the lock (a refusal
awaited under it, server.py:360), users who log in again, the expiry of offers at
the head of the round (`OfferBroker` has it).

### ChatClient

`main` is where `run()` is, `reader` and `redial` are the last reader task and the
last reconnect loop started. Requests and answers travel in `toServer` and `toClient`;
what a `Break` leaves of them is any prefix of the answers, and a session that may
hold a name until the server sees the end (`held`, `Abandoned`). `Silence` is a
network that drops everything without a word. `disconnect()` is three steps:
`SendLogout`, after which it awaits `drain()`; `CloseWriter`, after which it awaits
`wait_closed()` (client.py:158); and `DropWriter`, which drops whatever `self.writer`
is by then. A reconnect loop that is past its look at `running` may connect in between
(`stray`). `HandleLogin`, `HandleJoin` and the rest are the server's handlers, cut
down to what the answer tells; `slip` is a history variable for `PromptTrue`. Left
out: what only prints, messages, pings, transfers (the wait of `_cancel_all_transfers`
is in `Transfer`).

## Runs

Every passing run explores its whole state space, within the bounds named.

| Run | Instance | Shows |
|---|---|---|
| `registry` | 2 connections; accounts a1 (typed a1 or A1) and b1; channels lobby and den (typed den or Den); one account in the database, the other made on the way; stop at any time; 117K states | `RegistryExact`, `MembershipExact`, `RowsExist`, `OneLoginPerAccount`, `OnlyOwnerEndsSession`; `IInv`, the invariant of the proofs; implements `Presence`; `Answered`, `NameReleased` |
| `offers` | 3 connections, 2 users, 2 offers against a limit of 1, no stop; bounded by `FirstOffer`; 1.07M states | `NamedPartiesPresent`, `OneFate`, `PendingBound`, `OwnOffersOnly` |
| `offer_ends` | 3 connections, 3 users, 2 offers with one party in common, sends to one connection may raise, stop; bounded by `Bounded`; 91K states | `CoreSpec`, `OffersEndWhileAlive`, `OtherTold` |
| `offer_stalled` | 2 offers, sends to one connection may raise, no stop | a violation, below |
| `transfer` | either kind of `wait_closed`, a stranger, the sender may vanish; 31K states | `ReportTrue`, `PortAttended`, `Reconnects`, `Unlisted`, `SenderTold` |
| `transfer_offline` | no stranger, nobody vanishes | a violation, below |
| `downloads` | 3 receives of 2 chunks, a file of the user's, one crash; 5K states | `SoleReceiptIntact`, `OthersFilesKept`, `NoLeftovers` |
| `downloads_intact` | 2 receives | a violation, below |
| `delivery` | 3 connections, one of which may break and make sends to it raise; 2 users, 2 channels; 5 requests, 2 of them messages; history of 1; 1.7M states | `NoGap`, `SenderOrder`, `NoticesTrue` |
| `delivery_history` | history of 2, frames of 1 message | a violation, below |
| `lifecycle` | 2 connections, one of which may stand still or vanish; timeout of 2 ticks; either kind of `wait_closed`; 79K states | `NoFalseTimeout`, `SilentDropped`, `Served`, `StopEnds` |
| `client` | 2 accounts, 2 channels, 3 attempts, 3 messages under way, any number of losses; 140K states | `PromptTrue`, `OneConnection`, `Reconnects`, `Attended` |

Why these bounds are enough to see the interesting cases (the safety properties are
proved for any number of everything). Registry: a stale handler and a newer login of
the same account need two connections, which queue for the lock or hold it; a second
user is what a membership table could confuse with the first; a second spelling is
what NOCASE is about. Broker: an offer, the two parties, and a newer login of one of
them are three connections; the limit needs two offers. A leaver with two parties to
tell needs three users and two offers: there, a send to one party that raises is what
keeps the other from being told. Transfer: there is one link per transfer, and one
stranger suffices to keep a listener waiting. Downloads: two receives collide, the
third finds what they leave behind; two chunks let writes interleave and files be
longer than others. Delivery: two users who come, speak and go while the third
connection is that of the one who comes back; five requests let two logins, a move,
and two messages overlap; more are repetitions, since nothing but the rows outlives a
request. Lifecycle: one client stands in the way of one other, of the heartbeat and of
the shutdown; a timeout of two ticks is that of `config.py`. Client: the server's view
can lag by more than one answer, and attempts must run out and be reset.

`offers` uses symmetry of the connections (the handlers run the same code) and of the
offer ids, `downloads` of the transfers, `delivery` of the users and of the
connections that do not break; the liveness runs use none. `FirstOffer` leaves the
stop out of `offers`, keeps all three handlers from being at work at once unless one
has a user leaving and another is about an offer, lets one offer be made at a time,
and cuts a behaviour where a second offer has been made; `Bounded`, of `offer_ends`,
constrains what clients ask for and when the stop comes, and no step of the server's
own: either the third connection stays away, and the other two log in, make an offer,
answer it and leave as they like (`TwoParties`), with the stop at any time; or it
comes when they are logged in, two offers are made that have the first user in common,
one handler at a time takes up something new other than an answer, and he or the third
user leaves (`ThreeParties`), without a stop. `TwoAtOnce` keeps `delivery` to two
handlers at work at a time, those about to clean up included, `MaxSaid` and `MaxAsked`
bound its requests, `MaxCrashes` the crashes, `InFlight` the client's messages under
way.

Deadlock is checked except in `transfer` (a client may wait for ever for a peer
that vanished, as the code does) and `offer_stalled` (no stop, so all clients may
be gone and the heartbeat dead). Where a system may come to rest (nobody asks for
anything, the client has ended, the server has stopped), the module says so with a
step of its own (`Rest`, `Stopped`, `Aborted`).

### Fairness

Weak fairness of each handler: the event loop runs every task that is ready, a worker
thread returns, and a send that does not raise and is made without the lock completes
(a client that does not read is `Lifecycle`'s subject). A wait with the lock held
(`Unhold`) has no fairness: a refused client that does not read keeps the lock for
ever (server.py:360, 770). So the liveness properties of these two modules have
`Drained` as a premise, that such waits come to an end again and again. The
heartbeat's own sends, which it makes without the lock, are taken to end. Strong
fairness of `DropDone` and `PeekDone`: the loops over parties and sessions are finite.
In the broker, weak fairness of the heartbeat task, and strong fairness of expiry for
each offer: the clock passes its cutoff. In `Transfer`, weak fairness of the tasks and
of the timeouts the code sets (60 s for the listener, 30 s for hello and trailer, the
offer's expiry); nothing obliges a user to answer, a connection to break or a client
to log in again. The bytes of a file have no timeout in the code
(filetransfer.py:298); they move or the connection breaks unless the sender has
vanished without a trace. Clients owe the server nothing.

In `Lifecycle`, weak fairness of each handler, of the heartbeat and of `main()`;
TCP gives up in the end on a vanished client, if there are unsent bytes for it; and
strong fairness of the tick, since time goes on while
clients keep the handlers busy. A tick of half a minute comes only when nothing is
ready, and when everything else has been still: the code may rely on no such thing
in general, but its timeout is twice its interval. Nothing obliges a client that has
stopped reading to go on, and the liveness properties say for which clients they
hold. In `ChatClient`, weak fairness of the reader task, of the reconnect loop and
of the main loop, and none for user, server or network. `ChatDelivery` has safety
properties only: that handlers get on is checked in `registry` and `lifecycle`.

### What the violations show

- `offer_stalled`: `_heartbeat_loop` does not guard `_expire_offers` (server.py:1074).
  An `OSError` out of a send ends the task, and with it all expiry, pings and
  timeouts. While it lives `OffersEndWhileAlive` holds (`offer_ends`).
- `transfer_offline`: after `/accept` the server has forgotten the offer, and a
  recipient that loses the server has forgotten the transfer: the sender hears
  nothing.
- `downloads_intact`: two transfers of one file name pick the same name and write one
  `.part` file; both may be reported as received. `SoleReceiptIntact` is what does
  hold.
- `delivery_history`: up to 50 messages of up to 2000 characters go into one frame,
  which may have 65536 bytes. `encode_message` raises, nobody catches it, and whoever
  arrives in the channel is thrown out; in the default channel, that is everybody who
  logs in, until enough short messages have been said by others.

### Exceptions the properties state

Where the code does less than one would wish, but no more was promised, the
property says what holds instead:

- `ReportTrue` (`Overtaken`): the timer fires between the sender's connection and the
  end of its handshake. `_claimed` is not set yet (filetransfer.py:231, 245-254), so
  both users are told that the sender never connected, and where `wait_closed` does
  not wait (Python up to 3.11) the handshake goes on: the file arrives without a word.
  Where it waits this cannot happen; but there `_expire` is cancelled by its own
  `close()`, so if the handshake fails, or the connection was a stranger's, the
  transfer stays listed (`Unlisted` is about the others).
- `Reconnects` of `Transfer` excepts a sender that vanished: the recipient's cleanup
  then waits for the direct connection, and never reaches its reconnect loop
  (client.py:219, 646).
- `NamedPartiesPresent` speaks of the users an offer names: an offer to a user who
  logged out between the two sections of `_handle_file_offer` (759-799) names `None`,
  counts against the sender's limit and only expires.
- `Answered`, `NameReleased`, `OffersEndWhileAlive`, `OtherTold` have the premise
  `Drained`, above: nothing in the code bounds a refusal sent under the lock.
- `OtherTold`: one that answers the offer or leaves is not owed the word; nor, when a
  leaver or the heartbeat has several parties to tell, are those whose turn comes
  after a send that raises (`Skipped`; server.py:981-990 and 1000-1013 have no
  handler), though their own connections are well.
- `NoGap`: an `OSError` out of one member's send ends the sender's handler, and the
  members after it miss the message.
- `NoGhost` (in `NoticesTrue`) has no converse: "left the chat" is told after the
  entry is gone and may come after the "joined" of the user's next login, so that
  members take a user who is there for gone.
- `NoFalseTimeout`: while the heartbeat waits for one client, nobody is pinged, and
  the next round closes clients for PONGs they were not asked for; so does a handler
  that waits for another client longer than the timeout.
- `SilentDropped`: a client that stands still with unsent bytes in its transport,
  however few, stays logged in, timeout or not, for as long as it stands still:
  `close()` flushes first, and never gets to its end (`Unread`). README.md:272 says
  "Disconnect if no pong within this time".
- `SilentDropped`, `Served`: when the transport is full, who writes to that client
  waits as long (`Stuck`), and the heartbeat with them.
- `StopEnds`: where `wait_closed` waits, cancelling `serve_forever` waits for every
  client to leave; only then does `shutdown()` run, with nobody left to say goodbye to
  (server.py:1130-1136).
- `PromptTrue`: after `/logout` the prompt keeps the name (the answer carries nothing,
  server.py:541), and a second `/register` makes it show the default channel whatever
  the server has (client.py:241).
- `OneConnection`: a reconnect loop may connect while `disconnect()` awaits the end of
  the old connection (client.py:157-162). `DropWriter` then drops the new writer
  unclosed, the second `disconnect()` (899) finds none, and `run()` ends with the
  connection up (`stray`).
- `Reconnects` of `ChatClient`: after the last attempt nothing dials again, though the
  user is told to "retry later" (client.py:175). A server that falls silent is noticed
  only when the user types: the client sends no pings.

## Proofs

Each component's theorems are in a module of their own, and hold for any
connections, accounts, channels, files, limits and bounds, with the assumptions
that its module names. Every safety invariant and every `[][...]_vars` property
that a passing run checks is a theorem, and so are both refinements. The
inductive invariants were checked by TLC on the instances of the runs before they
were proved.

| Module | Theorem | States |
|---|---|---|
| `ChatServerProofs` | `Inductive`, `TypeCorrect`, `RegistryCorrect`, `MembershipCorrect`, `RowsCorrect`, `OneLogin` | `IInv` and the invariants of the registry |
| | `OnlyOwnerEnds` | `OnlyOwnerEndsSession` |
| | `ImplementsPresence` | `Spec => PresenceSpec` |
| `OfferBrokerProofs` | `LockCorrect` | the queue lists each task once, and just those that hold the lock or wait for it |
| | `ImplementsCore` | `BrokerSpec => CoreSpec`: the broker is a registry |
| | `RegistryKept`, `PresenceKept`, `OwnerEndsKept` | so what was proved of the registry holds of it |
| | `OffersBounded`, `FatesAgree` | `PendingBound`, `OneFate` |
| | `BrokerInductive`, `PartiesPresent`, `OwnOffers` | `BrokerIInv`, `NamedPartiesPresent`, `OwnOffersOnly` |
| `TransferProofs` | `TypeCorrect`, `PortsClosed`, `ReportsTrue` | `TypeOK`, `PortAttended`, `ReportTrue` |
| `DownloadsProofs` | `TypeCorrect`, `SoleReceiptKept`, `OthersFilesSafe`, `NothingLeft` | `TypeOK`, `SoleReceiptIntact`, `OthersFilesKept`, `NoLeftovers` |
| `ChatDeliveryProofs` | `TypeCorrect`, `SenderOrdered`, `NothingMissed`, `NoticesCorrect` | `TypeOK`, `SenderOrder`, `NoGap`, `NoticesTrue` |
| `LifecycleProofs` | `TypeCorrect`, `NobodyDropped` | `TypeOK`; `NoFalseTimeout` if `Timeout >= 2` |
| `ChatClientProofs` | `TypeCorrect`, `NoneTooMany`, `PromptCorrect` | `TypeOK`, `OneConnection`, `PromptTrue` |

`LockQueueProofs` has the lemmas about queues that the broker's proofs rest on:
what appending, taking the head, asking again and giving up a place do to who is in
the queue, once or twice, and who is ahead of whom.

### ChatServer

Assumed: stored names are among the spellings and no two differ in case only (the
NOCASE primary keys), the default channel is stored (`_init_schema`), and `None`
and the main task are no connection.

The safety invariants are not inductive: a handler about to run its login section
must hold an account that exists, one about to log out must hold its own name, one
about to join must not be in the channel already, and a connection that has been
cleaned up must not be served. `HandlerInv(s)` says this of each handler, and
`IInv` is the conjunction of the type invariant, the three invariants of the
tables and `HandlerInv`. A handler changes only its own `pc`, `arg`, `username`
and `channel`, so the others' part is kept (`OthersStay`), and most steps touch
neither tables nor registry (`QuietStep`); the six sections that do have a lemma
each. `RegistryExact` does the real work: the logout section pops `sessions`
without looking whose entry it is (531), and is right only because a logged-in
open connection always owns its entry. The refinement maps `present` to the pairs
listed in `members`; each section changes one user's row (`ListedChange`).

### OfferBroker

Assumed besides: the limit is positive, the heartbeat is no connection, `None` is
no record.

`ImplementsCore` maps the offer sections to lookups, and the heartbeat to nothing:
`WithoutBeat` is the queue as if the heartbeat had given up its place. That every
step is one of `ChatServer` or a stutter needs `LockInv`: a handler whose turn it is
in the broker has its turn in the mapped queue too, since the heartbeat is at the
head of the queue for its own sections only. `ChatServerProofs` is then
instantiated under the mapping, and the registry's theorems are taken from there
and not proved again.

`OfferInv` is inductive on top of these: an offer is in `self.offers` exactly while
it is pending, offers on their way have fresh ids, nothing was said of an unused
one, and a user has at most `MaxPending` pending. The bound is kept because `Put`
counts and inserts in one section (server.py:781-799).

`NamedPartiesPresent` is about time: an offer is inserted in a later section than the
one that found its recipient, who may have logged out, or logged in again elsewhere,
in between. What keeps it is the order of the lock's queue, which `OrderInv` states:
whoever a pending offer names holds it, or is about to cancel it; a
cancellation still to come is behind nothing that a newer login of the user asks for,
and ahead of an insert for that login; and an insert for a user that leaves meanwhile
is ahead of the cancellation, so that the offer is there to be cancelled. So the
theorem rests on `asyncio.Lock` being FIFO. `OwnOffersOnly` follows from the same.

### Transfer

`PortInv`: no listener before `/accept`; the timer runs only while the port is open
and unclaimed; once the client has cancelled, nothing is open. `AcceptInv`: the
sender is told at most once that its file is wanted, and of an offer nobody took
back; only then does it connect. `WordInv` follows the verdict from the disk to the
report, the server, the sender's inbox and its screen: at each place "ok" means that
the file was kept, and "failed" that the recipient reported it so. Where
`wait_closed` waits, a transfer that has expired had no connection in its handshake:
so `Overtaken` is the exception it is stated to be.

### Downloads

Assumed: finitely many transfers, each of one chunk or more, and names enough for
them (`unique_path` counts on without end). That it finds a free name is part of
`TypeCorrect`: each file is after one name only (`FileInv`), so the pigeonhole
principle leaves one free. `SoleReceiptIntact` needs `AloneInv`: a receive that has
never had a rival for its name has exactly its own first chunks there, and once it is
done nobody is after that name. `OthersFilesKept` rests on the same: whoever renames,
truncates or removes a `.part` file does so under a name it is after itself.

### ChatDelivery

Assumed: accounts and channels are told apart (two columns of a row), `None` is
neither, nor a set of row ids, and the limits are positive.

`JobInv` says what a handler may owe: history and the word of where it is only to its
own client; a message only as the last thing it has to do, and as the last its user
has sent; a "joined" only of its own user, a "left" first of all. `SenderOrder`
follows: when a message is written, every other of that user in the table is older.

For `NoGap`, `ArrivalInv` says how far each newcomer is: still to be told where it
is, its history still to be read, or to be sent, or all done. From the reading on,
every row of the channel is in what it has been written or is to be sent, or pushed
out by `Recent` newer ones, or in a broadcast still to reach it (`Covered`). A row
that comes later is in a broadcast that has yet to list its members, and
the newcomer is one by then. `LatestCovers` is the fact about `ORDER BY id DESC
LIMIT n` that this needs: a row left out has n newer ones in the result.

For the notices: of two users in a channel, one has still to tell the others, or
the other has been told or is on the list (`MeetInv`); and whose "joined" was the last
a client heard of is there, or their "left" is still to come (`SeenInv`). Every
departure puts its "left" first in the job of the handler that makes it (`Leaver`).

### Lifecycle

`ClockInv`: a client that nothing hinders is never a whole tick behind; since the last
tick it has been heard of, or the heartbeat is about to ping it, or its PONG is under
way. The theorem assumes a timeout of at least two ticks, a tick being the interval
of the pings: `config.py:25-26` sets 30 and 60 seconds. The assumption is needed: with
one tick TLC finds a client closed whose PONG is on its way.

### ChatClient

`LoopInv`: a reconnect loop runs only when no reader does and only without a
connection, and a client without one shows no user. `LinkInv`: a connection that is
not closed is the one whose writer `self.writer` is, unless it was made in the middle
of `disconnect()`. Together (`TaskInv`) they give `OneConnection`: a client that has
ended has closed every connection it made, but for such a one. `PromptTrue` speaks of
the moment when nothing is under way; `Replay` generalises it to any moment: if the
client reads the answers under way, one after the other, it shows what it should. What
it shows after several answers is a recursion over data, which the provers cannot do;
`Becomes` says instead that there is a sequence of views from the first to the last,
each `After` the one before.

### Only model-checked

Liveness, which is out of the prover's reach: `Answered`, `NameReleased`,
`OffersEndWhileAlive`, `OtherTold`, `Reconnects` (of both clients), `Unlisted`,
`SenderTold`, `SilentDropped`, `Served`, `StopEnds`, `Attended`; and the four
violations, which are counterexamples. The theorems know nothing of the bounds of the
runs (`FirstOffer`, `Bounded`, `TwoAtOnce`), and hold for every value of the bounds
that are constants (`MaxSaid`, `MaxCrashes`, `InFlight` and the like).

## Not modelled

- Discovery (a stateless UDP question and answer) and the launcher (a script that
  makes a virtual environment): pure I/O. The configuration appears as CONSTANTS, the
  tests were read as documentation.
- The client's keyboard thread, input buffer and printing: terminal I/O.
- Frames that cannot be decoded, and requests no client of the repository sends.
- A start of the server that fails because the port is in use.
- A refusal awaited with the lock held to a client that does not read (server.py:360,
  770): `ChatServer` has the section, and its liveness properties take it as a premise
  that such sends end; what becomes of the others' sockets meanwhile is not modelled.
- Several transfers of one client at once, except on disk (`Downloads`).

## Plan

Done: the registry, the broker on top of it, transfers, downloads, delivery,
lifecycle and client, with proofs of all their safety properties. What is left:

1. Promises stated as abstract specifications, with proofs that the modules
   implement them, as `Presence` is for the registry: an offer that is made, and
   ends once (`OfferBroker`); a file that is offered, fetched and reported
   (`Transfer`); a channel's log and its readers (`ChatDelivery`).
2. What a neighbour takes from another, proved where it can be: that the sessions
   `ChatDelivery` starts from move as those of `ChatServer` do.
3. To model: `Lifecycle` with the lock, and with offers that expire at the head of
   the round; an `/accept` that cannot open a port.
