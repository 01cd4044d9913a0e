---------------------------- MODULE ChatServer ----------------------------
(* The session registry of server.py: who is connected, who is logged in    *)
(* on which connection, and which channel each user is in.                  *)
(*                                                                          *)
(* Every connection has one handler task, which serves one request at a     *)
(* time.  The tasks share self.sessions, self.channels and self.connections *)
(* under one asyncio.Lock, and a handler takes that lock several times per  *)
(* request, so the requests of different clients interleave between the     *)
(* critical sections.  pc[s] is the next critical section of the handler    *)
(* of s (or the await it is suspended in), and arg[s] the canonical name    *)
(* its locals hold.  asyncio.Lock is fair: queue lists its holder and its   *)
(* waiters in the order they asked, and only the head may run a section.    *)
EXTENDS Naturals, Sequences, FiniteSets

CONSTANTS
  Conns,     \* the connections that may ever be opened
  Names,     \* spellings of user names a client may type
  Channels,  \* spellings of channel names a client may type
  General,   \* config.DEFAULT_CHANNEL
  Fold,      \* the case-folded key of each spelling (COLLATE NOCASE)
  UsersFile,     \* the rows chat.db holds when the server starts:
  ChannelsFile,  \* its tables users and channels
  None,      \* Python's None
  Main       \* the task that runs shutdown()

\* No two rows of a table differ in case only.
NoTwins(table) == \A m, n \in table : Fold[m] = Fold[n] => m = n

ASSUME UsersAssumption == UsersFile \subseteq Names /\ NoTwins(UsersFile)
ASSUME ChannelsAssumption == ChannelsFile \subseteq Channels /\ NoTwins(ChannelsFile)
\* _init_schema inserts the default channel, and no other spelling is stored.
ASSUME GeneralAssumption == General \in ChannelsFile
ASSUME NoneAssumption == None \notin Conns \cup Names \cup Channels
ASSUME MainAssumption == Main \notin Conns

VARIABLES
  accounts,     \* table users: the registered names, as first spelled
  rooms,        \* table channels: the channel names, as first spelled
  connections,  \* self.connections
  username,     \* session.username
  channel,      \* session.channel
  sessions,     \* self.sessions; None stands for an absent key
  members,      \* self.channels; {} also stands for an absent key
  pc,           \* where the handler of each connection is
  arg,          \* the canonical name in the handler's locals
  queue,        \* holder of self._lock, then its waiters
  phase         \* "up", "stopping" (listener closed), "cleared" (tables emptied)

tables   == <<accounts, rooms>>
registry == <<connections, username, channel, sessions, members>>
control  == <<pc, queue>>
vars     == <<tables, registry, control, arg, phase>>

\* A handler in one of these is in the lock's queue.
Queued == {"enter", "login", "hold", "greet", "logout", "drop", "farewell",
           "join", "part", "make", "peek", "clean"}
Labels == Queued \cup {"absent", "read", "welcome", "closed"}

\* The spellings in a table that NOCASE takes for the name typed.
Stored(table, typed) == {m \in table : Fold[m] = Fold[typed]}

TypeOK ==
  /\ accounts \subseteq Names
  /\ rooms \subseteq Channels
  /\ connections \subseteq Conns
  /\ username \in [Conns -> Names \cup {None}]
  /\ channel \in [Conns -> Channels]
  /\ sessions \in [Names -> Conns \cup {None}]
  /\ members \in [Channels -> SUBSET Names]
  /\ pc \in [Conns -> Labels]
  /\ arg \in [Conns -> Names \cup Channels \cup {None}]
  /\ queue \in Seq(Conns \cup {Main})
  /\ phase \in {"up", "stopping", "cleared"}

Init ==
  /\ accounts = UsersFile
  /\ rooms = ChannelsFile
  /\ connections = {}
  /\ username = [s \in Conns |-> None]
  /\ channel = [s \in Conns |-> General]
  /\ sessions = [u \in Names |-> None]
  /\ members = [c \in Channels |-> {}]
  /\ pc = [s \in Conns |-> "absent"]
  /\ arg = [s \in Conns |-> None]
  /\ queue = <<>>
  /\ phase = "up"

-----------------------------------------------------------------------------
(* The lock.  An acquire queues up; releasing hands the lock to the next    *)
(* waiter; a handler that acquires again queues behind those waiting.       *)

Move(s, l) == pc' = [pc EXCEPT ![s] = l]

\* Mutant: the newest waiter is served first.
WaitInFront(s, l) == Move(s, l) /\ queue' = <<s>> \o queue

Wait(s, l) == Move(s, l) /\ queue' = Append(queue, s)

Turn(s, l) == pc[s] = l /\ queue # <<>> /\ Head(queue) = s

Release(s, l) == Move(s, l) /\ queue' = Tail(queue)

\* The handler is done with a request; its locals die.
Return(s, l) == Release(s, l) /\ arg' = [arg EXCEPT ![s] = None]

Again(s, l) == Move(s, l) /\ queue' = Append(Tail(queue), s)

\* The handler has read a request and starts to serve it.
Serving(s) == pc[s] = "read"

-----------------------------------------------------------------------------
(* Connecting                                                               *)

Accept(s) ==
  /\ phase = "up"
  /\ pc[s] = "absent"
  /\ Wait(s, "enter")
  /\ UNCHANGED <<tables, registry, arg, phase>>

Enter(s) ==
  /\ Turn(s, "enter")
  /\ connections' = connections \cup {s}
  /\ Release(s, "read")
  /\ UNCHANGED <<tables, username, channel, sessions, members, arg, phase>>

-----------------------------------------------------------------------------
(* Registering and logging in                                               *)

\* The INSERT commits inside one worker-thread call; a name that differs from
\* a stored one in case only fails the UNIQUE constraint and changes nothing.
RegisterUser(s, n) ==
  /\ Serving(s)
  /\ Stored(accounts, n) = {}
  /\ accounts' = accounts \cup {n}
  /\ UNCHANGED <<rooms, registry, control, arg, phase>>

\* Mutant: the session is keyed by the name as typed.
VerifyLoginTyped(s, n) ==
  /\ Serving(s)
  /\ username[s] = None
  /\ Stored(accounts, n) # {}
  /\ arg' = [arg EXCEPT ![s] = n]
  /\ Wait(s, "login")
  /\ UNCHANGED <<tables, registry, phase>>

\* verify_user and get_canonical_username; rows are never deleted or renamed.
VerifyLogin(s, n) ==
  /\ Serving(s)
  /\ username[s] = None
  /\ \E m \in Stored(accounts, n) : arg' = [arg EXCEPT ![s] = m]
  /\ Wait(s, "login")
  /\ UNCHANGED <<tables, registry, phase>>

\* Mutant: no check that the account is free.
LoginAdmitAnyway(s) ==
  LET u == arg[s] IN
  /\ Turn(s, "login")
  /\ username' = [username EXCEPT ![s] = u]
  /\ channel' = [channel EXCEPT ![s] = General]
  /\ sessions' = [sessions EXCEPT ![u] = s]
  /\ members' = [members EXCEPT ![General] = @ \cup {u}]
  /\ Release(s, "welcome")
  /\ UNCHANGED <<tables, connections, arg, phase>>

LoginAdmit(s) ==
  LET u == arg[s] IN
  /\ Turn(s, "login")
  /\ sessions[u] = None
  /\ username' = [username EXCEPT ![s] = u]
  /\ channel' = [channel EXCEPT ![s] = General]
  /\ sessions' = [sessions EXCEPT ![u] = s]
  /\ members' = [members EXCEPT ![General] = @ \cup {u}]
  /\ Release(s, "welcome")
  /\ UNCHANGED <<tables, connections, arg, phase>>

\* The refusal is sent with the lock held.
LoginRefuse(s) ==
  /\ Turn(s, "login")
  /\ sessions[arg[s]] # None
  /\ Move(s, "hold")
  /\ UNCHANGED <<tables, registry, arg, queue, phase>>

\* An await under the lock ends: a refusal is sent, or a thread returns.
Unhold(s) ==
  /\ Turn(s, "hold")
  /\ Return(s, "read")
  /\ UNCHANGED <<tables, registry, phase>>

\* The answer and the channel's history are sent; next comes the notice.
Welcome(s) ==
  /\ pc[s] = "welcome"
  /\ Wait(s, "greet")
  /\ UNCHANGED <<tables, registry, arg, phase>>

\* _broadcast_channel reads the member list under the lock.
Greet(s) ==
  /\ Turn(s, "greet")
  /\ Return(s, "read")
  /\ UNCHANGED <<tables, registry, phase>>

-----------------------------------------------------------------------------
(* Logging out                                                              *)

CmdLogout(s) ==
  /\ Serving(s)
  /\ username[s] # None
  /\ arg' = [arg EXCEPT ![s] = username[s]]
  /\ Wait(s, "logout")
  /\ UNCHANGED <<tables, registry, phase>>

\* u is no longer online; nothing else is awaited before the next acquire.
Unregister(u, c) ==
  /\ sessions' = [sessions EXCEPT ![u] = None]
  /\ members' = [members EXCEPT ![c] = @ \ {u}]

\* Mutant: session.username survives the logout.
LogoutKeepsName(s) ==
  /\ Turn(s, "logout")
  /\ Unregister(arg[s], channel[s])
  /\ channel' = [channel EXCEPT ![s] = General]
  /\ Again(s, "drop")
  /\ UNCHANGED <<tables, connections, username, arg, phase>>

Logout(s) ==
  /\ Turn(s, "logout")
  /\ Unregister(arg[s], channel[s])
  /\ username' = [username EXCEPT ![s] = None]
  /\ channel' = [channel EXCEPT ![s] = General]
  /\ Again(s, "drop")
  /\ UNCHANGED <<tables, connections, arg, phase>>

\* _cancel_offers_for takes the lock for self.offers, then once per party to
\* tell (module OfferBroker); none of this touches the registry.
Drop(s) ==
  /\ Turn(s, "drop")
  /\ Again(s, "drop")
  /\ UNCHANGED <<tables, registry, arg, phase>>

DropDone(s) ==
  /\ Turn(s, "drop")
  /\ Again(s, "farewell")
  /\ UNCHANGED <<tables, registry, arg, phase>>

\* A send to another client raised an error _send does not catch: the rest
\* of the handler is skipped, and cleanup follows unless this was cleanup.
DropRaises(s) ==
  /\ Turn(s, "drop")
  /\ IF s \in connections THEN Again(s, "clean") ELSE Release(s, "closed")
  /\ arg' = [arg EXCEPT ![s] = None]
  /\ UNCHANGED <<tables, registry, phase>>

\* The notice that the user left; then the next request, or the end.
Farewell(s) ==
  /\ Turn(s, "farewell")
  /\ Return(s, IF s \in connections THEN "read" ELSE "closed")
  /\ UNCHANGED <<tables, registry, phase>>

-----------------------------------------------------------------------------
(* Channels                                                                 *)

CmdCreate(s, c) ==
  /\ Serving(s)
  /\ username[s] # None
  /\ Stored(rooms, c) = {}
  /\ rooms' = rooms \cup {c}
  /\ Wait(s, "make")
  /\ UNCHANGED <<accounts, registry, arg, phase>>

\* get_canonical_channel runs in a thread while the lock is held.
Make(s) ==
  /\ Turn(s, "make")
  /\ Move(s, "hold")
  /\ UNCHANGED <<tables, registry, arg, queue, phase>>

\* Mutant: the channel is joined under the name typed.
CmdJoinTyped(s, c) ==
  /\ Serving(s)
  /\ username[s] # None
  /\ Stored(rooms, c) # {}
  /\ c # channel[s]
  /\ arg' = [arg EXCEPT ![s] = c]
  /\ Wait(s, "join")
  /\ UNCHANGED <<tables, registry, phase>>

\* Mutant: a user may join the channel it is in.
CmdJoinAgain(s, c) ==
  /\ Serving(s)
  /\ username[s] # None
  /\ \E d \in Stored(rooms, c) : arg' = [arg EXCEPT ![s] = d]
  /\ Wait(s, "join")
  /\ UNCHANGED <<tables, registry, phase>>

\* /leave is a /join of General.
CmdJoin(s, c) ==
  /\ Serving(s)
  /\ username[s] # None
  /\ \E d \in Stored(rooms, c) :
       /\ d # channel[s]
       /\ arg' = [arg EXCEPT ![s] = d]
  /\ Wait(s, "join")
  /\ UNCHANGED <<tables, registry, phase>>

\* Mutant: the user stays listed in the old channel.
JoinBoth(s) ==
  /\ Turn(s, "join")
  /\ members' = [members EXCEPT ![arg[s]] = @ \cup {username[s]}]
  /\ channel' = [channel EXCEPT ![s] = arg[s]]
  /\ Again(s, "part")
  /\ UNCHANGED <<tables, connections, username, sessions, arg, phase>>

Join(s) ==
  LET u == username[s] IN
  /\ Turn(s, "join")
  /\ members' = [members EXCEPT ![channel[s]] = @ \ {u}, ![arg[s]] = @ \cup {u}]
  /\ channel' = [channel EXCEPT ![s] = arg[s]]
  /\ Again(s, "part")
  /\ UNCHANGED <<tables, connections, username, sessions, arg, phase>>

\* The notice to the old channel; then the answer, history and second notice.
Part(s) ==
  /\ Turn(s, "part")
  /\ Release(s, "welcome")
  /\ UNCHANGED <<tables, registry, arg, phase>>

-----------------------------------------------------------------------------
(* Requests that only read the registry: messages, /users, /channels, file  *)
(* offers and their answers.  Each takes the lock one or more times.        *)

Lookup(s) ==
  /\ Serving(s)
  /\ username[s] # None
  /\ Wait(s, "peek")
  /\ UNCHANGED <<tables, registry, arg, phase>>

Peek(s) ==
  /\ Turn(s, "peek")
  /\ Again(s, "peek")
  /\ UNCHANGED <<tables, registry, arg, phase>>

PeekDone(s) ==
  /\ Turn(s, "peek")
  /\ Release(s, "read")
  /\ UNCHANGED <<tables, registry, arg, phase>>

\* _handle_file_offer refuses an offer with the lock held.
PeekRefused(s) ==
  /\ Turn(s, "peek")
  /\ Move(s, "hold")
  /\ UNCHANGED <<tables, registry, arg, queue, phase>>

-----------------------------------------------------------------------------
(* Disconnecting and shutting down                                          *)

\* End of stream, a protocol error, or a send that raises outside the lock.
Hangup(s) ==
  /\ pc[s] \in {"read", "welcome"}
  /\ Wait(s, "clean")
  /\ arg' = [arg EXCEPT ![s] = None]
  /\ UNCHANGED <<tables, registry, phase>>

\* Mutant: cleanup leaves the entry in self.sessions.
CleanSessionHalf(s) ==
  LET u == username[s] IN
  /\ Turn(s, "clean")
  /\ u # None
  /\ sessions[u] = s
  /\ connections' = connections \ {s}
  /\ members' = [members EXCEPT ![channel[s]] = @ \ {u}]
  /\ arg' = [arg EXCEPT ![s] = u]
  /\ Again(s, "drop")
  /\ UNCHANGED <<tables, username, channel, sessions, phase>>

\* Mutant: cleanup looks for the user in the default channel only.
CleanSessionGeneral(s) ==
  LET u == username[s] IN
  /\ Turn(s, "clean")
  /\ u # None
  /\ sessions[u] = s
  /\ connections' = connections \ {s}
  /\ Unregister(u, General)
  /\ arg' = [arg EXCEPT ![s] = u]
  /\ Again(s, "drop")
  /\ UNCHANGED <<tables, username, channel, phase>>

CleanSession(s) ==
  LET u == username[s] IN
  /\ Turn(s, "clean")
  /\ u # None
  /\ sessions[u] = s
  /\ connections' = connections \ {s}
  /\ Unregister(u, channel[s])
  /\ arg' = [arg EXCEPT ![s] = u]
  /\ Again(s, "drop")
  /\ UNCHANGED <<tables, username, channel, phase>>

\* Nobody is logged in here, or not any more under this session.
CleanOrphan(s) ==
  LET u == username[s] IN
  /\ Turn(s, "clean")
  /\ u # None => sessions[u] # s
  /\ connections' = connections \ {s}
  /\ Release(s, "closed")
  /\ UNCHANGED <<tables, username, channel, sessions, members, arg, phase>>

\* A signal: main() cancels serve_forever, which closes the listener.
Stop ==
  /\ phase = "up"
  /\ phase' = "stopping"
  /\ UNCHANGED <<tables, registry, control, arg>>

\* shutdown() asks for the lock: at once up to Python 3.11, and from 3.12 on
\* only when wait_closed has seen the connections go; here, at any time.
Shutdown ==
  /\ phase = "stopping"
  /\ \A i \in 1..Len(queue) : queue[i] # Main
  /\ queue' = Append(queue, Main)
  /\ UNCHANGED <<tables, registry, pc, arg, phase>>

Clear ==
  /\ queue # <<>>
  /\ Head(queue) = Main
  /\ sessions' = [u \in Names |-> None]
  /\ members' = [c \in Channels |-> {}]
  /\ phase' = "cleared"
  /\ queue' = Tail(queue)
  /\ UNCHANGED <<tables, connections, username, channel, pc, arg>>

\* The server has stopped and no handler is left.
Done ==
  /\ phase = "cleared"
  /\ \A s \in Conns : pc[s] \in {"absent", "closed"}
  /\ UNCHANGED vars

-----------------------------------------------------------------------------
\* What a client may ask for or do.
Ask(s) ==
  \/ Accept(s)
  \/ \E n \in Names : RegisterUser(s, n) \/ VerifyLogin(s, n)
  \/ \E c \in Channels : CmdCreate(s, c) \/ CmdJoin(s, c)
  \/ CmdLogout(s)
  \/ Hangup(s)

\* What a handler does of itself once it has such a request.
Serve(s) ==
  \/ Enter(s)
  \/ LoginAdmit(s) \/ LoginRefuse(s) \/ Unhold(s) \/ Welcome(s) \/ Greet(s)
  \/ Logout(s) \/ Farewell(s)
  \/ Make(s) \/ Join(s) \/ Part(s)
  \/ CleanSession(s) \/ CleanOrphan(s)

\* Sections that leave the registry alone; module OfferBroker details them.
Read(s) ==
  \/ Drop(s) \/ DropDone(s) \/ DropRaises(s)
  \/ Peek(s) \/ PeekDone(s) \/ PeekRefused(s)

Handle(s) == Serve(s) \/ Read(s)

Next ==
  \/ \E s \in Conns : Ask(s) \/ Lookup(s) \/ Handle(s)
  \/ Stop \/ Shutdown \/ Clear
  \/ Done

Spec == Init /\ [][Next]_vars

\* The event loop runs every ready task, the loops over the parties to tell and
\* the sessions to look up are finite, and a send outside the lock, which is part
\* of the section before it, ends or raises.  Clients owe the server nothing, not
\* even that they read the refusal that a handler sends under the lock.
Ready(s) == pc[s] # "hold"

Fairness ==
  /\ \A s \in Conns :
       WF_vars(Ready(s) /\ Handle(s)) /\ SF_vars(DropDone(s)) /\ SF_vars(PeekDone(s))
  /\ WF_vars(Clear)

FairSpec == Spec /\ Fairness

-----------------------------------------------------------------------------
(* Properties                                                               *)

\* self.sessions and the sessions agree at every await: an entry belongs to
\* an open connection logged in under that name, and until the shutdown
\* empties the table (server.py:141-145) a logged-in open connection has its
\* entry.  The check, the insert and the removals (358-372, 524-534, 232-246)
\* are sections of different handlers, with other handlers in between.
RegistryExact ==
  /\ \A u \in Names : sessions[u] # None =>
       /\ sessions[u] \in connections
       /\ username[sessions[u]] = u
  /\ phase # "cleared" =>
       \A s \in connections : username[s] # None => sessions[username[s]] = s

\* self.channels and session.channel, kept apart in login, /join, /logout and
\* cleanup, agree: a user is listed in a channel exactly when online there.
MembershipExact ==
  phase # "cleared" =>
    \A u \in Names, c \in Channels :
      u \in members[c] <=> sessions[u] # None /\ channel[sessions[u]] = c

\* One account is logged in on at most one open connection, whatever spelling
\* each client typed (server.py:355-368 with the NOCASE table).
OneLoginPerAccount ==
  phase # "cleared" =>
    \A s, t \in connections :
      /\ username[s] # None
      /\ username[t] # None
      /\ Fold[username[s]] = Fold[username[t]]
      => s = t

\* Whatever a handler does with session.channel and session.username after its
\* awaits, they still name rows: save_message's foreign key (database.py:62)
\* never fails, and history and broadcasts use the spelling that is stored.
RowsExist ==
  /\ General \in rooms
  /\ NoTwins(accounts) /\ NoTwins(rooms)
  /\ \A s \in Conns : username[s] # None => username[s] \in accounts
  /\ \A s \in Conns : channel[s] \in rooms

\* Until the shutdown, a user's session ends only in the logout or cleanup
\* section of that very session, never in a section of another connection
\* (a stale handler must not evict a newer login: server.py:238-246, 531).
OnlyOwnerEndsSession ==
  [][ \A u \in Names :
        sessions[u] # None /\ sessions'[u] # sessions[u] /\ phase' # "cleared"
        => pc[sessions[u]] \in {"logout", "clean"} /\ sessions'[u] = None ]_vars

\* What each handler can rely on after an await, at its next section: the
\* facts that make the invariants above inductive.
HandlerInv(s) ==
  /\ pc[s] \in {"absent", "enter"} => username[s] = None
  /\ pc[s] \in Labels \ {"absent", "enter", "drop", "farewell", "closed"} => s \in connections
  /\ pc[s] \in {"absent", "enter", "closed"} => s \notin connections
  /\ pc[s] = "login" => username[s] = None /\ arg[s] \in accounts
  /\ pc[s] = "logout" => username[s] # None /\ arg[s] = username[s]
  /\ pc[s] = "join" =>
       /\ username[s] # None
       /\ arg[s] \in rooms
       /\ arg[s] # channel[s]

IInv ==
  /\ TypeOK
  /\ RegistryExact
  /\ MembershipExact
  /\ RowsExist
  /\ \A s \in Conns : HandlerInv(s)

\* The registry implements module Presence.
Listed == {p \in Names \X Channels : p[1] \in members[p[2]]}

P == INSTANCE Presence WITH
       Users   <- Names,
       Rooms   <- Channels,
       present <- Listed,
       open    <- (phase # "cleared")

PresenceSpec == P!Spec

\* The premise of the liveness properties: every await under the lock ends.
\* get_canonical_channel returns (server.py:560), but the drain() of a refusal
\* (360, 770) ends only if the client that is refused reads.
Drained == []<>(\A s \in Conns : Ready(s))

\* If that is so, nobody waits for the lock for ever, and a handler that takes it
\* several times for one request (logout, cleanup, /join) is done with it in the
\* end: it is back to reading, or ends, or sends its own client an answer.
Answered ==
  Drained => \A s \in Conns : pc[s] \in Queued ~> pc[s] \notin Queued

\* If that is so, a connection that breaks while logged in gives the name back:
\* the user is offline, or online again on another connection.
NameReleased ==
  Drained => \A s \in Conns, u \in Names :
               pc[s] = "clean" /\ username[s] = u ~> sessions[u] # s
=============================================================================
