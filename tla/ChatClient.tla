------------------------------ MODULE ChatClient ------------------------------
(* The connection of client.py to the server: the reader loop, the reconnect *)
(* loop and the main loop, which are three tasks, and what the prompt shows  *)
(* of the user's name and channel, which live in the server.                 *)
(*                                                                           *)
(* Of the server there is what this client can tell: the session of its      *)
(* connection, and the sessions of its earlier connections, which hold their *)
(* names until the server has seen the connection go.  Messages and files    *)
(* are left to the other modules.                                            *)
EXTENDS Naturals, Sequences

CONSTANTS
  Users,        \* the accounts the user may log in with
  Rooms,        \* the channels
  General,      \* config.DEFAULT_CHANNEL
  MaxAttempts,  \* config.RECONNECT_MAX_ATTEMPTS
  InFlight,     \* bound: requests and answers under way at a time
  None          \* Python's None

ASSUME GeneralAssumption == General \in Rooms
ASSUME AttemptsAssumption == MaxAttempts \in Nat
ASSUME NoneAssumption == None \notin Users \cup Rooms

VARIABLES
  username,  \* self.username
  channel,   \* self.channel
  running,   \* self.running
  connected, \* self.connected
  attempts,  \* self._reconnect_attempts
  main,      \* run(): "start", "first" (its own reconnect loop), "loop", "quit"
             \* (in /quit), "leave" (its finally clause) or "exit"
  reader,    \* the last reader task: "none", "read", "cancel" (in its finally
             \* clause) or "done"
  redial,    \* the last reconnect loop: "none", "top" or "sleep"
  step,      \* disconnect(), called in "quit" and in "leave": "begin", "sent"
             \* (awaits the logout's drain()) or "closed" (awaits wait_closed())
  writer,    \* whether self.writer is set; it is the last connection's then
  stray,     \* a reconnect loop has connected while disconnect() was at "closed"
  link,      \* the connection: "none", "up", "silent" (the server is off the
             \* network, without a word) or "broken"
  toServer,  \* the requests under way,
  toClient,  \* and the answers
  serverUp,  \* the server can be reached
  session,   \* [user, room]: the session of this connection in the server
  held,      \* the names that sessions of earlier connections hold
  slip       \* what the client has missed since it last heard where it is:
             \* "none", "out" (a logout) or "reset" (it took a reset for it)

shown  == <<username, channel, slip>>
hangup == <<step, writer, stray>>
tasks  == <<running, connected, attempts, main, reader, redial, hangup>>
wire   == <<link, toServer, toClient>>
server == <<serverUp, session, held>>
vars   == <<shown, tasks, wire, server>>

Requests ==
  [ask : {"login"}, user : Users] \cup [ask : {"join"}, room : Rooms]
    \cup [ask : {"register", "logout"}]

Answers ==
  [say : {"welcome"}, user : Users] \cup [say : {"joined"}, room : Rooms]
    \cup [say : {"registered", "out", "no"}]

Out == [user |-> None, room |-> General]

TypeOK ==
  /\ username \in Users \cup {None} /\ channel \in Rooms
  /\ running \in BOOLEAN /\ connected \in BOOLEAN
  /\ attempts \in 0..MaxAttempts
  /\ main \in {"start", "first", "loop", "quit", "leave", "exit"}
  /\ reader \in {"none", "read", "cancel", "done"}
  /\ redial \in {"none", "top", "sleep"}
  /\ step \in {"begin", "sent", "closed"} /\ {writer, stray} \subseteq BOOLEAN
  /\ link \in {"none", "up", "silent", "broken"}
  /\ toServer \in Seq(Requests) /\ toClient \in Seq(Answers)
  /\ serverUp \in BOOLEAN
  /\ session \in [user : Users \cup {None}, room : Rooms]
  /\ held \subseteq Users
  /\ slip \in {"none", "out", "reset"}

Init ==
  /\ username = None /\ channel = General /\ slip = "none"
  /\ running = TRUE /\ connected = FALSE /\ attempts = 0
  /\ main = "start" /\ reader = "none" /\ redial = "none"
  /\ step = "begin" /\ writer = FALSE /\ stray = FALSE
  /\ link = "none" /\ toServer = <<>> /\ toClient = <<>>
  /\ serverUp \in BOOLEAN /\ session = Out /\ held = {}

-----------------------------------------------------------------------------
(* Connecting                                                               *)

\* The connection has ended for the client.  Until the server sees that, its
\* session holds a name: the one it had, or that of a login it still reads.
Abandoned ==
  LET logins == {i \in DOMAIN toServer : toServer[i].ask = "login"}
      names  == {session.user} \cup {toServer[i].user : i \in logins}
  IN  \E u \in names \cup {None} : held' = (held \cup {u}) \ {None}

\* connect() succeeds.
Connected ==
  /\ serverUp
  /\ connected' = TRUE /\ attempts' = 0 /\ writer' = TRUE
  /\ link' = "up" /\ toServer' = <<>> /\ toClient' = <<>>
  /\ session' = Out

Start ==
  /\ main = "start"
  /\ \/ /\ Connected
        /\ main' = "loop" /\ reader' = "read"
        /\ UNCHANGED redial
     \/ /\ ~serverUp
        /\ main' = "first" /\ redial' = "top"
        /\ UNCHANGED <<connected, attempts, reader, writer, wire, session>>
  /\ UNCHANGED <<shown, running, step, stray, serverUp, held>>

\* The head of _reconnect_loop.
RedialEnds ==
  /\ redial = "top"
  /\ ~running \/ connected \/ attempts >= MaxAttempts
  /\ redial' = "none"
  /\ UNCHANGED <<shown, running, connected, attempts, main, reader, hangup, wire, server>>

Redial ==
  /\ redial = "top"
  /\ running /\ ~connected /\ attempts < MaxAttempts
  /\ attempts' = attempts + 1
  /\ redial' = "sleep"
  /\ UNCHANGED <<shown, running, connected, main, reader, hangup, wire, server>>

\* Mutant: the first attempt that fails is the last.
DialOnce ==
  /\ redial = "sleep"
  /\ redial' = "none"
  /\ \/ Connected
     \/ ~serverUp /\ UNCHANGED <<connected, attempts, writer, wire, session>>
  /\ UNCHANGED <<shown, running, main, reader, step, stray, serverUp, held>>

\* The delay is over; nobody looks at self.running again.
Dial ==
  /\ redial = "sleep"
  /\ \/ Connected /\ redial' = "none" /\ stray' = (stray \/ step = "closed")
     \/ /\ ~serverUp /\ redial' = "top"
        /\ UNCHANGED <<connected, attempts, writer, stray, wire, session>>
  /\ UNCHANGED <<shown, running, main, reader, step, serverUp, held>>

\* run() goes on after its own reconnect loop.
FirstDone ==
  /\ main = "first" /\ redial = "none"
  /\ IF connected
     THEN main' = "loop" /\ reader' = "read"
     ELSE main' = "exit" /\ UNCHANGED reader
  /\ UNCHANGED <<shown, running, connected, attempts, redial, hangup, wire, server>>

-----------------------------------------------------------------------------
(* The reader loop                                                          *)

\* A message is read; having handled it, the reader ends if the client does.
Takes(say) ==
  /\ reader = "read"
  /\ toClient # <<>> /\ Head(toClient).say = say
  /\ toClient' = Tail(toClient)
  /\ reader' = IF running /\ connected THEN "read" ELSE "done"
  /\ connected' = (running /\ connected)
  /\ UNCHANGED <<running, attempts, main, redial, hangup, link, toServer, server>>

\* AUTH_RESPONSE with success, after a login,
OnWelcome ==
  /\ Takes("welcome")
  /\ username' = Head(toClient).user
  /\ channel' = General
  /\ slip' = "none"

\* Mutant: the missing channel of the answer is taken as it is.
OnRegisteredNone ==
  /\ Takes("registered")
  /\ channel' = None
  /\ slip' = "none"
  /\ UNCHANGED username

\* and after a registration, when it names neither user nor channel.
OnRegistered ==
  /\ Takes("registered")
  /\ channel' = General
  /\ slip' = IF username # None /\ slip = "none" THEN "reset" ELSE slip
  /\ UNCHANGED username

\* SYSTEM_MSG with a channel.
OnJoined ==
  /\ Takes("joined")
  /\ channel' = Head(toClient).room
  /\ slip' = IF slip = "reset" THEN "none" ELSE slip
  /\ UNCHANGED username

\* SYSTEM_MSG without one: the client does not look at what it says.
OnOut ==
  /\ Takes("out")
  /\ slip' = "out"
  /\ UNCHANGED <<username, channel>>

OnRefused == Takes("no") /\ UNCHANGED shown

\* Mutant: the user's name survives the connection.
ReaderEndsKeepsName ==
  /\ reader = "read"
  /\ link \in {"none", "broken"} /\ toClient = <<>>
  /\ connected' = FALSE
  /\ reader' = IF running /\ connected THEN "cancel" ELSE "done"
  /\ UNCHANGED <<shown, running, attempts, main, redial, hangup, wire, server>>

\* The end of the stream, and most of the finally clause.
ReaderEnds ==
  /\ reader = "read"
  /\ link \in {"none", "broken"} /\ toClient = <<>>
  /\ connected' = FALSE
  /\ IF running /\ connected
     THEN reader' = "cancel" /\ username' = None /\ slip' = "none"
     ELSE reader' = "done" /\ UNCHANGED <<username, slip>>
  /\ UNCHANGED <<channel, running, attempts, main, redial, hangup, wire, server>>

\* _cancel_all_transfers is through (module Transfer); a reconnect loop is started.
ReaderCancelled ==
  /\ reader = "cancel"
  /\ reader' = "done"
  /\ redial' = "top"
  /\ UNCHANGED <<shown, running, connected, attempts, main, hangup, wire, server>>

\* Mutant: a new reader starts whether connected or not.
RestartReaderAnyway ==
  /\ main = "loop" /\ running /\ reader = "done"
  /\ reader' = "read"
  /\ UNCHANGED <<shown, running, connected, attempts, main, redial, hangup, wire, server>>

\* Mutant: the first reader is the only one.
RestartReaderOnce ==
  /\ main = "loop" /\ running /\ connected /\ reader = "none"
  /\ reader' = "read"
  /\ UNCHANGED <<shown, running, connected, attempts, main, redial, hangup, wire, server>>

\* The main loop looks for a dead reader every half second.
RestartReader ==
  /\ main = "loop" /\ running /\ connected /\ reader = "done"
  /\ reader' = "read"
  /\ UNCHANGED <<shown, running, connected, attempts, main, redial, hangup, wire, server>>

-----------------------------------------------------------------------------
(* Commands                                                                 *)

\* A request is written; if the connection has ended unnoticed, it is lost, and
\* if the server is silent, the kernel gives up on the connection some day.
Type(request) ==
  /\ main = "loop" /\ running /\ connected
  /\ Len(toServer) + Len(toClient) < InFlight
  /\ toServer' = IF link = "up" THEN Append(toServer, request) ELSE toServer
  /\ link' = IF link = "silent" THEN "broken" ELSE link
  /\ UNCHANGED <<shown, tasks, toClient, server>>

\* /quit, or end of input, which skips the transfers.
Quit ==
  /\ main = "loop"
  /\ running' = FALSE
  /\ main' \in {"quit", "leave"}
  /\ UNCHANGED <<shown, connected, attempts, reader, redial, hangup, wire, server>>

\* disconnect(), for /quit and once more at the end of run().
Disconnects == main \in {"quit", "leave"}
Logout == connected /\ username # None /\ writer

SendLogout ==
  /\ Disconnects /\ step = "begin"
  /\ Logout
  /\ step' = "sent"
  /\ toServer' = IF link = "up" THEN Append(toServer, [ask |-> "logout"]) ELSE toServer
  /\ UNCHANGED <<shown, running, connected, attempts, main, reader, redial, writer, stray,
                 link, toClient, server>>

Disconnected ==
  /\ step' = "begin"
  /\ main' = IF main = "quit" THEN "leave" ELSE "exit"

\* The server reads what was under way and then the end of the stream.
CloseWriter ==
  /\ Disconnects
  /\ step = "sent" \/ (step = "begin" /\ ~Logout)
  /\ connected' = FALSE /\ username' = None /\ slip' = "none"
  /\ IF writer
     THEN /\ link' = "none" /\ toServer' = <<>> /\ toClient' = <<>>
          /\ Abandoned /\ session' = Out
          /\ step' = "closed" /\ UNCHANGED main
     ELSE Disconnected /\ UNCHANGED <<wire, session, held>>
  /\ UNCHANGED <<channel, running, attempts, reader, redial, writer, stray, serverUp>>

\* wait_closed() is over: whatever self.writer is now is dropped.
DropWriter ==
  /\ Disconnects /\ step = "closed"
  /\ writer' = FALSE
  /\ Disconnected
  /\ UNCHANGED <<shown, running, connected, attempts, reader, redial, stray, wire, server>>

-----------------------------------------------------------------------------
(* The server                                                               *)

Reads(ask) ==
  /\ link = "up" /\ toServer # <<>> /\ Head(toServer).ask = ask
  /\ toServer' = Tail(toServer)
  /\ UNCHANGED <<shown, tasks, link, serverUp, held>>

Says(answer) == toClient' = Append(toClient, answer)

\* A login may also fail for the password, or for a session on another machine.
HandleLogin ==
  LET u == Head(toServer).user IN
  /\ Reads("login")
  /\ \/ /\ session.user = None /\ u \notin held
        /\ session' = [user |-> u, room |-> General]
        /\ Says([say |-> "welcome", user |-> u])
     \/ Says([say |-> "no"]) /\ UNCHANGED session

HandleRegister ==
  /\ Reads("register")
  /\ \E say \in {"registered", "no"} : Says([say |-> say])
  /\ UNCHANGED session

\* Also /leave; the answer names the channel.
HandleJoin ==
  LET r == Head(toServer).room IN
  /\ Reads("join")
  /\ IF session.user # None /\ session.room # r
     THEN session' = [session EXCEPT !.room = r] /\ Says([say |-> "joined", room |-> r])
     ELSE Says([say |-> "no"]) /\ UNCHANGED session

HandleLogout ==
  /\ Reads("logout")
  /\ session' = Out
  /\ Says([say |-> IF session.user # None THEN "out" ELSE "no"])

\* The server sees that an earlier connection is gone.
Cleanup(u) ==
  /\ u \in held
  /\ held' = held \ {u}
  /\ UNCHANGED <<shown, tasks, wire, serverUp, session>>

-----------------------------------------------------------------------------
(* Faults                                                                   *)

\* The connection breaks, or the server closes it.  The client may still read
\* the first of the answers under way, the server the first of the requests.
Break ==
  /\ link = "up"
  /\ link' = "broken"
  /\ toServer' = <<>>
  /\ \E k \in 0..Len(toClient) : toClient' = SubSeq(toClient, 1, k)
  /\ Abandoned
  /\ session' = Out
  /\ UNCHANGED <<shown, tasks, serverUp>>

\* Server or client drops off the network.
Silence ==
  /\ link = "up"
  /\ link' = "silent"
  /\ toServer' = <<>> /\ toClient' = <<>>
  /\ serverUp' = FALSE
  /\ Abandoned
  /\ session' = Out
  /\ UNCHANGED <<shown, tasks>>

ServerStops ==
  /\ serverUp
  /\ serverUp' = FALSE
  /\ link' = IF link = "up" THEN "broken" ELSE link
  /\ toServer' = <<>>
  /\ session' = Out /\ held' = {}
  /\ UNCHANGED <<shown, tasks, toClient>>

\* It is back on the network, or has been started again.
ServerStarts ==
  /\ ~serverUp
  /\ serverUp' = TRUE
  /\ held' \in {held, {}}
  /\ UNCHANGED <<shown, tasks, wire, session>>

-----------------------------------------------------------------------------
Reader ==
  \/ OnWelcome \/ OnRegistered \/ OnJoined \/ OnOut \/ OnRefused
  \/ ReaderEnds \/ ReaderCancelled

Reconnect == Redial \/ RedialEnds \/ Dial

MainLoop == Start \/ FirstDone \/ RestartReader \/ SendLogout \/ CloseWriter \/ DropWriter

Server == HandleLogin \/ HandleRegister \/ HandleJoin \/ HandleLogout

Next ==
  \/ /\ main # "exit"
     /\ \/ Reader \/ Reconnect \/ MainLoop \/ Server
        \/ \E request \in Requests : Type(request)
        \/ \E u \in Users : Cleanup(u)
        \/ Quit \/ Break \/ Silence \/ ServerStops \/ ServerStarts
  \/ main = "exit" /\ UNCHANGED vars

Spec == Init /\ [][Next]_vars

\* The client's event loop runs its tasks.
Fairness == WF_vars(Reader) /\ WF_vars(Reconnect) /\ WF_vars(MainLoop)

FairSpec == Spec /\ Fairness

-----------------------------------------------------------------------------
(* Properties                                                               *)

\* Nothing is under way, and the client reads.
Settled == link = "up" /\ reader = "read" /\ toServer = <<>> /\ toClient = <<>>

\* The prompt shows the user and the channel that the server has for this
\* connection, whatever logins, joins and lost connections came before
\* (client.py:96-99, 216-222, 237-250).  But the client does not know a logout for
\* what it is (server.py:541), and it takes the answer to /register for one to
\* /login, and shows the default channel (client.py:241).
PromptTrue ==
  Settled /\ running =>
    /\ username # session.user => slip = "out" /\ session.user = None
    /\ session.user # None /\ channel # session.room => slip = "reset"

\* There is never a connection too many.  No reconnect loop runs next to a reader:
\* they would set reader and writer under each other (client.py:170-191, 219-220,
\* 881).  And a client that has ended has closed every connection it made, even if
\* /quit came in the middle of a reconnect, which does not look at self.running once
\* it has slept (client.py:182-187, 780-783, 898-905); unless that reconnect got
\* through while disconnect() awaited the end of the old connection, for then its
\* writer is dropped unclosed (client.py:157-162).
OneConnection ==
  /\ redial = "sleep" => ~connected /\ reader \in {"none", "done"}
  /\ main = "exit" /\ link # "none" => stray

\* "Automatic client reconnect" (README.md:15): when the server is there to stay,
\* a client that has lost it is connected again, unless it has given up: after
\* RECONNECT_MAX_ATTEMPTS nothing dials again, though the user is told to "retry
\* later" (client.py:175).  (A server that has gone silent is not noticed as long as
\* the user types nothing: the client sends no pings.)
GaveUp == redial = "none" /\ attempts = MaxAttempts /\ ~connected

Reconnects ==
  (<>[]serverUp) => (main = "loop" /\ ~connected ~> connected \/ GaveUp \/ main # "loop")

\* A connection is always read again: the main loop starts a new reader, after
\* the old one has come to its end (client.py:880-882).
Attended == main = "loop" /\ connected ~> reader = "read" \/ ~connected \/ main # "loop"
=============================================================================
