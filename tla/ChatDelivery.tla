---------------------------- MODULE ChatDelivery ----------------------------
(* What the server writes to whom: public and private messages, history,    *)
(* and the notices of who came and went.  The session registry is taken as  *)
(* module ChatServer leaves it: a user is logged in on one connection, in   *)
(* one channel, and the member lists agree with the sessions.               *)
(*                                                                          *)
(* A handler does the first section of a request in one step and owes the   *)
(* rest: job[c] lists, in order, what the handler of c has still to do.     *)
(* Between any two of these steps other handlers run.                       *)
EXTENDS Naturals, Sequences, FiniteSets

CONSTANTS
  Conns,       \* the connections, all accepted
  Users,       \* the accounts
  Rooms,       \* the channels
  General,     \* config.DEFAULT_CHANNEL
  None,        \* Python's None
  Recent,      \* config.HISTORY_DEFAULT_LIMIT
  HistoryMax,  \* the most rows get_history reads (500)
  FrameMax,    \* how many messages fit in one frame (MAX_MESSAGE_SIZE)
  Fragile,     \* bound: the connections that may break ...
  Flaky,       \* ... and those that then break a send to them
  MaxSaid,     \* bound: messages
  MaxAsked     \* bound: requests in all

ASSUME GeneralAssumption == General \in Rooms
ASSUME NoneAssumption ==
  /\ None \notin Users \cup Rooms
  /\ \A ids \in SUBSET (1..MaxSaid) : None # ids
ASSUME KindsAssumption == Users \cap Rooms = {}   \* two columns of a row
ASSUME LimitsAssumption == {Recent, HistoryMax} \subseteq Nat \ {0} /\ FrameMax \in Nat
ASSUME BoundsAssumption == {MaxSaid, MaxAsked} \subseteq Nat

VARIABLES
  user,     \* user[c]: who is logged in on c, as self.sessions has it
  room,     \* session.channel
  state,    \* the handler of c; "error" and "cut" once it has raised
  whole,    \* whole[c]: the client is still there to read
  job,      \* job[c]: what the handler of c has still to do
  said,     \* the messages accepted so far, in the order of their row ids
  live,     \* live[c]: the messages written to c since it was told where it is,
  frame,    \* the history it got on arrival there,
  notices,  \* and the notices about that channel
  moves     \* the requests so far that are not messages

session == <<user, room>>
wire    == <<live, frame, notices>>
vars    == <<session, state, whole, job, said, wire, moves>>

Ids == 1..Len(said)

\* The rows of channel r (a private message has none).
Rows(r) == {i \in Ids : said[i].to = r}

\* Mutant: ORDER BY id LIMIT n.
Oldest(S, n) == {i \in S : Cardinality({j \in S : j < i}) < n}

\* ORDER BY id DESC LIMIT n.
Latest(S, n) == {i \in S : Cardinality({j \in S : j > i}) < n}

Message(i)   == [kind |-> "message", id |-> i]
Joined(u, r) == [kind |-> "joined", who |-> u, room |-> r]
Left(u, r)   == [kind |-> "left", who |-> u, room |-> r]
History(ids) == [kind |-> "history", ids |-> ids]
You(r)       == [kind |-> "you", room |-> r]

Notices == [kind : {"joined", "left"}, who : Users, room : Rooms]

Items ==
  Notices
    \cup [kind : {"message"}, id : 1..MaxSaid]
    \cup [kind : {"you"}, room : Rooms]
    \cup [kind : {"history"}, ids : SUBSET (1..MaxSaid)]

Tasks ==
  [do : {"tell"}, room : Rooms, item : Items, but : Users \cup {None}]
    \cup [do : {"write"}, to : SUBSET Conns, item : Items]
    \cup [do : {"fetch"}, room : Rooms, limit : Nat]

TypeOK ==
  /\ user \in [Conns -> Users \cup {None}]
  /\ room \in [Conns -> Rooms]
  /\ state \in [Conns -> {"open", "error", "cut", "closed", "crashed"}]
  /\ whole \in [Conns -> BOOLEAN]
  /\ job \in [Conns -> Seq(Tasks)]
  /\ said \in Seq([from : Users, to : Rooms \cup Users, on : Conns])
  /\ Len(said) <= MaxSaid
  /\ live \in [Conns -> SUBSET Ids]
  /\ frame \in [Conns -> {None} \cup SUBSET Ids]
  /\ notices \in [Conns -> Seq(Notices)]
  /\ moves \in 0..MaxAsked

Init ==
  /\ user = [c \in Conns |-> None]
  /\ room = [c \in Conns |-> General]
  /\ state = [c \in Conns |-> "open"]
  /\ whole = [c \in Conns |-> TRUE]
  /\ job = [c \in Conns |-> <<>>]
  /\ said = <<>>
  /\ live = [c \in Conns |-> {}]
  /\ frame = [c \in Conns |-> None]
  /\ notices = [c \in Conns |-> <<>>]
  /\ moves = 0

-----------------------------------------------------------------------------
(* The parts of a request                                                   *)

\* _broadcast_channel up to the member list; _send_history up to the rows;
\* and the sends of an item to the connections in D that are still to come.
Tell(r, item, but) == <<[do |-> "tell", room |-> r, item |-> item, but |-> but]>>
Fetch(r, n) == <<[do |-> "fetch", room |-> r, limit |-> n]>>
Sends(D, item) == IF D = {} THEN <<>> ELSE <<[do |-> "write", to |-> D, item |-> item]>>

Owes(c, tasks) == job' = [job EXCEPT ![c] = tasks]

\* The first part of the job of c is of this kind, and gives way to others.
Doing(c, what) == job[c] # <<>> /\ Head(job[c]).do = what
Instead(c, tasks) == Owes(c, tasks \o Tail(job[c]))

Idle(c) == state[c] = "open" /\ job[c] = <<>>

Open(d) == state[d] \in {"open", "error", "cut"}

\* What d sees of an item.  What is written to a connection that is gone is
\* lost without a word.
Put(d, item) ==
  IF ~whole[d] \/ ~Open(d) THEN UNCHANGED wire
  ELSE \/ /\ item.kind = "you"
          /\ live' = [live EXCEPT ![d] = {}]
          /\ frame' = [frame EXCEPT ![d] = None]
          /\ notices' = [notices EXCEPT ![d] = <<>>]
       \/ /\ item.kind = "message"
          /\ live' = [live EXCEPT ![d] = @ \cup {item.id}]
          /\ UNCHANGED <<frame, notices>>
       \/ /\ item.kind = "history"
          /\ frame' = [frame EXCEPT ![d] = IF @ = None THEN item.ids ELSE @]
          /\ UNCHANGED <<live, notices>>
       \/ /\ item.kind \in {"joined", "left"}
          /\ notices' = [notices EXCEPT ![d] = Append(@, item)]
          /\ UNCHANGED <<live, frame>>

\* The members of a channel, less one user: their sessions, read under the lock.
Members(r, but) == {d \in Conns : user[d] \notin {None, but} /\ room[d] = r}

Snapshot(c) ==
  LET t == Head(job[c]) IN
  /\ Doing(c, "tell")
  /\ Instead(c, Sends(Members(t.room, t.but), t.item))
  /\ UNCHANGED <<session, state, whole, said, wire, moves>>

\* The handler raises, and _handle_client comes to its finally clause; what
\* raises in there ends the task.
Raise(c, how) ==
  /\ Owes(c, <<>>)
  /\ state' = [state EXCEPT ![c] = IF @ = "open" THEN how ELSE "crashed"]
  /\ UNCHANGED <<session, whole, said, wire>>

\* The thread reads the rows; encode_message refuses a frame that is too long.
ReadHistory(c) ==
  LET t   == Head(job[c])
      ids == Latest(Rows(t.room), t.limit)
  IN
  /\ Doing(c, "fetch")
  /\ IF Cardinality(ids) > FrameMax
     THEN Raise(c, "error") /\ UNCHANGED moves
     ELSE /\ Instead(c, Sends({c}, History(ids)))
          /\ UNCHANGED <<session, state, whole, said, wire, moves>>

\* The sends of a broadcast go out one by one.
SendOne(c, d) ==
  LET t == Head(job[c]) IN
  /\ Doing(c, "write") /\ d \in t.to
  /\ Put(d, t.item)
  /\ Instead(c, Sends(t.to \ {d}, t.item))
  /\ UNCHANGED <<session, state, whole, said, moves>>

\* An OSError that is no ConnectionError: the rest of the request is skipped.
SendRaises(c, d) ==
  /\ Doing(c, "write") /\ d \in Head(job[c]).to
  /\ d \in Flaky /\ ~whole[d] /\ Open(d)
  /\ Raise(c, "cut")
  /\ UNCHANGED moves

-----------------------------------------------------------------------------
(* Requests                                                                 *)

More == moves + Len(said) < MaxAsked

Moves == More /\ moves' = moves + 1

\* What a newcomer to channel r gets once it is answered, and the others are told.
Arrival(u, r) == Fetch(r, Recent) \o Tell(r, Joined(u, r), u)

\* The account is logged in nowhere else.  The answer goes out with no await.
Login(c, u) ==
  /\ Idle(c) /\ user[c] = None
  /\ \A d \in Conns : user[d] # u
  /\ Moves
  /\ user' = [user EXCEPT ![c] = u]
  /\ room' = [room EXCEPT ![c] = General]
  /\ Put(c, You(General))
  /\ Owes(c, Arrival(u, General))
  /\ UNCHANGED <<state, whole, said>>

\* Mutant: session.channel is reset to None.
LogoutNoRoom(c) ==
  /\ Idle(c) /\ user[c] # None
  /\ Moves
  /\ user' = [user EXCEPT ![c] = None]
  /\ room' = [room EXCEPT ![c] = None]
  /\ Owes(c, Tell(room[c], Left(user[c], room[c]), None))
  /\ UNCHANGED <<state, whole, said, wire>>

\* The farewell makes no exception for a newer session of the user.
Logout(c) ==
  /\ Idle(c) /\ user[c] # None
  /\ Moves
  /\ user' = [user EXCEPT ![c] = None]
  /\ room' = [room EXCEPT ![c] = General]
  /\ Owes(c, Tell(room[c], Left(user[c], room[c]), None))
  /\ UNCHANGED <<state, whole, said, wire>>

\* /leave is a /join of General.
Join(c, r) ==
  /\ Idle(c) /\ user[c] # None /\ room[c] # r
  /\ Moves
  /\ room' = [room EXCEPT ![c] = r]
  /\ Owes(c, Tell(room[c], Left(user[c], room[c]), user[c])
               \o Sends({c}, You(r)) \o Arrival(user[c], r))
  /\ UNCHANGED <<user, state, whole, said, wire>>

Says(c, to) ==
  /\ Idle(c) /\ user[c] # None /\ More /\ Len(said) < MaxSaid
  /\ said' = Append(said, [from |-> user[c], to |-> to, on |-> c])

Newest == Message(Len(said) + 1)

\* Mutant: a message does not wait until the one before it is out.
PublicAhead(c) ==
  /\ state[c] = "open" /\ user[c] # None /\ More /\ Len(said) < MaxSaid
  /\ said' = Append(said, [from |-> user[c], to |-> room[c], on |-> c])
  /\ Owes(c, Tell(room[c], Newest, None) \o job[c])
  /\ UNCHANGED <<session, state, whole, wire, moves>>

\* The row is committed by a thread; the broadcast comes later.
Public(c) ==
  /\ Says(c, room[c])
  /\ Owes(c, Tell(room[c], Newest, None))
  /\ UNCHANGED <<session, state, whole, wire, moves>>

\* The target is found and written to without an await in between; the echo
\* comes when the write has drained.
Private(c, u) ==
  /\ Says(c, u)
  /\ \E d \in Conns : user[d] = u /\ Put(d, Newest)
  /\ Owes(c, Sends({c}, Newest))
  /\ UNCHANGED <<session, state, whole, moves>>

\* The write to the target raises: there is no echo, and the handler comes to its
\* finally clause.
PrivateRaises(c, u) ==
  /\ Idle(c) /\ user[c] # None /\ Moves
  /\ \E d \in Conns : user[d] = u /\ d \in Flaky /\ ~whole[d] /\ Open(d)
  /\ Raise(c, "cut")

\* /history n, n being held between 1 and 500.
CmdHistory(c, n) ==
  /\ Idle(c) /\ user[c] # None
  /\ Moves
  /\ Owes(c, Fetch(room[c], IF n < 1 THEN 1 ELSE IF n > HistoryMax THEN HistoryMax ELSE n))
  /\ UNCHANGED <<session, state, whole, said, wire>>

-----------------------------------------------------------------------------
(* Ends                                                                     *)

\* The client closes, vanishes, or is closed by the heartbeat.
Break(c) ==
  /\ c \in Fragile /\ state[c] = "open" /\ whole[c]
  /\ whole' = [whole EXCEPT ![c] = FALSE]
  /\ UNCHANGED <<session, state, job, said, wire, moves>>

\* Mutant: the farewell goes to the default channel.
CleanupGeneral(c) ==
  /\ state[c] \in {"error", "cut"} \/ (Idle(c) /\ ~whole[c])
  /\ state' = [state EXCEPT ![c] = IF @ = "cut" THEN "crashed" ELSE "closed"]
  /\ user' = [user EXCEPT ![c] = None]
  /\ Owes(c, IF user[c] = None THEN <<>>
             ELSE Tell(General, Left(user[c], General), user[c]))
  /\ UNCHANGED <<room, whole, said, wire, moves>>

Cleanup(c) ==
  /\ state[c] \in {"error", "cut"} \/ (Idle(c) /\ ~whole[c])
  /\ state' = [state EXCEPT ![c] = IF @ = "cut" THEN "crashed" ELSE "closed"]
  /\ user' = [user EXCEPT ![c] = None]
  /\ Owes(c, IF user[c] = None THEN <<>>
             ELSE Tell(room[c], Left(user[c], room[c]), user[c]))
  /\ UNCHANGED <<room, whole, said, wire, moves>>

-----------------------------------------------------------------------------
Step(c) ==
  \/ Snapshot(c) \/ ReadHistory(c)
  \/ \E d \in Conns : SendOne(c, d) \/ SendRaises(c, d)
  \/ Cleanup(c)

Ask(c) ==
  \/ Logout(c) \/ Public(c) \/ Break(c)
  \/ \E u \in Users : Login(c, u) \/ Private(c, u) \/ PrivateRaises(c, u)
  \/ \E r \in Rooms : Join(c, r)
  \/ \E n \in {0, HistoryMax + 1} : CmdHistory(c, n)

\* The clients ask for nothing, and no handler has anything left to do.
Rest ==
  /\ \A c \in Conns : job[c] = <<>> /\ state[c] \in {"open", "closed", "crashed"}
  /\ UNCHANGED vars

Next == (\E c \in Conns : Step(c) \/ Ask(c)) \/ Rest

Spec == Init /\ [][Next]_vars

-----------------------------------------------------------------------------
(* Properties                                                               *)

\* A broadcast of message i that has yet to reach c.
Coming(i, c) ==
  \E d \in Conns : \E k \in DOMAIN job[d] :
    LET t == job[d][k] IN
    /\ t.do # "fetch" /\ t.item = Message(i)
    /\ t.do = "write" => c \in t.to

\* A user at rest in a channel.
Settled(c) == Idle(c) /\ whole[c] /\ user[c] # None

\* A message is saved and broadcast in two steps, and a newcomer becomes a
\* member, reads the history and is sent it in three (server.py:422-434, 587-624):
\* whatever the order, a user at rest in a channel has, or is about to get, every
\* message of it but those that HISTORY_DEFAULT_LIMIT newer ones push out of the
\* history.  (An OSError out of another member's send cuts a broadcast short.)
NoGap ==
  \A c \in Conns : Settled(c) =>
    \A i \in Rows(room[c]) :
      \/ i \in live[c] \cup frame[c]
      \/ Cardinality({j \in frame[c] : j > i}) >= Recent
      \/ Coming(i, c)
      \/ state[said[i].on] \in {"cut", "crashed"}

\* The messages of one user, public and private, reach each client in the order
\* they were accepted, although broadcasts take turns and the user may come back
\* on another connection in between: a handler starts on a request when the one
\* before is done, and cleanup comes last (server.py:196-222, 1067).
SenderOrder ==
  [][ \A c \in Conns : \A i \in live'[c] \ live[c], j \in live[c] :
        said'[i].from = said'[j].from => j < i ]_vars

\* Of two users at rest in a channel, one was told that the other joined: the
\* member is added before the members are told (server.py:365-391, 602-624), so
\* two arrivals that overlap cannot miss each other.
ArrivalTold ==
  \A c, d \in Conns :
    c # d /\ Settled(c) /\ Settled(d) /\ room[c] = room[d] =>
      \/ \E k \in DOMAIN notices[c] : notices[c][k] = Joined(user[d], room[c])
      \/ \E k \in DOMAIN notices[d] : notices[d][k] = Joined(user[c], room[c])

\* The k-th notice c got is the last about that user and c's channel.
LastAbout(c, k) ==
  /\ notices[c][k].room = room[c]
  /\ \A j \in DOMAIN notices[c] :
       j > k => notices[c][j].who # notices[c][k].who \/ notices[c][j].room # room[c]

\* Every handler is done, and none was ended by a send to another client.
Calm == \A d \in Conns : job[d] = <<>> /\ state[d] \in {"open", "closed"}

\* When all is done, nobody whose "joined" was the last a member heard of them is
\* gone, however logins, moves, logouts and lost connections overlapped.  (The
\* reverse fails: "left the chat", told after the entry is gone, may come after
\* the "joined" of the user's next login: server.py:240, 541.)
NoGhost ==
  Calm =>
    \A c \in Conns : Settled(c) =>
      \A k \in DOMAIN notices[c] : LastAbout(c, k) /\ notices[c][k].kind = "joined" =>
        \E d \in Conns : user[d] = notices[c][k].who /\ room[d] = room[c]

\* The notices add up: arrivals that overlap do not miss each other, and nobody
\* is shown as present who has left (server.py:238-247, 365-391, 524-546, 602-624).
NoticesTrue == ArrivalTold /\ NoGhost

\* "SQLite message history (last 50 messages on channel join)" (README.md:13): no
\* client is thrown out in place of being sent the history.
HistoryShown ==
  \A c \in Conns :
    user[c] # None /\ whole[c] /\ state[c] = "error" => frame[c] # None
=============================================================================
