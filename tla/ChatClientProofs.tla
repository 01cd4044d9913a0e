-------------------------- MODULE ChatClientProofs --------------------------
(* Proofs about ChatClient for any accounts, channels, number of attempts   *)
(* and number of messages under way.                                        *)
EXTENDS ChatClient, SequenceTheorems, TLAPS

-----------------------------------------------------------------------------
(* Types.                                                                   *)

\* The name that an abandoned connection leaves held is an account.
LEMMA HeldType ==
  ASSUME TypeOK, Abandoned PROVE held' \subseteq Users
<1>1. ASSUME NEW i \in DOMAIN toServer, toServer[i].ask = "login"
      PROVE  toServer[i].user \in Users
  <2>1. toServer[i] \in Requests
    BY DEF TypeOK
  <2> QED
    BY <1>1, <2>1 DEF Requests
<1> QED
  BY <1>1 DEF Abandoned, TypeOK

\* What the server reads and the client takes.
LEMMA HeadType ==
  ASSUME TypeOK
  PROVE  /\ toServer # <<>> => /\ Head(toServer) \in Requests /\ Tail(toServer) \in Seq(Requests)
                               /\ Head(toServer).ask = "login" => Head(toServer).user \in Users
                               /\ Head(toServer).ask = "join" => Head(toServer).room \in Rooms
         /\ toClient # <<>> => /\ Head(toClient) \in Answers /\ Tail(toClient) \in Seq(Answers)
                               /\ Head(toClient).say = "welcome" => Head(toClient).user \in Users
                               /\ Head(toClient).say = "joined" => Head(toClient).room \in Rooms
BY DEF TypeOK, Requests, Answers

\* Every answer the server gives is one.
LEMMA SaysType ==
  ASSUME TypeOK, NEW answer \in Answers, Says(answer)
  PROVE  toClient' \in Seq(Answers)
BY DEF TypeOK, Says

\* The main loop and the reconnect loop.
LEMMA TypeTasks ==
  ASSUME TypeOK
  PROVE  MainLoop \/ Reconnect \/ Quit => TypeOK'
<1>1. /\ Out \in [user : Users \cup {None}, room : Rooms]
      /\ <<>> \in Seq(Requests) /\ <<>> \in Seq(Answers)
  BY GeneralAssumption DEF Out
<1>0. 0 \in 0..MaxAttempts
  BY AttemptsAssumption
<1>2. Start => TypeOK'
  <2>1. Start /\ Connected => TypeOK'
    BY <1>1, <1>0 DEF TypeOK, Start, Connected, shown
  <2>2. Start /\ ~serverUp => TypeOK'
    BY <1>1, <1>0 DEF TypeOK, Start, Connected, shown, wire
  <2> QED
    BY <2>1, <2>2 DEF Start
<1>3. FirstDone => TypeOK'
  BY DEF TypeOK, FirstDone, hangup, shown, wire, server
<1>4. RestartReader => TypeOK'
  BY DEF TypeOK, RestartReader, hangup, shown, wire, server
<1>5. SendLogout => TypeOK'
  <2>1. [ask |-> "logout"] \in Requests
    BY DEF Requests
  <2> QED
    BY <2>1 DEF TypeOK, SendLogout, shown, server
<1>6. CloseWriter => TypeOK'
  <2>1. CloseWriter /\ writer => TypeOK'
    BY <1>1, HeldType DEF TypeOK, CloseWriter
  <2>2. CloseWriter /\ ~writer => TypeOK'
    BY DEF TypeOK, CloseWriter, Disconnected, wire
  <2> QED
    BY <2>1, <2>2
<1>11. DropWriter => TypeOK'
  BY DEF TypeOK, DropWriter, Disconnected, shown, wire, server
<1>7. Redial => TypeOK'
  BY AttemptsAssumption DEF TypeOK, Redial, hangup, shown, wire, server
<1>8. RedialEnds => TypeOK'
  BY DEF TypeOK, RedialEnds, hangup, shown, wire, server
<1>9. Dial => TypeOK'
  <2>1. Dial /\ Connected => TypeOK'
    BY <1>1, <1>0 DEF TypeOK, Dial, Connected, shown
  <2>2. Dial /\ ~serverUp => TypeOK'
    BY <1>1, <1>0 DEF TypeOK, Dial, Connected, shown, wire
  <2> QED
    BY <2>1, <2>2 DEF Dial
<1>10. Quit => TypeOK'
  BY DEF TypeOK, Quit, hangup, shown, wire, server
<1> QED
  BY <1>2, <1>3, <1>4, <1>5, <1>6, <1>7, <1>8, <1>9, <1>10, <1>11
     DEF MainLoop, Reconnect

\* The reader loop.
LEMMA TypeReader ==
  ASSUME TypeOK
  PROVE  Reader => TypeOK'
<1>1. OnWelcome => TypeOK'
  BY HeadType, GeneralAssumption DEF TypeOK, OnWelcome, Takes, hangup, server
<1>2. OnRegistered => TypeOK'
  BY HeadType, GeneralAssumption DEF TypeOK, OnRegistered, Takes, hangup, server
<1>3. OnJoined => TypeOK'
  BY HeadType DEF TypeOK, OnJoined, Takes, hangup, server
<1>4. OnOut => TypeOK'
  BY HeadType DEF TypeOK, OnOut, Takes, hangup, server
<1>5. OnRefused => TypeOK'
  BY HeadType DEF TypeOK, OnRefused, Takes, shown, hangup, server
<1>6. ReaderEnds => TypeOK'
  BY DEF TypeOK, ReaderEnds, hangup, wire, server
<1>7. ReaderCancelled => TypeOK'
  BY DEF TypeOK, ReaderCancelled, hangup, shown, wire, server
<1> QED
  BY <1>1, <1>2, <1>3, <1>4, <1>5, <1>6, <1>7 DEF Reader

\* The server's side.
LEMMA TypeServer ==
  ASSUME TypeOK, Server
  PROVE  TypeOK'
<1> USE HeadType, GeneralAssumption DEF shown, tasks, hangup, Reads
<1>1. CASE HandleLogin
  <2> DEFINE u == Head(toServer).user
  <2>1. u \in Users /\ [say |-> "welcome", user |-> u] \in Answers /\ [say |-> "no"] \in Answers
    BY <1>1 DEF HandleLogin, Answers
  <2>2. toClient' \in Seq(Answers)
    BY <1>1, <2>1, SaysType DEF HandleLogin
  <2> QED
    BY <1>1, <2>1, <2>2 DEF HandleLogin, TypeOK
<1>2. CASE HandleRegister
  <2>1. [say |-> "registered"] \in Answers /\ [say |-> "no"] \in Answers
    BY DEF Answers
  <2>2. toClient' \in Seq(Answers)
    BY <1>2, <2>1, SaysType DEF HandleRegister
  <2> QED
    BY <1>2, <2>2 DEF HandleRegister, TypeOK
<1>3. CASE HandleJoin
  <2> DEFINE r == Head(toServer).room
  <2>1. r \in Rooms /\ [say |-> "joined", room |-> r] \in Answers /\ [say |-> "no"] \in Answers
    BY <1>3 DEF HandleJoin, Answers
  <2>2. toClient' \in Seq(Answers)
    BY <1>3, <2>1, SaysType DEF HandleJoin
  <2> QED
    BY <1>3, <2>1, <2>2 DEF HandleJoin, TypeOK
<1>4. CASE HandleLogout
  <2>1. [say |-> "out"] \in Answers /\ [say |-> "no"] \in Answers
    BY DEF Answers
  <2>2. toClient' \in Seq(Answers)
    BY <1>4, <2>1, SaysType DEF HandleLogout
  <2> QED
    BY <1>4, <2>2 DEF HandleLogout, TypeOK, Out
<1> QED
  BY <1>1, <1>2, <1>3, <1>4 DEF Server

\* Commands and faults.
LEMMA TypeRest ==
  ASSUME TypeOK
  PROVE  /\ \A request \in Requests : Type(request) => TypeOK'
         /\ \A u \in Users : Cleanup(u) => TypeOK'
         /\ Break \/ Silence \/ ServerStops \/ ServerStarts => TypeOK'
         /\ UNCHANGED vars => TypeOK'
<1>1. /\ Out \in [user : Users \cup {None}, room : Rooms]
      /\ <<>> \in Seq(Requests) /\ <<>> \in Seq(Answers)
  BY GeneralAssumption DEF Out
<1>2. ASSUME NEW request \in Requests PROVE Type(request) => TypeOK'
  BY DEF TypeOK, Type, shown, tasks, hangup, server
<1>3. ASSUME NEW u \in Users PROVE Cleanup(u) => TypeOK'
  BY DEF TypeOK, Cleanup, shown, tasks, hangup, wire
<1>4. Break => TypeOK'
  <2>1. \A k \in 0..Len(toClient) : SubSeq(toClient, 1, k) \in Seq(Answers)
    BY SubSeqProperties DEF TypeOK
  <2> QED
    BY <1>1, <2>1, HeldType DEF TypeOK, Break, shown, tasks, hangup
<1>5. Silence => TypeOK'
  BY <1>1, HeldType DEF TypeOK, Silence, shown, tasks, hangup
<1>6. ServerStops => TypeOK'
  BY <1>1 DEF TypeOK, ServerStops, shown, tasks, hangup
<1>7. ServerStarts => TypeOK'
  BY DEF TypeOK, ServerStarts, shown, tasks, hangup, wire
<1>8. UNCHANGED vars => TypeOK'
  BY DEF TypeOK, vars, shown, tasks, hangup, wire, server
<1> QED
  BY <1>2, <1>3, <1>4, <1>5, <1>6, <1>7, <1>8

\* Every step keeps the types,
LEMMA TypeNext == TypeOK /\ [Next]_vars => TypeOK'
BY TypeTasks, TypeReader, TypeServer, TypeRest DEF Next

\* and they hold at the start.
LEMMA TypeInit == Init => TypeOK
<1>1. /\ Out \in [user : Users \cup {None}, room : Rooms]
      /\ <<>> \in Seq(Requests) /\ <<>> \in Seq(Answers)
  BY GeneralAssumption DEF Out
<1>2. 0 \in 0..MaxAttempts
  BY AttemptsAssumption
<1> QED
  BY <1>1, <1>2, GeneralAssumption DEF Init, TypeOK

\* Type correctness.
THEOREM TypeCorrect == Spec => []TypeOK
BY TypeInit, TypeNext, PTL DEF Spec

-----------------------------------------------------------------------------
(* The three tasks.                                                         *)

\* A reconnect loop runs only when no reader does, and only without a
\* connection; a client that has lost its connection shows no user.
LoopInv ==
  /\ main = "start" => redial = "none" /\ ~connected /\ running
  /\ main \in {"start", "first"} => reader = "none"
  /\ main \in {"quit", "leave"} => ~running
  /\ redial # "none" => ~connected /\ reader \in {"none", "done"}
  /\ reader = "cancel" => ~connected
  /\ running /\ ~connected => reader # "read" /\ username = None /\ slip = "none"

\* A connection that is not closed is the one whose writer self.writer is, but
\* for a stray one; before the client has ever been connected, there is none.
LinkInv ==
  /\ main = "start" => link = "none" /\ step = "begin"
  /\ main = "first" /\ ~connected => link = "none"
  /\ link # "none" /\ ~writer => stray
  /\ link # "none" /\ step = "closed" => stray
  /\ link # "none" /\ main = "exit" => stray

TaskInv == LoopInv /\ LinkInv

\* Every step of every task, of the server and of the network keeps it.
LEMMA TaskNext == TypeOK /\ TaskInv /\ [Next]_vars => TaskInv'
<1> SUFFICES ASSUME TypeOK, TaskInv, [Next]_vars PROVE TaskInv'
  OBVIOUS
<1> USE DEF TaskInv, LoopInv, LinkInv, shown, tasks, hangup, wire, server
<1>1. CASE main # "exit" /\ MainLoop
  <2>1. CASE Start \/ FirstDone \/ RestartReader
    BY <1>1, <2>1 DEF Start, FirstDone, RestartReader, Connected
  <2>2. CASE SendLogout
    BY <1>1, <2>2 DEF SendLogout, Disconnects
  <2>3. CASE CloseWriter
    BY <1>1, <2>3 DEF CloseWriter, Disconnects, Disconnected, TypeOK
  <2>4. CASE DropWriter
    BY <1>1, <2>4 DEF DropWriter, Disconnects, Disconnected
  <2> QED
    BY <1>1, <2>1, <2>2, <2>3, <2>4 DEF MainLoop
<1>2. CASE main # "exit" /\ Reconnect
  <2>1. CASE Redial \/ RedialEnds
    BY <1>2, <2>1 DEF Redial, RedialEnds
  <2>2. CASE Dial /\ Connected
    BY <1>2, <2>2 DEF Dial, Connected
  <2>3. CASE Dial /\ ~serverUp
    BY <1>2, <2>3 DEF Dial, Connected
  <2> QED
    BY <1>2, <2>1, <2>2, <2>3 DEF Reconnect, Dial
<1>3. CASE main # "exit" /\ Reader
  <2>1. CASE ReaderEnds \/ ReaderCancelled
    BY <1>3, <2>1 DEF ReaderEnds, ReaderCancelled
  <2>2. CASE OnWelcome \/ OnRegistered \/ OnJoined \/ OnOut \/ OnRefused
    <3>1. /\ reader = "read" /\ UNCHANGED <<running, main, redial, step, writer, stray, link>>
          /\ IF running /\ connected
             THEN reader' = "read" /\ connected' = connected
             ELSE reader' = "done" /\ connected' = FALSE
      BY <2>2 DEF OnWelcome, OnRegistered, OnJoined, OnOut, OnRefused, Takes, TypeOK
    <3> QED
      BY <1>3, <3>1
  <2> QED
    BY <1>3, <2>1, <2>2 DEF Reader
<1>4. CASE main # "exit" /\ (Server \/ \E u \in Users : Cleanup(u))
  BY <1>4 DEF Server, HandleLogin, HandleRegister, HandleJoin, HandleLogout, Reads, Cleanup
<1>5. ASSUME main # "exit", NEW request \in Requests, Type(request) PROVE TaskInv'
  BY <1>5 DEF Type
<1>6. CASE main # "exit" /\ (Quit \/ Break \/ Silence \/ ServerStops \/ ServerStarts)
  BY <1>6 DEF Quit, Break, Silence, ServerStops, ServerStarts, TypeOK
<1>7. CASE UNCHANGED vars
  BY <1>7 DEF vars
<1> QED
  BY <1>1, <1>2, <1>3, <1>4, <1>5, <1>6, <1>7 DEF Next

\* It holds from the start, before anything is connected.
LEMMA TaskCorrect == Spec => []TaskInv
<1>1. Init => TaskInv
  BY DEF Init, TaskInv, LoopInv, LinkInv
<1> QED
  BY <1>1, TaskNext, TypeCorrect, PTL DEF Spec

\* No reconnect loop runs next to a reader, and a client that has ended has closed
\* every connection it made, but for one that a reconnect loop made while
\* disconnect() awaited the end of the one before.
THEOREM NoneTooMany == Spec => []OneConnection
<1>1. TaskInv => OneConnection
  BY DEF TaskInv, LoopInv, LinkInv, OneConnection
<1> QED
  BY <1>1, TaskCorrect, PTL

-----------------------------------------------------------------------------
(* The prompt.                                                              *)

\* What the client shows, and what it has missed.
Views == [user : Users \cup {None}, room : Rooms, slip : {"none", "out", "reset"}]

Now == [user |-> username, room |-> channel, slip |-> slip]

\* What a client that shows v shows after the answer a.
After(v, a) ==
  IF a.say = "welcome" THEN [user |-> a.user, room |-> General, slip |-> "none"]
  ELSE IF a.say = "registered"
       THEN [user |-> v.user, room |-> General,
             slip |-> IF v.user # None /\ v.slip = "none" THEN "reset" ELSE v.slip]
  ELSE IF a.say = "joined"
       THEN [user |-> v.user, room |-> a.room,
             slip |-> IF v.slip = "reset" THEN "none" ELSE v.slip]
  ELSE IF a.say = "out" THEN [user |-> v.user, room |-> v.room, slip |-> "out"]
  ELSE v

\* With the answers in q, v becomes e: there are the views in between.
Becomes(v, q, e) ==
  \E f \in [0..Len(q) -> Views] :
    /\ f[0] = v
    /\ \A i \in 1..Len(q) : f[i] = After(f[i - 1], q[i])
    /\ f[Len(q)] = e

\* e is what PromptTrue allows a client to show when the server has session r.
Agrees(e, r) ==
  /\ e.user # r.user => e.slip = "out" /\ r.user = None
  /\ r.user # None => e.slip # "out"
  /\ r.user # None /\ e.room # r.room => e.slip = "reset"

\* When the client has read all that is under way, it shows what it should.
Replay ==
  running /\ link = "up" => \E e \in Views : Becomes(Now, toClient, e) /\ Agrees(e, session)

\* An answer turns a view into a view.
LEMMA AfterType ==
  ASSUME NEW v \in Views, NEW a \in Answers PROVE After(v, a) \in Views
<1>1. a.say = "welcome" => a.user \in Users
  BY DEF Answers
<1>2. a.say = "joined" => a.room \in Rooms
  BY DEF Answers
<1> QED
  BY <1>1, <1>2, GeneralAssumption DEF Views, After

\* With no answers, a view becomes itself.
LEMMA BecomesNil ==
  ASSUME NEW v \in Views, NEW e
  PROVE  Becomes(v, <<>>, e) <=> e = v
<1>1. ASSUME e = v PROVE Becomes(v, <<>>, e)
  <2> DEFINE f == [i \in 0..0 |-> v]
  <2>1. f \in [0..Len(<<>>) -> Views] /\ f[0] = v /\ f[Len(<<>>)] = e
    BY <1>1
  <2>2. \A i \in 1..Len(<<>>) : f[i] = After(f[i - 1], <<>>[i])
    OBVIOUS
  <2> QED
    BY <2>1, <2>2 DEF Becomes
<1>2. ASSUME Becomes(v, <<>>, e) PROVE e = v
  BY <1>2 DEF Becomes
<1> QED
  BY <1>1, <1>2

\* The client takes an answer.
LEMMA BecomesTail ==
  ASSUME NEW q \in Seq(Answers), q # <<>>, NEW v, NEW e, Becomes(v, q, e)
  PROVE  Becomes(After(v, Head(q)), Tail(q), e)
<1>1. PICK f \in [0..Len(q) -> Views] :
        /\ f[0] = v
        /\ \A i \in 1..Len(q) : f[i] = After(f[i - 1], q[i])
        /\ f[Len(q)] = e
  BY DEF Becomes
<1> DEFINE r == Tail(q)
           g == [i \in 0..Len(r) |-> f[i + 1]]
<1>2. /\ Len(q) \in Nat /\ Len(q) >= 1 /\ Len(r) = Len(q) - 1 /\ Head(q) = q[1]
      /\ \A i \in 1..Len(r) : r[i] = q[i + 1]
  OBVIOUS
<1> HIDE DEF r
<1>3. g \in [0..Len(r) -> Views]
  BY <1>1, <1>2
<1>4. g[0] = After(v, Head(q))
  <2>1. f[1] = After(f[0], q[1])
    BY <1>1, <1>2
  <2> QED
    BY <1>1, <1>2, <2>1
<1>5. ASSUME NEW i \in 1..Len(r) PROVE g[i] = After(g[i - 1], r[i])
  <2>1. /\ i \in 0..Len(r) /\ i - 1 \in 0..Len(r) /\ i + 1 \in 1..Len(q)
        /\ (i - 1) + 1 = i /\ (i + 1) - 1 = i
    BY <1>2
  <2>2. g[i] = f[i + 1] /\ g[i - 1] = f[i]
    BY <2>1
  <2>3. f[i + 1] = After(f[i], q[i + 1])
    BY <1>1, <2>1
  <2> QED
    BY <1>2, <2>2, <2>3
<1>6. g[Len(r)] = e
  BY <1>1, <1>2
<1> HIDE DEF g
<1> QED
  BY <1>3, <1>4, <1>5, <1>6 DEF Becomes, r

\* The server gives one more.
LEMMA BecomesAppend ==
  ASSUME NEW q \in Seq(Answers), NEW v, NEW e, Becomes(v, q, e), NEW a \in Answers
  PROVE  Becomes(v, Append(q, a), After(e, a))
<1>1. PICK f \in [0..Len(q) -> Views] :
        /\ f[0] = v
        /\ \A i \in 1..Len(q) : f[i] = After(f[i - 1], q[i])
        /\ f[Len(q)] = e
  BY DEF Becomes
<1> DEFINE r == Append(q, a)
           g == [i \in 0..Len(r) |-> IF i <= Len(q) THEN f[i] ELSE After(e, a)]
<1>2. /\ Len(q) \in Nat /\ Len(r) = Len(q) + 1 /\ r[Len(r)] = a
      /\ \A i \in 1..Len(q) : r[i] = q[i]
  OBVIOUS
<1> HIDE DEF r
<1>3. After(e, a) \in Views
  BY <1>1, <1>2, AfterType
<1>4. /\ \A i \in 0..Len(q) : i \in 0..Len(r) /\ g[i] = f[i]
      /\ Len(r) \in 0..Len(r) /\ g[Len(r)] = After(e, a)
  BY <1>2
<1>5. g \in [0..Len(r) -> Views]
  BY <1>1, <1>2, <1>3
<1> HIDE DEF g
<1>6. ASSUME NEW i \in 1..Len(r) PROVE g[i] = After(g[i - 1], r[i])
  <2>1. CASE i \in 1..Len(q)
    <3>1. i \in 0..Len(q) /\ i - 1 \in 0..Len(q)
      BY <1>2, <2>1
    <3> QED
      BY <1>1, <1>2, <1>4, <2>1, <3>1
  <2>2. CASE i = Len(r)
    <3>1. i - 1 = Len(q) /\ Len(q) \in 0..Len(q)
      BY <1>2, <2>2
    <3>2. g[i - 1] = e
      BY <1>1, <1>4, <3>1
    <3> QED
      BY <1>2, <1>4, <2>2, <3>2
  <2> QED
    BY <1>2, <2>1, <2>2
<1>7. g[0] = v
  BY <1>1, <1>2, <1>4
<1> QED
  BY <1>4, <1>5, <1>6, <1>7 DEF Becomes, r

\* A step that keeps the answers under way and what is shown.
LEMMA ReplayKept ==
  ASSUME Replay, UNCHANGED <<shown, toClient, session>>,
         running' /\ link' = "up" => running /\ link = "up"
  PROVE  Replay'
<1>1. Now' = Now
  BY DEF Now, shown
<1> QED
  BY <1>1 DEF Replay, Becomes

\* A new connection: nothing is under way, and nobody is logged in on it.
LEMMA ReplayConnected ==
  ASSUME TypeOK, TaskInv, Connected, ~connected, UNCHANGED <<shown, running>>
  PROVE  Replay'
<1> SUFFICES ASSUME running PROVE Replay'
  BY DEF Replay
<1>1. username' = None /\ slip' = "none" /\ toClient' = <<>> /\ session' = Out
  BY DEF TaskInv, LoopInv, Connected, shown
<1>2. Now' \in Views
  BY <1>1 DEF TypeOK, Now, Views, shown
<1>3. Becomes(Now', toClient', Now')
  BY <1>1, <1>2, BecomesNil
<1>4. Agrees(Now', session')
  BY <1>1 DEF Agrees, Now, Out
<1> QED
  BY <1>2, <1>3, <1>4 DEF Replay

\* The reader takes an answer.
LEMMA ReplayTakes ==
  ASSUME TypeOK, Replay, OnWelcome \/ OnRegistered \/ OnJoined \/ OnOut \/ OnRefused
  PROVE  Replay'
<1>1. /\ toClient # <<>> /\ toClient' = Tail(toClient) /\ toClient \in Seq(Answers)
      /\ UNCHANGED <<running, link, session>>
  BY DEF TypeOK, OnWelcome, OnRegistered, OnJoined, OnOut, OnRefused, Takes, server
<1>2. Now' = After(Now, Head(toClient))
  BY DEF OnWelcome, OnRegistered, OnJoined, OnOut, OnRefused, Takes, Now, After, shown
<1>3. ASSUME running, link = "up"
      PROVE  \E e \in Views : Becomes(Now', toClient', e) /\ Agrees(e, session)
  <2>1. PICK e \in Views : Becomes(Now, toClient, e) /\ Agrees(e, session)
    BY <1>3 DEF Replay
  <2> QED
    BY <1>1, <1>2, <2>1, BecomesTail
<1> QED
  BY <1>1, <1>3 DEF Replay

\* The server answers: the client will agree with it again.
LEMMA ReplaySays ==
  ASSUME TypeOK, Replay, Server
  PROVE  Replay'
<1>1. link = "up" /\ UNCHANGED <<shown, running, link>> /\ toClient \in Seq(Answers)
  BY DEF TypeOK, Server, HandleLogin, HandleRegister, HandleJoin, HandleLogout, Reads, tasks
<1>2. ASSUME NEW e \in Views, Agrees(e, session)
      PROVE  \E a \in Answers : toClient' = Append(toClient, a) /\ Agrees(After(e, a), session')
  <2> USE DEF Says
  <2>1. CASE HandleLogin
    <3> DEFINE u == Head(toServer).user
    <3>1. u \in Users /\ [say |-> "welcome", user |-> u] \in Answers /\ [say |-> "no"] \in Answers
      BY <2>1, HeadType DEF HandleLogin, Reads, Answers
    <3>2. Agrees(After(e, [say |-> "welcome", user |-> u]), [user |-> u, room |-> General])
      BY DEF Agrees, After
    <3>3. After(e, [say |-> "no"]) = e
      BY DEF After
    <3> QED
      BY <1>2, <2>1, <3>1, <3>2, <3>3 DEF HandleLogin
  <2>2. CASE HandleRegister
    <3>1. [say |-> "registered"] \in Answers /\ [say |-> "no"] \in Answers
      BY DEF Answers
    <3>2. Agrees(After(e, [say |-> "registered"]), session) /\ After(e, [say |-> "no"]) = e
      BY <1>2 DEF Agrees, After, Views
    <3> QED
      BY <1>2, <2>2, <3>1, <3>2 DEF HandleRegister
  <2>3. CASE HandleJoin
    <3> DEFINE r == Head(toServer).room
    <3>1. r \in Rooms /\ [say |-> "joined", room |-> r] \in Answers /\ [say |-> "no"] \in Answers
      BY <2>3, HeadType DEF HandleJoin, Reads, Answers
    <3>2. session.user # None /\ session' = [session EXCEPT !.room = r]
          => Agrees(After(e, [say |-> "joined", room |-> r]), session')
      BY <1>2 DEF Agrees, After, Views, TypeOK
    <3>3. After(e, [say |-> "no"]) = e
      BY DEF After
    <3> QED
      BY <1>2, <2>3, <3>1, <3>2, <3>3 DEF HandleJoin
  <2>4. CASE HandleLogout
    <3>1. [say |-> "out"] \in Answers /\ [say |-> "no"] \in Answers
      BY DEF Answers
    <3>2. Agrees(After(e, [say |-> "out"]), Out) /\ After(e, [say |-> "no"]) = e
      BY DEF Agrees, After, Out
    <3>3. session.user = None => Agrees(e, Out)
      BY <1>2 DEF Agrees, Out
    <3> QED
      BY <1>2, <2>4, <3>1, <3>2, <3>3 DEF HandleLogout
  <2> QED
    BY <2>1, <2>2, <2>3, <2>4 DEF Server
<1>3. ASSUME running
      PROVE  \E e \in Views : Becomes(Now, toClient', e) /\ Agrees(e, session')
  <2>1. PICK e \in Views : Becomes(Now, toClient, e) /\ Agrees(e, session)
    BY <1>1, <1>3 DEF Replay
  <2>2. PICK a \in Answers : toClient' = Append(toClient, a) /\ Agrees(After(e, a), session')
    BY <1>2, <2>1
  <2> QED
    BY <1>1, <2>1, <2>2, BecomesAppend, AfterType
<1>4. Now' = Now
  BY <1>1 DEF Now, shown
<1> QED
  BY <1>1, <1>3, <1>4 DEF Replay

\* Every step keeps Replay: one that ends the connection leaves nothing to agree on.
LEMMA ReplayNext == TypeOK /\ TaskInv /\ Replay /\ [Next]_vars => Replay'
<1> SUFFICES ASSUME TypeOK, TaskInv, Replay, [Next]_vars PROVE Replay'
  OBVIOUS
<1>1. CASE Start \/ Dial
  <2>1. ~connected /\ UNCHANGED <<shown, running>>
    BY <1>1 DEF TaskInv, LoopInv, Start, Dial
  <2>2. CASE Connected
    BY <2>1, <2>2, ReplayConnected
  <2>3. CASE ~Connected
    BY <1>1, <2>3, ReplayKept DEF Start, Dial, wire
  <2> QED
    BY <2>2, <2>3
<1>2. CASE FirstDone \/ RestartReader \/ Redial \/ RedialEnds \/ Quit \/ ReaderCancelled
  BY <1>2, ReplayKept
     DEF FirstDone, RestartReader, Redial, RedialEnds, Quit, ReaderCancelled, wire, server
<1>3. CASE Break \/ Silence \/ ServerStops \/ ReaderEnds
  <2>1. link' # "up"
    BY <1>3 DEF Break, Silence, ServerStops, ReaderEnds, wire
  <2> QED
    BY <2>1 DEF Replay
<1>7. CASE SendLogout \/ CloseWriter \/ DropWriter
  <2>1. ~running'
    BY <1>7 DEF SendLogout, CloseWriter, DropWriter, Disconnects, TaskInv, LoopInv
  <2> QED
    BY <2>1 DEF Replay
<1>4. CASE OnWelcome \/ OnRegistered \/ OnJoined \/ OnOut \/ OnRefused
  BY <1>4, ReplayTakes
<1>5. CASE Server
  BY <1>5, ReplaySays
<1>6. CASE ServerStarts \/ (\E u \in Users : Cleanup(u))
            \/ (\E request \in Requests : Type(request)) \/ UNCHANGED vars
  BY <1>6, ReplayKept DEF ServerStarts, Cleanup, Type, tasks, wire, server, vars, shown
<1> QED
  BY <1>1, <1>2, <1>3, <1>4, <1>5, <1>6, <1>7 DEF Next, Reader, Reconnect, MainLoop

\* Once nothing is under way, the prompt shows what the server has, up to the
\* two ways in which the client misreads an answer.
THEOREM PromptCorrect == Spec => []PromptTrue
<1>1. Init => Replay
  BY DEF Init, Replay
<1>2. TypeOK /\ Replay => PromptTrue
  <2> SUFFICES ASSUME TypeOK, Replay, Settled, running PROVE PromptTrue
    BY DEF PromptTrue
  <2>1. Now \in Views
    BY DEF TypeOK, Now, Views
  <2>2. PICK e \in Views : Becomes(Now, <<>>, e) /\ Agrees(e, session)
    BY DEF Replay, Settled
  <2>3. Agrees(Now, session)
    BY <2>1, <2>2, BecomesNil
  <2> QED
    BY <2>3 DEF Agrees, Now, PromptTrue
<1> QED
  BY <1>1, <1>2, ReplayNext, TaskCorrect, TypeCorrect, PTL DEF Spec

=============================================================================
