-------------------------- MODULE OfferBrokerProofs --------------------------
(* Proofs about OfferBroker for any connections, names, ids and limit.      *)
EXTENDS OfferBroker, LockQueueProofs, FiniteSetTheorems

-----------------------------------------------------------------------------
(* The lock.                                                                *)

Tasks == Conns \cup {Main, Beat}

LockType ==
  /\ pc \in [Conns -> BrokerLabels]
  /\ queue \in Seq(Tasks)
  /\ beat \in {"sleep", "expire", "tell", "dead", "raised", "off"}

LockInv == LockType /\ LockExact

\* What a section, or an await outside the lock, of the handler of s does to
\* the lock when the handler goes on to l.
Asks(s, l) == Wait(s, l) /\ pc[s] \notin BrokerQueued /\ l \in BrokerQueued
Keeps(s, l) == Move(s, l) /\ UNCHANGED queue /\ l \in BrokerQueued
Reasks(s, l) == Again(s, l) /\ l \in BrokerQueued
Leaves(s, l) == Release(s, l) /\ l \in BrokerLabels \ BrokerQueued
Runs(s) == queue # <<>> /\ Head(queue) = s /\ pc[s] \in BrokerQueued

LockStep(s, l) == Asks(s, l) \/ (Runs(s) /\ (Keeps(s, l) \/ Reasks(s, l) \/ Leaves(s, l)))

\* The three kinds of task are different.
LEMMA Distinct == Beat \notin Conns /\ Main \notin Conns /\ Beat # Main
BY BeatAssumption, MainAssumption

\* Who is in the queue after such a step, and in which order.
LEMMA QueueAfter ==
  ASSUME LockInv, NEW s \in Conns, NEW l, LockStep(s, l)
  PROVE  /\ queue' \in Seq(Tasks)
         /\ NoTwice(queue')
         /\ \A t : t # s => (In(queue', t) <=> In(queue, t))
         /\ In(queue', s) <=> l \in BrokerQueued
         /\ \A a, b : a # s /\ b # s => (Ahead(queue', a, b) <=> Ahead(queue, a, b))
         /\ \A t : Ahead(queue', s, t) => Ahead(queue, s, t)
         /\ \A t : Ahead(queue, t, s) /\ In(queue', s) => Ahead(queue', t, s)
<1>1. queue \in Seq(Tasks) /\ NoTwice(queue) /\ s \in Tasks
  BY DEF LockInv, LockType, LockExact, Tasks
<1>2. CASE Asks(s, l)
  <2>1. ~In(queue, s) /\ queue' = Append(queue, s) /\ l \in BrokerQueued
    BY <1>2 DEF Asks, Wait, LockInv, LockExact
  <2>2. /\ Append(queue, s) \in Seq(Tasks)
        /\ \A x : In(Append(queue, s), x) <=> In(queue, x) \/ x = s
        /\ NoTwice(Append(queue, s))
        /\ \A a, b : Ahead(Append(queue, s), a, b) <=> Ahead(queue, a, b) \/ (In(queue, a) /\ b = s)
    BY <1>1, <2>1, AppendFacts
  <2> QED
    BY <1>1, <2>1, <2>2, AheadFacts
<1>3. CASE Runs(s) /\ Keeps(s, l)
  BY <1>1, <1>3, HeadFacts DEF Runs, Keeps
<1>4. CASE Runs(s) /\ Reasks(s, l)
  <2>1. queue # <<>> /\ Head(queue) = s /\ queue' = Append(Tail(queue), s) /\ l \in BrokerQueued
    BY <1>4 DEF Runs, Reasks, Again
  <2>2. /\ Append(Tail(queue), s) \in Seq(Tasks)
        /\ NoTwice(Append(Tail(queue), s))
        /\ \A x : In(Append(Tail(queue), s), x) <=> In(queue, x)
        /\ \A a, b : Ahead(Append(Tail(queue), s), a, b) <=>
                       a # s /\ (Ahead(queue, a, b) \/ (In(queue, a) /\ b = s))
    BY <1>1, <2>1, AgainFacts
  <2>3. In(queue, s)
    BY <1>1, <2>1, HeadFacts
  <2> QED
    BY <1>1, <2>1, <2>2, <2>3, AheadFacts
<1>5. CASE Runs(s) /\ Leaves(s, l)
  <2>1. queue # <<>> /\ Head(queue) = s /\ queue' = Tail(queue) /\ l \notin BrokerQueued
    BY <1>5 DEF Runs, Leaves, Release
  <2>2. /\ Tail(queue) \in Seq(Tasks)
        /\ NoTwice(Tail(queue))
        /\ \A x : In(Tail(queue), x) <=> In(queue, x) /\ x # s
        /\ \A a, b : Ahead(Tail(queue), a, b) <=> Ahead(queue, a, b) /\ a # s
    BY <1>1, <2>1, TailFacts
  <2> QED
    BY <2>1, <2>2
<1> QED
  BY <1>2, <1>3, <1>4, <1>5 DEF LockStep

\* And where the handlers are.
LEMMA PcAfter ==
  ASSUME LockInv, NEW s \in Conns, NEW l, LockStep(s, l)
  PROVE  /\ pc' = [pc EXCEPT ![s] = l]
         /\ l \in BrokerLabels
         /\ pc' \in [Conns -> BrokerLabels]
         /\ pc'[s] = l /\ \A t \in Conns \ {s} : pc'[t] = pc[t]
<1>1. pc' = [pc EXCEPT ![s] = l] /\ l \in BrokerLabels
  BY DEF LockStep, Asks, Keeps, Reasks, Leaves, Wait, Again, Release, Move,
         BrokerLabels, BrokerQueued, Labels
<1> QED
  BY <1>1 DEF LockInv, LockType

\* A handler's step keeps the account of who waits.
LEMMA HandlerLock ==
  ASSUME LockInv, NEW s \in Conns, NEW l, LockStep(s, l), UNCHANGED beat
  PROVE  LockInv'
<1>1. LockType'
  BY QueueAfter, PcAfter DEF LockType, LockInv
<1>2. NoTwice(queue')
  BY QueueAfter
<1>3. ASSUME NEW t \in Conns PROVE In(queue', t) <=> pc'[t] \in BrokerQueued
  BY QueueAfter, PcAfter DEF LockInv, LockExact
<1>4. \A t \in {Main, Beat} : In(queue', t) <=> In(queue, t)
  BY QueueAfter, Distinct
<1> QED
  BY <1>1, <1>2, <1>3, <1>4 DEF LockInv, LockExact

-----------------------------------------------------------------------------
(* Every step of a handler is one of these on the lock.                     *)

\* The steps of ChatServer that the broker takes as they are.
LEMMA ServerSteps ==
  ASSUME LockInv, NEW s \in Conns, Ask(s) \/ Serve(s)
  PROVE  UNCHANGED <<pc, queue>> \/ \E l \in Labels : LockStep(s, l)
<1> USE DEF LockStep, Asks, Keeps, Reasks, Leaves, Runs, Turn, BrokerQueued, BrokerLabels, Labels, Queued
<1>1. CASE Accept(s)
  <2>1. LockStep(s, "enter")
    BY <1>1 DEF Accept
  <2> QED
    BY <2>1
<1>2. ASSUME NEW n \in Names, RegisterUser(s, n) \/ VerifyLogin(s, n)
      PROVE  UNCHANGED <<pc, queue>> \/ LockStep(s, "login")
  BY <1>2 DEF RegisterUser, VerifyLogin, Serving, control
<1>3. ASSUME NEW c \in Channels, CmdCreate(s, c) \/ CmdJoin(s, c)
      PROVE  LockStep(s, "make") \/ LockStep(s, "join")
  BY <1>3 DEF CmdCreate, CmdJoin, Serving
<1>4. CASE CmdLogout(s) \/ Hangup(s) \/ Welcome(s)
  <2>1. LockStep(s, "logout") \/ LockStep(s, "clean") \/ LockStep(s, "greet")
    BY <1>4 DEF CmdLogout, Hangup, Welcome, Serving
  <2> QED
    BY <2>1
<1>5. CASE Enter(s) \/ LoginAdmit(s) \/ Unhold(s) \/ Greet(s) \/ Part(s) \/ CleanOrphan(s)
  <2>1. LockStep(s, "read") \/ LockStep(s, "welcome") \/ LockStep(s, "closed")
    BY <1>5 DEF Enter, LoginAdmit, Unhold, Greet, Part, CleanOrphan, Return
  <2> QED
    BY <2>1
<1>6. CASE LoginRefuse(s) \/ Make(s)
  <2>1. LockStep(s, "hold")
    BY <1>6 DEF LoginRefuse, Make
  <2> QED
    BY <2>1
<1>7. CASE Logout(s) \/ CleanSession(s) \/ Join(s)
  <2>1. LockStep(s, "drop") \/ LockStep(s, "part")
    BY <1>7 DEF Logout, CleanSession, Join
  <2> QED
    BY <2>1
<1>8. CASE Farewell(s)
  <2>1. LockStep(s, IF s \in connections THEN "read" ELSE "closed")
    BY <1>8 DEF Farewell, Return
  <2> QED
    BY <2>1
<1> QED
  BY <1>1, <1>2, <1>3, <1>4, <1>5, <1>6, <1>7, <1>8 DEF Ask, Serve

\* The sections of the broker.
LEMMA BrokerSteps ==
  ASSUME LockInv, NEW s \in Conns,
         Broke(s) \/ \E i \in Ids : SendAnswer(s, i) \/ \E v \in Names : SendOffer(s, v, i)
  PROVE  \E l : LockStep(s, l)
<1> USE DEF LockStep, Asks, Keeps, Reasks, Leaves, Runs, Turn, BrokerQueued, BrokerLabels, Labels, Queued
<1>1. ASSUME NEW i \in Ids, NEW v \in Names, SendAnswer(s, i) \/ SendOffer(s, v, i)
      PROVE  LockStep(s, "answer") \/ LockStep(s, "seek")
  BY <1>1 DEF SendAnswer, SendOffer, Serving
<1>2. CASE Seek(s) \/ Take(s, "accepted") \/ Take(s, "declined")
  <2>1. LockStep(s, "put") \/ LockStep(s, "reply")
    BY <1>2 DEF Seek, Take
  <2> QED
    BY <2>1
<1>3. CASE SeekFails(s) \/ Put(s) \/ TakeVoid(s) \/ TakeFails(s) \/ Reply(s)
  <2>1. LockStep(s, "read")
    BY <1>3 DEF SeekFails, Put, TakeVoid, TakeFails, Reply
  <2> QED
    BY <2>1
<1>4. CASE PutRefused(s)
  <2>1. LockStep(s, "hold")
    BY <1>4 DEF PutRefused
  <2> QED
    BY <2>1
<1>5. CASE Cancel(s)
  <2>1. LockStep(s, "farewell") \/ LockStep(s, "tell")
    BY <1>5 DEF Cancel, AfterTold
  <2> QED
    BY <2>1
<1>6. CASE Tell(s)
  <2>1. LockStep(s, "farewell") \/ LockStep(s, "tell")
    BY <1>6 DEF Tell, AfterTold
  <2> QED
    BY <2>1
<1>7. CASE TellRaises(s)
  <2>1. LockStep(s, "clean") \/ LockStep(s, "closed")
    BY <1>7 DEF TellRaises
  <2> QED
    BY <2>1
<1>8. ASSUME NEW i \in Ids, SendAnswer(s, i) PROVE LockStep(s, "answer")
  BY <1>8 DEF SendAnswer, Serving
<1> QED
  BY <1>1, <1>2, <1>3, <1>4, <1>5, <1>6, <1>7, <1>8 DEF Broke

-----------------------------------------------------------------------------
(* The heartbeat and the shutdown.                                          *)

\* BeatAsks, BeatReasks, BeatLeaves: the same for the heartbeat task.
BeatStep ==
  /\ UNCHANGED pc
  /\ \/ beat = "sleep" /\ beat' = "expire" /\ queue' = Append(queue, Beat)
     \/ /\ beat \in {"expire", "tell"} /\ queue # <<>> /\ Head(queue) = Beat
        /\ \/ beat' = "tell" /\ queue' = Append(Tail(queue), Beat)
           \/ beat' \in {"sleep", "dead"} /\ queue' = Tail(queue)

\* Every step of the heartbeat has that shape.
LEMMA BeatSteps ==
  ASSUME Heartbeat PROVE BeatStep
<1>1. CASE BeatWakes
  BY <1>1 DEF BeatWakes, BeatStep
<1>2. ASSUME NEW old \in SUBSET Pending, Expire(old) PROVE BeatStep
  BY <1>2 DEF Expire, BeatStep, BeatGoes, BeatTurn
<1>3. CASE BeatTells
  BY <1>3 DEF BeatTells, BeatStep, BeatGoes, BeatTurn
<1>4. CASE BeatDies
  BY <1>4 DEF BeatDies, BeatStep, BeatTurn
<1> QED
  BY <1>1, <1>2, <1>3, <1>4 DEF Heartbeat

\* So it keeps the account of who waits, and the order of all others.
LEMMA BeatLock ==
  ASSUME LockInv, BeatStep
  PROVE  /\ LockInv'
         /\ WithoutBeat' = WithoutBeat
         /\ \A t : t # Beat => (In(queue', t) <=> In(queue, t))
         /\ \A a, b : a # Beat /\ b # Beat => (Ahead(queue', a, b) <=> Ahead(queue, a, b))
<1>1. queue \in Seq(Tasks) /\ NoTwice(queue) /\ Beat \in Tasks /\ pc' = pc
  BY DEF LockInv, LockType, LockExact, Tasks, BeatStep
<1>2. CASE beat = "sleep" /\ beat' = "expire" /\ queue' = Append(queue, Beat)
  <2>1. ~In(queue, Beat)
    BY <1>2 DEF LockInv, LockExact
  <2>2. /\ queue' \in Seq(Tasks)
        /\ \A x : In(queue', x) <=> In(queue, x) \/ x = Beat
        /\ NoTwice(queue')
        /\ \A a, b : Ahead(queue', a, b) <=> Ahead(queue, a, b) \/ (In(queue, a) /\ b = Beat)
    BY <1>1, <1>2, <2>1, AppendFacts
  <2>3. WithoutBeat' = WithoutBeat
    <3>1. Without(queue', Beat) = queue
      BY <1>1, <1>2, <2>1, WithoutLast
    <3>2. Without(queue, Beat) = queue
      BY <2>1 DEF Without
    <3> QED
      BY <3>1, <3>2 DEF WithoutBeat
  <2> QED
    BY <1>1, <1>2, <2>2, <2>3, Distinct DEF LockInv, LockType, LockExact
<1>3. CASE /\ beat \in {"expire", "tell"} /\ queue # <<>> /\ Head(queue) = Beat
           /\ beat' = "tell" /\ queue' = Append(Tail(queue), Beat)
  <2>1. /\ queue' \in Seq(Tasks)
        /\ NoTwice(queue')
        /\ \A x : In(queue', x) <=> In(queue, x)
        /\ \A a, b : Ahead(queue', a, b) <=>
                       a # Beat /\ (Ahead(queue, a, b) \/ (In(queue, a) /\ b = Beat))
    BY <1>1, <1>3, AgainFacts
  <2>2. Without(queue, Beat) = Tail(queue) /\ Without(queue', Beat) = Tail(queue)
    BY <1>1, <1>3, WithoutHead
  <2>3. WithoutBeat' = WithoutBeat
    BY <2>2 DEF WithoutBeat
  <2> QED
    BY <1>1, <1>3, <2>1, <2>3, Distinct DEF LockInv, LockType, LockExact
<1>4. CASE /\ beat \in {"expire", "tell"} /\ queue # <<>> /\ Head(queue) = Beat
           /\ beat' \in {"sleep", "dead"} /\ queue' = Tail(queue)
  <2>1. /\ queue' \in Seq(Tasks)
        /\ NoTwice(queue')
        /\ \A x : In(queue', x) <=> In(queue, x) /\ x # Beat
        /\ \A a, b : Ahead(queue', a, b) <=> Ahead(queue, a, b) /\ a # Beat
    BY <1>1, <1>4, TailFacts
  <2>2. Without(queue, Beat) = Tail(queue) /\ Without(queue', Beat) = Tail(queue)
    BY <1>1, <1>4, WithoutHead
  <2>3. WithoutBeat' = WithoutBeat
    BY <2>2 DEF WithoutBeat
  <2> QED
    BY <1>1, <1>4, <2>1, <2>3, Distinct DEF LockInv, LockType, LockExact
<1> QED
  BY <1>2, <1>3, <1>4 DEF BeatStep

\* The main task asks for the lock once, when the heartbeat has given up its
\* place; and gives it back.
LEMMA MainLock ==
  ASSUME LockInv, BrokerShutdown \/ ((Stop \/ Clear \/ Done) /\ UNCHANGED broker)
  PROVE  LockInv'
<1>1. queue \in Seq(Tasks) /\ NoTwice(queue) /\ Main \in Tasks
  BY DEF LockInv, LockType, LockExact, Tasks
<1>2. CASE (Stop \/ Done) /\ UNCHANGED broker
  BY <1>2 DEF LockInv, LockType, LockExact, Stop, Done, broker, vars, control
<1>3. CASE Clear /\ UNCHANGED broker
  <2>1. /\ queue' \in Seq(Tasks)
        /\ NoTwice(queue')
        /\ \A x : In(queue', x) <=> In(queue, x) /\ x # Main
    BY <1>1, <1>3, TailFacts DEF Clear
  <2>2. beat' = beat /\ pc' = pc
    BY <1>3 DEF Clear, broker
  <2> QED
    BY <2>1, <2>2, Distinct DEF LockInv, LockType, LockExact
<1>4. CASE BrokerShutdown
  <2>1. ~In(queue, Main)
    BY <1>4 DEF LockInv, LockExact, BrokerShutdown
  <2>2. /\ WithoutBeat \in Seq(Tasks \ {Beat})
        /\ NoTwice(WithoutBeat)
        /\ \A x : In(WithoutBeat, x) <=> In(queue, x) /\ x # Beat
    BY <1>1, WithoutIn DEF WithoutBeat
  <2>3. /\ Append(WithoutBeat, Main) \in Seq(Tasks \ {Beat})
        /\ NoTwice(Append(WithoutBeat, Main))
        /\ \A x : In(Append(WithoutBeat, Main), x) <=> In(WithoutBeat, x) \/ x = Main
    BY <1>1, <2>1, <2>2, Distinct, AppendFacts
  <2>4. queue' = Append(WithoutBeat, Main) /\ beat' = "off" /\ pc' = pc
    BY <1>4 DEF BrokerShutdown
  <2>5. queue' \in Seq(Tasks)
    BY <2>3, <2>4, SeqMonotonic
  <2> QED
    BY <2>2, <2>3, <2>4, <2>5, Distinct DEF LockInv, LockType, LockExact
<1> QED
  BY <1>2, <1>3, <1>4

\* Nobody waits at first.
LEMMA LockInit == BrokerInit => LockInv
BY DEF BrokerInit, Init, LockInv, LockType, LockExact, NoTwice, In, BrokerLabels, BrokerQueued,
       Labels, Queued

\* The account of who waits is inductive.
LEMMA LockNext == LockInv /\ [BrokerNext]_allVars => LockInv'
<1> SUFFICES ASSUME LockInv, [BrokerNext]_allVars PROVE LockInv'
  OBVIOUS
<1>1. ASSUME NEW s \in Conns, Ask(s) \/ Serve(s), UNCHANGED broker PROVE LockInv'
  <2>1. CASE UNCHANGED <<pc, queue>>
    BY <1>1, <2>1 DEF broker, LockInv, LockType, LockExact
  <2>2. CASE \E l \in Labels : LockStep(s, l)
    BY <1>1, <2>2, HandlerLock DEF broker
  <2> QED
    BY <1>1, <2>1, <2>2, ServerSteps
<1>2. ASSUME NEW s \in Conns,
             Broke(s) \/ \E i \in Ids : SendAnswer(s, i) \/ \E v \in Names : SendOffer(s, v, i)
      PROVE  LockInv'
  <2>1. UNCHANGED beat
    BY <1>2 DEF Broke, Seek, SeekFails, Put, PutRefused, Take, TakeVoid, TakeFails, Reply,
                Cancel, Tell, TellRaises, SendAnswer, SendOffer
  <2> QED
    BY <1>2, <2>1, BrokerSteps, HandlerLock
<1>3. CASE Heartbeat
  BY <1>3, BeatSteps, BeatLock
<1>4. CASE BrokerShutdown \/ ((Stop \/ Clear \/ Done) /\ UNCHANGED broker)
  BY <1>4, MainLock
<1>5. CASE ShutdownRaises
  BY <1>5 DEF ShutdownRaises, vars, control, LockInv, LockType, LockExact
<1>6. CASE UNCHANGED allVars
  BY <1>6 DEF allVars, vars, broker, control, LockInv, LockType, LockExact
<1> QED
  BY <1>1, <1>2, <1>3, <1>4, <1>5, <1>6 DEF BrokerNext, Aborted

\* The lock's queue lists each task at most once, and those that wait or run.
THEOREM LockCorrect == BrokerSpec => []LockInv
BY LockInit, LockNext, PTL DEF BrokerSpec

-----------------------------------------------------------------------------
(* Every step of the broker is one that ChatServer allows.                  *)

\* Where ChatServer takes a handler at l to be.
Seen(l) == IF l \in {"seek", "put", "answer", "reply"} THEN "peek"
           ELSE IF l = "tell" THEN "drop" ELSE l

\* The lock is the same to it, without the heartbeat.
LEMMA CoreLock ==
  ASSUME LockInv, NEW s \in Conns, NEW l \in BrokerLabels
  PROVE  /\ pc[s] = l => CorePc[s] = Seen(l)
         /\ Move(s, l) => Core!Move(s, Seen(l))
         /\ Asks(s, l) => Core!Wait(s, Seen(l))
         /\ Turn(s, l) => Core!Turn(s, Seen(l))
         /\ Runs(s) /\ Release(s, l) => Core!Release(s, Seen(l))
         /\ Runs(s) /\ Again(s, l) => Core!Again(s, Seen(l))
         /\ UNCHANGED queue => UNCHANGED WithoutBeat
<1>1. queue \in Seq(Tasks) /\ NoTwice(queue) /\ s \in Tasks /\ s # Beat
  BY Distinct DEF LockInv, LockType, LockExact, Tasks
<1>2. pc[s] = l => CorePc[s] = Seen(l)
  BY DEF CorePc, Seen
<1>3. Move(s, l) => Core!Move(s, Seen(l))
  <2> SUFFICES ASSUME Move(s, l) PROVE CorePc' = [CorePc EXCEPT ![s] = Seen(l)]
    BY DEF Core!Move
  <2>1. pc' = [pc EXCEPT ![s] = l] /\ pc \in [Conns -> BrokerLabels]
    BY DEF Move, LockInv, LockType
  <2>2. \A t \in Conns : CorePc'[t] = IF t = s THEN Seen(l) ELSE CorePc[t]
    BY <2>1 DEF CorePc, Seen
  <2>3. CorePc' = [t \in Conns |-> CorePc'[t]] /\ CorePc = [t \in Conns |-> CorePc[t]]
    BY DEF CorePc
  <2> HIDE DEF CorePc
  <2> QED
    BY <2>2, <2>3
<1>4. Asks(s, l) => Core!Wait(s, Seen(l))
  <2> SUFFICES ASSUME Asks(s, l) PROVE WithoutBeat' = Append(WithoutBeat, s)
    BY <1>3 DEF Core!Wait, Asks, Wait
  <2>1. ~In(queue, s) /\ queue' = Append(queue, s)
    BY DEF Asks, Wait, LockInv, LockExact
  <2> QED
    BY <1>1, <2>1, WithoutAppend DEF WithoutBeat
<1>5. Turn(s, l) => Core!Turn(s, Seen(l))
  BY <1>1, <1>2, WithoutTail DEF Turn, Core!Turn, WithoutBeat
<1>6. ASSUME Runs(s) PROVE Without(Tail(queue), Beat) = Tail(WithoutBeat)
  BY <1>1, <1>6, WithoutTail DEF Runs, WithoutBeat
<1>7. Runs(s) /\ Release(s, l) => Core!Release(s, Seen(l))
  BY <1>3, <1>6 DEF Release, Core!Release, WithoutBeat
<1>8. ASSUME Runs(s), Again(s, l) PROVE Core!Again(s, Seen(l))
  <2>1. /\ Tail(queue) \in Seq(Tasks) /\ NoTwice(Tail(queue)) /\ ~In(Tail(queue), s)
        /\ queue' = Append(Tail(queue), s)
    BY <1>1, <1>8, TailFacts DEF Runs, Again
  <2>2. Without(queue', Beat) = Append(Without(Tail(queue), Beat), s)
    <3> DEFINE r == Tail(queue)
    <3> HIDE DEF r
    <3>1. r \in Seq(Tasks) /\ NoTwice(r) /\ ~In(r, s)
      BY <2>1 DEF r
    <3>2. Without(Append(r, s), Beat) = Append(Without(r, Beat), s)
      BY <1>1, <3>1, WithoutAppend
    <3> QED
      BY <2>1, <3>2 DEF r
  <2> QED
    BY <1>3, <1>6, <1>8, <2>2 DEF Again, Core!Again, WithoutBeat
<1>9. UNCHANGED queue => UNCHANGED WithoutBeat
  BY DEF WithoutBeat
<1> QED
  BY <1>2, <1>3, <1>4, <1>5, <1>7, <1>8, <1>9

\* The handlers' steps that the broker takes as they are.
LEMMA CoreServer ==
  ASSUME LockInv, NEW s \in Conns, Ask(s) \/ Serve(s)
  PROVE  Core!Ask(s) \/ Core!Serve(s)
<1> USE DEF Asks, Runs, Turn, Seen, BrokerQueued, BrokerLabels, Labels, Queued,
            Core!tables, Core!registry, Core!control
<1>1. CASE Accept(s)
  <2>1. Core!Accept(s)
    BY <1>1, CoreLock DEF Accept, Core!Accept, tables, registry
  <2> QED
    BY <2>1 DEF Core!Ask
<1>2. ASSUME NEW n \in Names, RegisterUser(s, n) PROVE Core!RegisterUser(s, n)
  <2>1. UNCHANGED <<CorePc, WithoutBeat>>
    BY <1>2 DEF RegisterUser, control, CorePc, WithoutBeat
  <2>2. Core!Serving(s)
    BY <1>2, CoreLock DEF RegisterUser, Serving, Core!Serving
  <2> QED
    BY <1>2, <2>1, <2>2 DEF RegisterUser, Core!RegisterUser, Stored, Core!Stored, registry
<1>3. ASSUME NEW n \in Names, VerifyLogin(s, n) PROVE Core!VerifyLogin(s, n)
  BY <1>3, CoreLock DEF VerifyLogin, Core!VerifyLogin, Stored, Core!Stored, Serving,
     Core!Serving, tables, registry
<1>4. ASSUME NEW c \in Channels, CmdCreate(s, c) PROVE Core!CmdCreate(s, c)
  BY <1>4, CoreLock DEF CmdCreate, Core!CmdCreate, Stored, Core!Stored, Serving,
     Core!Serving, registry
<1>5. ASSUME NEW c \in Channels, CmdJoin(s, c) PROVE Core!CmdJoin(s, c)
  BY <1>5, CoreLock DEF CmdJoin, Core!CmdJoin, Stored, Core!Stored, Serving,
     Core!Serving, tables, registry
<1>6. CASE CmdLogout(s)
  <2>1. Core!CmdLogout(s)
    BY <1>6, CoreLock DEF CmdLogout, Core!CmdLogout, tables, registry, Serving, Core!Serving
  <2> QED
    BY <2>1 DEF Core!Ask
<1>7. CASE Hangup(s)
  <2>1. Core!Hangup(s)
    BY <1>7, CoreLock DEF Hangup, Core!Hangup, tables, registry
  <2> QED
    BY <2>1 DEF Core!Ask
<1>8. CASE Enter(s)
  <2>1. Core!Enter(s)
    BY <1>8, CoreLock DEF Enter, Core!Enter, tables, registry
  <2> QED
    BY <2>1 DEF Core!Serve
<1>9. CASE LoginAdmit(s)
  <2>1. Core!LoginAdmit(s)
    BY <1>9, CoreLock DEF LoginAdmit, Core!LoginAdmit, tables, registry
  <2> QED
    BY <2>1 DEF Core!Serve
<1>10. CASE LoginRefuse(s)
  <2>1. Core!LoginRefuse(s)
    BY <1>10, CoreLock DEF LoginRefuse, Core!LoginRefuse, tables, registry
  <2> QED
    BY <2>1 DEF Core!Serve
<1>11. CASE Unhold(s)
  <2>1. Core!Unhold(s)
    BY <1>11, CoreLock DEF Unhold, Core!Unhold, tables, registry, Return, Core!Return
  <2> QED
    BY <2>1 DEF Core!Serve
<1>12. CASE Welcome(s)
  <2>1. Core!Welcome(s)
    BY <1>12, CoreLock DEF Welcome, Core!Welcome, tables, registry
  <2> QED
    BY <2>1 DEF Core!Serve
<1>13. CASE Greet(s)
  <2>1. Core!Greet(s)
    BY <1>13, CoreLock DEF Greet, Core!Greet, tables, registry, Return, Core!Return
  <2> QED
    BY <2>1 DEF Core!Serve
<1>14. CASE Logout(s)
  <2>1. Core!Logout(s)
    BY <1>14, CoreLock DEF Logout, Core!Logout, tables, registry, Unregister, Core!Unregister
  <2> QED
    BY <2>1 DEF Core!Serve
<1>15. CASE Farewell(s)
  <2>1. Core!Farewell(s)
    BY <1>15, CoreLock DEF Farewell, Core!Farewell, tables, registry, Return, Core!Return
  <2> QED
    BY <2>1 DEF Core!Serve
<1>16. CASE Make(s)
  <2>1. Core!Make(s)
    BY <1>16, CoreLock DEF Make, Core!Make, tables, registry
  <2> QED
    BY <2>1 DEF Core!Serve
<1>17. CASE Join(s)
  <2>1. Core!Join(s)
    BY <1>17, CoreLock DEF Join, Core!Join, tables, registry
  <2> QED
    BY <2>1 DEF Core!Serve
<1>18. CASE Part(s)
  <2>1. Core!Part(s)
    BY <1>18, CoreLock DEF Part, Core!Part, tables, registry
  <2> QED
    BY <2>1 DEF Core!Serve
<1>19. CASE CleanSession(s)
  <2>1. Core!CleanSession(s)
    BY <1>19, CoreLock DEF CleanSession, Core!CleanSession, tables, registry, Unregister, Core!Unregister
  <2> QED
    BY <2>1 DEF Core!Serve
<1>20. CASE CleanOrphan(s)
  <2>1. Core!CleanOrphan(s)
    BY <1>20, CoreLock DEF CleanOrphan, Core!CleanOrphan, tables, registry
  <2> QED
    BY <2>1 DEF Core!Serve
<1> QED
  BY <1>1, <1>2, <1>3, <1>4, <1>5, <1>6, <1>7, <1>8, <1>9, <1>10, <1>11, <1>12, <1>13, <1>14, <1>15, <1>16, <1>17, <1>18, <1>19, <1>20
     DEF Ask, Serve, Core!Ask, Core!Serve

\* The broker's own sections look to the registry like lookups.
LEMMA CoreBroker ==
  ASSUME LockInv, NEW s \in Conns,
         Broke(s) \/ \E i \in Ids : SendAnswer(s, i) \/ \E v \in Names : SendOffer(s, v, i)
  PROVE  Core!Lookup(s) \/ Core!Read(s)
<1> USE DEF Asks, Runs, Turn, Seen, BrokerQueued, BrokerLabels, Labels, Queued,
            Core!tables, Core!registry, Core!control
<1>1. ASSUME NEW i \in Ids, SendAnswer(s, i) PROVE Core!Lookup(s)
  BY <1>1, CoreLock DEF SendAnswer, Core!Lookup, Serving, Core!Serving, tables, registry
<1>2. ASSUME NEW i \in Ids, NEW v \in Names, SendOffer(s, v, i) PROVE Core!Lookup(s)
  BY <1>2, CoreLock DEF SendOffer, Core!Lookup, Serving, Core!Serving, tables, registry
<1>3. CASE Seek(s) \/ Take(s, "accepted") \/ Take(s, "declined")
  <2>1. Core!Peek(s)
    BY <1>3, CoreLock DEF Seek, Take, Core!Peek, tables, registry
  <2> QED
    BY <2>1 DEF Core!Read
<1>4. CASE SeekFails(s) \/ Put(s) \/ TakeVoid(s) \/ TakeFails(s) \/ Reply(s)
  <2>1. Core!PeekDone(s)
    BY <1>4, CoreLock DEF SeekFails, Put, TakeVoid, TakeFails, Reply, Core!PeekDone, tables, registry
  <2> QED
    BY <2>1 DEF Core!Read
<1>5. CASE PutRefused(s)
  <2>1. Core!PeekRefused(s)
    BY <1>5, CoreLock DEF PutRefused, Core!PeekRefused, tables, registry
  <2> QED
    BY <2>1 DEF Core!Read
<1>6. CASE Cancel(s) \/ Tell(s)
  <2>1. /\ Turn(s, "drop") \/ Turn(s, "tell")
        /\ Again(s, "tell") \/ Again(s, "farewell")
        /\ UNCHANGED <<tables, registry, arg, phase>>
    BY <1>6 DEF Cancel, Tell, AfterTold
  <2>2. Core!Drop(s) \/ Core!DropDone(s)
    BY <2>1, CoreLock DEF Core!Drop, Core!DropDone, tables, registry
  <2> QED
    BY <2>2 DEF Core!Read
<1>7. CASE TellRaises(s)
  <2>1. Core!DropRaises(s)
    BY <1>7, CoreLock DEF TellRaises, Core!DropRaises, tables, registry
  <2> QED
    BY <2>1 DEF Core!Read
<1> QED
  BY <1>1, <1>2, <1>3, <1>4, <1>5, <1>6, <1>7 DEF Broke

\* The heartbeat is not seen at all.
LEMMA CoreBeat ==
  ASSUME LockInv, Heartbeat
  PROVE  UNCHANGED Core!vars
<1>1. UNCHANGED <<pc, WithoutBeat>>
  BY BeatSteps, BeatLock DEF BeatStep
<1>2. UNCHANGED <<tables, registry, arg, phase>>
  BY DEF Heartbeat, BeatWakes, BeatTells, BeatDies, Expire
<1> QED
  BY <1>1, <1>2 DEF CorePc, Core!vars, Core!tables, Core!registry, Core!control, tables, registry

\* The shutdown.
LEMMA CoreMain ==
  ASSUME LockInv, BrokerShutdown \/ Stop \/ Clear \/ Done
  PROVE  Core!Stop \/ Core!Shutdown \/ Core!Clear \/ Core!Done
<1> USE DEF Core!tables, Core!registry, Core!control, Core!vars, tables, registry, control, vars
<1>1. queue \in Seq(Tasks) /\ NoTwice(queue)
  BY DEF LockInv, LockType, LockExact
<1>2. CASE Stop
  BY <1>2 DEF Stop, Core!Stop, CorePc, WithoutBeat
<1>3. CASE Done
  <2>1. UNCHANGED vars /\ phase = "cleared" /\ \A s \in Conns : CorePc[s] \in {"absent", "closed"}
    BY <1>3 DEF Done, CorePc
  <2> QED
    BY <2>1 DEF Core!Done, CorePc, WithoutBeat
<1>4. CASE Clear
  <2>1. WithoutBeat # <<>> /\ Head(WithoutBeat) = Main /\ WithoutBeat' = Tail(WithoutBeat)
    BY <1>1, <1>4, WithoutTail, Distinct DEF Clear, WithoutBeat
  <2>2. UNCHANGED CorePc
    BY <1>4 DEF Clear, CorePc
  <2> QED
    BY <1>4, <2>1, <2>2 DEF Clear, Core!Clear
<1>5. CASE BrokerShutdown
  <2>1. ~In(queue, Main) /\ phase = "stopping" /\ queue' = Append(WithoutBeat, Main)
    BY <1>5 DEF BrokerShutdown, LockInv, LockExact
  <2>2. /\ WithoutBeat \in Seq(Tasks \ {Beat})
        /\ NoTwice(WithoutBeat)
        /\ \A x : In(WithoutBeat, x) <=> In(queue, x) /\ x # Beat
    BY <1>1, WithoutIn DEF WithoutBeat
  <2>3. \A i \in 1..Len(WithoutBeat) : WithoutBeat[i] # Main
    BY <2>1, <2>2 DEF In
  <2>4. WithoutBeat' = Append(WithoutBeat, Main)
    <3> DEFINE r == WithoutBeat
    <3> HIDE DEF r
    <3>1. r \in Seq(Tasks \ {Beat}) /\ NoTwice(r) /\ ~In(r, Main) /\ ~In(r, Beat)
      BY <2>1, <2>2, Distinct DEF r
    <3>2. Without(Append(r, Main), Beat) = Append(Without(r, Beat), Main)
      BY <3>1, WithoutAppend, Distinct DEF Tasks
    <3>3. Without(r, Beat) = r
      BY <3>1 DEF Without
    <3> QED
      BY <2>1, <3>2, <3>3 DEF WithoutBeat, r
  <2>5. UNCHANGED CorePc
    BY <1>5 DEF BrokerShutdown, CorePc
  <2> QED
    BY <1>5, <2>1, <2>3, <2>4, <2>5 DEF BrokerShutdown, Core!Shutdown
<1> QED
  BY <1>2, <1>3, <1>4, <1>5

\* The steps of the broker, one by one.
LEMMA CoreStep == LockInv /\ [BrokerNext]_allVars => [Core!Next]_(Core!vars)
<1> SUFFICES ASSUME LockInv, [BrokerNext]_allVars PROVE [Core!Next]_(Core!vars)
  OBVIOUS
<1>1. ASSUME NEW s \in Conns, Ask(s) \/ Serve(s) PROVE Core!Next
  BY <1>1, CoreServer DEF Core!Next, Core!Handle
<1>2. ASSUME NEW s \in Conns,
             Broke(s) \/ \E i \in Ids : SendAnswer(s, i) \/ \E v \in Names : SendOffer(s, v, i)
      PROVE  Core!Next
  BY <1>2, CoreBroker DEF Core!Next, Core!Handle
<1>3. CASE Heartbeat
  BY <1>3, CoreBeat
<1>4. CASE BrokerShutdown \/ Stop \/ Clear \/ Done
  BY <1>4, CoreMain DEF Core!Next
<1>5. CASE UNCHANGED vars
  BY <1>5 DEF vars, tables, registry, control, CorePc, WithoutBeat,
              Core!vars, Core!tables, Core!registry, Core!control
<1> QED
  BY <1>1, <1>2, <1>3, <1>4, <1>5 DEF BrokerNext, ShutdownRaises, Aborted, allVars

\* The two start alike.
LEMMA CoreInit == BrokerInit => Core!Init
<1> SUFFICES ASSUME BrokerInit PROVE Core!Init
  OBVIOUS
<1>1. CorePc = [s \in Conns |-> "absent"]
  BY DEF BrokerInit, Init, CorePc
<1>2. WithoutBeat = <<>>
  BY DEF BrokerInit, Init, WithoutBeat, Without, In
<1> QED
  BY <1>1, <1>2 DEF BrokerInit, Init, Core!Init

\* The broker, its heartbeat included, takes only steps that the registry of
\* ChatServer allows.
THEOREM ImplementsCore == BrokerSpec => CoreSpec
BY CoreInit, CoreStep, LockCorrect, PTL DEF BrokerSpec, CoreSpec, Core!Spec

-----------------------------------------------------------------------------
(* The registry under the broker: what is proved of ChatServer.             *)

Reg == INSTANCE ChatServerProofs WITH pc <- CorePc, queue <- WithoutBeat

\* Core and Reg are the same specification; and so are its invariants.
LEMMA SameInit == Core!Init => Reg!Init
BY DEF Core!Init, Reg!Init

\* Nor do their steps differ.
LEMMA SameNext == [Core!Next]_(Core!vars) => [Reg!Next]_(Reg!vars)
BY DEF Core!Next, Reg!Next, Core!vars, Reg!vars, Core!tables, Reg!tables,
  Core!registry, Reg!registry, Core!control, Reg!control, Core!Ask, Reg!Ask,
  Core!Lookup, Reg!Lookup, Core!Handle, Reg!Handle, Core!Serve, Reg!Serve,
  Core!Read, Reg!Read, Core!Stop, Reg!Stop, Core!Shutdown, Reg!Shutdown,
  Core!Clear, Reg!Clear, Core!Done, Reg!Done, Core!Accept, Reg!Accept,
  Core!RegisterUser, Reg!RegisterUser, Core!VerifyLogin, Reg!VerifyLogin,
  Core!CmdCreate, Reg!CmdCreate, Core!CmdJoin, Reg!CmdJoin,
  Core!CmdLogout, Reg!CmdLogout, Core!Hangup, Reg!Hangup, Core!Enter, Reg!Enter,
  Core!LoginAdmit, Reg!LoginAdmit, Core!LoginRefuse, Reg!LoginRefuse,
  Core!Unhold, Reg!Unhold, Core!Welcome, Reg!Welcome, Core!Greet, Reg!Greet,
  Core!Logout, Reg!Logout, Core!Farewell, Reg!Farewell, Core!Make, Reg!Make,
  Core!Join, Reg!Join, Core!Part, Reg!Part, Core!CleanSession, Reg!CleanSession,
  Core!CleanOrphan, Reg!CleanOrphan, Core!Drop, Reg!Drop, Core!DropDone, Reg!DropDone,
  Core!DropRaises, Reg!DropRaises, Core!Peek, Reg!Peek, Core!PeekDone, Reg!PeekDone,
  Core!PeekRefused, Reg!PeekRefused, Core!Wait, Reg!Wait, Core!Move, Reg!Move,
  Core!Turn, Reg!Turn, Core!Release, Reg!Release, Core!Return, Reg!Return,
  Core!Again, Reg!Again, Core!Serving, Reg!Serving, Core!Stored, Reg!Stored,
  Core!Unregister, Reg!Unregister

\* Nor their invariants.
LEMMA SameInv == Reg!IInv => Core!IInv
BY DEF Core!IInv, Reg!IInv, Core!TypeOK, Reg!TypeOK, Core!RegistryExact, Reg!RegistryExact,
  Core!MembershipExact, Reg!MembershipExact, Core!RowsExist, Reg!RowsExist,
  Core!HandlerInv, Reg!HandlerInv, Core!NoTwins, Reg!NoTwins,
  Core!Labels, Reg!Labels, Core!Queued, Reg!Queued

\* What the instance assumes of the tables is assumed here.
LEMMA Tables == /\ UsersFile \subseteq Names /\ Reg!NoTwins(UsersFile)
                /\ ChannelsFile \subseteq Channels /\ Reg!NoTwins(ChannelsFile)
BY UsersAssumption, ChannelsAssumption DEF NoTwins, Reg!NoTwins

\* The broker implements what ChatServerProofs is about.
LEMMA RegSpec == BrokerSpec => Reg!Spec
BY ImplementsCore, SameInit, SameNext, PTL DEF CoreSpec, Core!Spec, Reg!Spec

\* The invariant of ChatServer holds of the broker.
LEMMA RegistryInv == BrokerSpec => []Core!IInv
<1>1. Reg!Spec => []Reg!IInv
  BY Reg!Inductive, Tables, GeneralAssumption, NoneAssumption, MainAssumption
<1> QED
  BY <1>1, RegSpec, SameInv, PTL

\* Whatever offers and heartbeat do in between, the registry and the member
\* lists stay exact, their names stay rows, and an account is logged in once.
THEOREM RegistryKept ==
  BrokerSpec => [](RegistryExact /\ MembershipExact /\ RowsExist /\ OneLoginPerAccount)
<1>1. Core!IInv => RegistryExact /\ MembershipExact /\ RowsExist
  BY DEF Core!IInv, Core!RegistryExact, RegistryExact, Core!MembershipExact, MembershipExact,
         Core!RowsExist, RowsExist, Core!NoTwins, NoTwins
<1>2. Reg!Spec => []Reg!OneLoginPerAccount
  BY Reg!OneLogin, Tables, GeneralAssumption, NoneAssumption, MainAssumption
<1>3. Reg!OneLoginPerAccount => OneLoginPerAccount
  BY DEF Reg!OneLoginPerAccount, OneLoginPerAccount
<1> QED
  BY <1>1, <1>2, <1>3, RegSpec, RegistryInv, PTL

\* So the member lists move between users and channels as Presence says.
THEOREM PresenceKept == BrokerSpec => PresenceSpec
<1>1. Reg!Spec => Reg!PresenceSpec
  BY Reg!ImplementsPresence, Tables, GeneralAssumption, NoneAssumption, MainAssumption
<1>2. Reg!P!Init => P!Init
  BY DEF Reg!P!Init, P!Init, Reg!Listed, Listed
<1>3. [Reg!P!Next]_(Reg!P!vars) => [P!Next]_(P!vars)
  BY DEF Reg!P!Next, P!Next, Reg!P!vars, P!vars, Reg!Listed, Listed,
         Reg!P!Arrive, P!Arrive, Reg!P!Leave, P!Leave, Reg!P!Switch, P!Switch,
         Reg!P!Close, P!Close, Reg!P!Closed, P!Closed, Reg!P!Offline, P!Offline,
         Reg!P!In, P!In, Reg!P!Others, P!Others
<1> QED
  BY <1>1, <1>2, <1>3, RegSpec, PTL DEF Reg!PresenceSpec, PresenceSpec, Reg!P!Spec, P!Spec

\* And no handler of another connection ends a session, answers about offers
\* and their cancellation included.
THEOREM OwnerEndsKept == BrokerSpec => OnlyOwnerEndsSession
<1> DEFINE Step == \A u \in Names :
             sessions[u] # None /\ sessions'[u] # sessions[u] /\ phase' # "cleared"
             => pc[sessions[u]] \in {"logout", "clean"} /\ sessions'[u] = None
           CoreStep1 == \A u \in Names :
             sessions[u] # None /\ sessions'[u] # sessions[u] /\ phase' # "cleared"
             => CorePc[sessions[u]] \in {"logout", "clean"} /\ sessions'[u] = None
<1>1. Reg!Spec => Reg!OnlyOwnerEndsSession
  BY Reg!OnlyOwnerEnds, Tables, GeneralAssumption, NoneAssumption, MainAssumption
<1>2. Core!IInv /\ [CoreStep1]_(Reg!vars) => [Step]_vars
  BY DEF Reg!vars, Reg!registry, vars, registry, CorePc, Core!IInv, Core!TypeOK
<1>3. Reg!OnlyOwnerEndsSession => [][CoreStep1]_(Reg!vars)
  BY PTL DEF Reg!OnlyOwnerEndsSession
<1> QED
  BY <1>1, <1>2, <1>3, RegSpec, RegistryInv, PTL DEF OnlyOwnerEndsSession

-----------------------------------------------------------------------------
(* The offers.                                                              *)

\* The part of OfferInv about self.offers, the messages, and the ids.
BookType ==
  /\ offers \in [Ids -> Offer \cup {None}]
  /\ fate \in [Ids -> Fates]
  /\ todo \in [Conns \cup {Beat} -> SUBSET Notice]
  /\ told \in [Ids -> SUBSET (Conns \X Kinds)]

BookInv ==
  /\ BookType
  /\ \A i \in Ids : fate[i] = "unused" => told[i] = {}
  /\ \A i \in Ids : fate[i] = "pending" <=> offers[i] # None
  /\ OneFate
  /\ BoundInv

\* The part about the handlers' locals.
AskPart ==
  /\ ask \in [Conns -> Request \cup {None}]
  /\ dest \in [Conns -> Conns \cup {None}]
  /\ \A s \in Conns : AskInv(s)
  /\ \A s, t \in Conns :
       pc[s] \in {"seek", "put"} /\ pc[t] \in {"seek", "put"} /\ s # t => ask[s].id # ask[t].id

\* The two parts, and the types the lock accounts for, are OfferInv.
LEMMA OfferParts ==
  OfferInv /\ LockInv <=> LockInv /\ BookInv /\ AskPart /\ lost \subseteq Notice
BY DEF OfferInv, BrokerTypeOK, FateInv, BookInv, BookType, AskPart, LockInv, LockType, Tasks

\* Steps that leave the offers alone and write no message.
LEMMA BookQuiet ==
  ASSUME BookInv, UNCHANGED <<offers, fate, told>>,
         todo' \in [Conns \cup {Beat} -> SUBSET Notice],
         \A t \in Conns \cup {Beat} : todo'[t] \subseteq todo[t]
  PROVE  BookInv'
<1>1. BookType' /\ OneFate'
  BY DEF BookInv, BookType, OneFate
<1>2. BoundInv'
  BY DEF BookInv, BoundInv, Made, Pending
<1> QED
  BY <1>1, <1>2 DEF BookInv

\* A message is written to whoever it finds: what it says is the offer's fate.
LEMMA BookDeliver ==
  ASSUME BookInv, UNCHANGED <<offers, fate>>, sessions \in [Names -> Conns \cup {None}],
         NEW t \in Conns \cup {Beat}, NEW n \in todo[t], Deliver(n),
         todo' \in [Conns \cup {Beat} -> SUBSET Notice],
         \A x \in Conns \cup {Beat} : todo'[x] \subseteq todo[x]
  PROVE  BookInv'
<1>1. n \in Notice /\ n.id \in Ids /\ n.kind = fate[n.id] /\ n.kind \in Kinds
  BY DEF BookInv, BookType, OneFate, Notice
<1>2. Found(n.to) \subseteq Conns
  BY DEF Found, Stored
<1>3. \A i \in Ids : told'[i] = IF i = n.id THEN told[i] \cup (Found(n.to) \X {n.kind}) ELSE told[i]
  BY <1>1 DEF Deliver, BookInv, BookType
<1>0. \A s, k : <<s, k>> \in Found(n.to) \X {n.kind} => k = n.kind
  OBVIOUS
<1>4. told' \in [Ids -> SUBSET (Conns \X Kinds)]
  <2>1. Found(n.to) \X {n.kind} \subseteq Conns \X Kinds
    BY <1>1, <1>2
  <2> QED
    BY <1>3, <2>1 DEF Deliver, BookInv, BookType
<1>5. \A i \in Ids : fate[i] = "unused" => told'[i] = {}
  BY <1>1, <1>3 DEF BookInv, Kinds
<1>6. OneFate'
  <2>1. ASSUME NEW i \in Ids, NEW s \in Conns, NEW k \in Kinds, <<s, k>> \in told'[i]
        PROVE  k \in {"offered", fate[i]}
    <3>1. <<s, k>> \in told[i] \/ (i = n.id /\ k = n.kind)
      BY <1>3, <1>0, <2>1
    <3> QED
      BY <1>1, <3>1 DEF BookInv, OneFate
  <2> QED
    BY <2>1 DEF BookInv, OneFate
<1>7. BoundInv'
  BY DEF BookInv, BoundInv, Made, Pending
<1> QED
  BY <1>4, <1>5, <1>6, <1>7 DEF BookInv, BookType

\* Offers leave self.offers, with one fate; new messages say that one.
LEMMA BookPop ==
  ASSUME BookInv, UNCHANGED told, NEW gone \in SUBSET Pending,
         NEW f \in Fates \ {"unused", "pending"}, Pop(gone, f),
         todo' \in [Conns \cup {Beat} -> SUBSET Notice],
         \A t \in Conns \cup {Beat} : \A n \in todo'[t] :
            n \in todo[t] \/ (n.id \in gone /\ n.kind = f)
  PROVE  BookInv'
<1>1. \A i \in Ids : /\ offers'[i] = IF i \in gone THEN None ELSE offers[i]
                     /\ fate'[i] = IF i \in gone THEN f ELSE fate[i]
  BY DEF Pop
<1>2. offers' \in [Ids -> Offer \cup {None}] /\ fate' \in [Ids -> Fates]
  BY DEF Pop, BookInv, BookType
<1>3. \A i \in gone : i \in Ids /\ fate[i] = "pending"
  BY DEF Pending, BookInv
<1>4. \A i \in Ids : fate'[i] = "unused" => told'[i] = {}
  BY <1>1 DEF BookInv
<1>5. \A i \in Ids : fate'[i] = "pending" <=> offers'[i] # None
  BY <1>1 DEF BookInv
<1>6. OneFate'
  <2>1. ASSUME NEW i \in Ids, NEW s \in Conns, NEW k \in Kinds, <<s, k>> \in told'[i]
        PROVE  k \in {"offered", fate'[i]}
    <3>1. k \in {"offered", fate[i]}
      BY <2>1 DEF BookInv, OneFate
    <3> QED
      BY <1>1, <1>3, <3>1 DEF Kinds
  <2>2. ASSUME NEW t \in Conns \cup {Beat}, NEW n \in todo'[t]
        PROVE  n.kind = fate'[n.id]
    <3>1. n.id \in Ids /\ n.kind \in Kinds
      BY <2>2 DEF Notice
    <3>2. CASE n.id \in gone /\ n.kind = f
      BY <1>1, <3>1, <3>2
    <3>3. CASE n \in todo[t]
      <4>1. n.kind = fate[n.id]
        BY <3>3 DEF BookInv, OneFate
      <4> QED
        BY <1>1, <1>3, <3>1, <4>1 DEF Kinds
    <3> QED
      BY <2>2, <3>2, <3>3
  <2> QED
    BY <2>1, <2>2 DEF OneFate
<1>7. BoundInv'
  <2>1. ASSUME NEW u \in Names PROVE IsFiniteSet(Made(u)') /\ Cardinality(Made(u)') <= MaxPending
    <3>1. Made(u)' \subseteq Made(u)
      BY <1>1 DEF Made, Pending
    <3>2. IsFiniteSet(Made(u)) /\ Cardinality(Made(u)) <= MaxPending
      BY DEF BookInv, BoundInv
    <3>3. IsFiniteSet(Made(u)') /\ Cardinality(Made(u)') <= Cardinality(Made(u))
      BY <3>1, <3>2, FS_Subset
    <3> QED
      BY <3>2, <3>3, FS_CardinalityType, MaxPendingAssumption
  <2> QED
    BY <2>1 DEF BoundInv
<1> QED
  BY <1>2, <1>4, <1>5, <1>6, <1>7 DEF BookInv, BookType

\* A new offer: the limit was checked in the same section.
LEMMA BookPut ==
  ASSUME BookInv, AskPart, username \in [Conns -> Names \cup {None}],
         NEW s \in Conns, Put(s)
  PROVE  BookInv'
<1> DEFINE i == ask[s].id
           o == [sender |-> username[s], recipient |-> username[dest[s]], from |-> s, via |-> dest[s]]
<1>1. /\ ask[s] # None /\ ask[s] \in Request /\ i \in Ids
      /\ fate[i] = "unused" /\ dest[s] \in Conns /\ username[s] \in Names
  BY DEF Put, Turn, AskPart, AskInv, Request
<1>2. o \in Offer /\ o # None
  BY <1>1, RecordAssumption DEF Offer
<1>3. /\ offers' = [offers EXCEPT ![i] = o]
      /\ fate' = [fate EXCEPT ![i] = "pending"]
      /\ told' = [told EXCEPT ![i] = @ \cup {<<dest[s], "offered">>}]
      /\ todo' = todo
      /\ i \notin Pending /\ Cardinality(Made(username[s])) < MaxPending
  BY DEF Put, MayPut
<1>4. o.sender = username[s]
  OBVIOUS
<1> HIDE DEF o, i
<1>5. BookType'
  <2>1. offers' \in [Ids -> Offer \cup {None}]
    BY <1>1, <1>2, <1>3 DEF BookInv, BookType
  <2>2. fate' \in [Ids -> Fates]
    BY <1>1, <1>3 DEF BookInv, BookType, Fates
  <2>3. told' \in [Ids -> SUBSET (Conns \X Kinds)]
    BY <1>1, <1>3 DEF BookInv, BookType, Kinds
  <2> QED
    BY <1>3, <2>1, <2>2, <2>3 DEF BookInv, BookType
<1>6. \A j \in Ids : fate'[j] = "unused" => told'[j] = {}
  BY <1>1, <1>3 DEF BookInv, BookType
<1>7. \A j \in Ids : fate'[j] = "pending" <=> offers'[j] # None
  BY <1>1, <1>2, <1>3 DEF BookInv, BookType
<1>8. OneFate'
  <2>1. ASSUME NEW j \in Ids, NEW t \in Conns, NEW k \in Kinds, <<t, k>> \in told'[j]
        PROVE  k \in {"offered", fate'[j]}
    BY <1>1, <1>3, <2>1 DEF BookInv, BookType, OneFate
  <2>2. ASSUME NEW t \in Conns \cup {Beat}, NEW n \in todo'[t]
        PROVE  n.kind = fate'[n.id]
    <3>1. n.id \in Ids /\ n.kind \in Kinds /\ n.kind = fate[n.id]
      BY <1>3, <2>2 DEF BookInv, BookType, OneFate, Notice
    <3> QED
      BY <1>1, <1>3, <3>1 DEF BookInv, BookType, Kinds
  <2> QED
    BY <2>1, <2>2 DEF OneFate
<1>9. BoundInv'
  <2>1. ASSUME NEW u \in Names PROVE IsFiniteSet(Made(u)') /\ Cardinality(Made(u)') <= MaxPending
    <3>1. IsFiniteSet(Made(u)) /\ Cardinality(Made(u)) <= MaxPending
      BY DEF BookInv, BoundInv
    <3>2. Made(u)' = IF u = username[s] THEN Made(u) \cup {i} ELSE Made(u)
      BY <1>1, <1>2, <1>3, <1>4 DEF Made, Pending, BookInv, BookType
    <3>3. i \notin Made(u)
      BY <1>3 DEF Made
    <3>4. IsFiniteSet(Made(u) \cup {i}) /\ Cardinality(Made(u) \cup {i}) = Cardinality(Made(u)) + 1
      BY <3>1, <3>3, FS_AddElement
    <3> QED
      BY <1>3, <3>1, <3>2, <3>4, FS_CardinalityType, MaxPendingAssumption
  <2> QED
    BY <2>1 DEF BoundInv
<1> QED
  BY <1>5, <1>6, <1>7, <1>8, <1>9 DEF BookInv

-----------------------------------------------------------------------------
(* The handlers' locals.                                                    *)

\* What the registry's invariant says of the broker's handlers.
LEMMA CoreFacts ==
  ASSUME Core!IInv
  PROVE  /\ username \in [Conns -> Names \cup {None}]
         /\ arg \in [Conns -> Names \cup Channels \cup {None}]
         /\ sessions \in [Names -> Conns \cup {None}]
         /\ RegistryExact
         /\ \A s \in Conns :
              /\ pc[s] = "login" => username[s] = None /\ arg[s] \in Names
              /\ pc[s] = "logout" => /\ username[s] \in Names /\ arg[s] = username[s]
                                     /\ s \in connections
              /\ pc[s] = "put" => s \in connections
<1>1. /\ username \in [Conns -> Names \cup {None}]
      /\ arg \in [Conns -> Names \cup Channels \cup {None}]
      /\ sessions \in [Names -> Conns \cup {None}]
      /\ accounts \subseteq Names
  BY DEF Core!IInv, Core!TypeOK
<1>2. RegistryExact
  BY DEF Core!IInv, Core!RegistryExact, RegistryExact
<1>3. ASSUME NEW s \in Conns
      PROVE  /\ pc[s] = "login" => username[s] = None /\ arg[s] \in Names
             /\ pc[s] = "logout" => /\ username[s] \in Names /\ arg[s] = username[s]
                                    /\ s \in connections
             /\ pc[s] = "put" => s \in connections
  <2>1. Core!HandlerInv(s)
    BY DEF Core!IInv
  <2>2. CorePc[s] = IF pc[s] \in {"seek", "put", "answer", "reply"} THEN "peek"
                    ELSE IF pc[s] = "tell" THEN "drop" ELSE pc[s]
    BY DEF CorePc
  <2> QED
    BY <1>1, <2>1, <2>2 DEF Core!HandlerInv, Core!Labels, Core!Queued
<1> QED
  BY <1>1, <1>2, <1>3

\* The steps of ChatServer: a login, an end of a session, or one that leaves
\* sessions, names and cancellations alone.
LEMMA ServerKinds ==
  ASSUME LockInv, Core!IInv, NEW s \in Conns, Ask(s) \/ Serve(s)
  PROVE  \/ LoginAdmit(s) \/ Logout(s) \/ CleanSession(s)
         \/ /\ UNCHANGED <<sessions, username, phase>>
            /\ pc[s] # "drop" /\ pc'[s] \in Labels \ {"drop"}
            /\ \A t \in Conns \ {s} : pc'[t] = pc[t] /\ arg'[t] = arg[t]
<1> USE CoreFacts DEF Labels, Queued, Wait, Move, Release, Return, Turn, LockInv, LockType
<1>1. ASSUME NEW n \in Names, RegisterUser(s, n) \/ VerifyLogin(s, n)
      PROVE  /\ UNCHANGED <<sessions, username, phase>>
             /\ pc[s] # "drop" /\ pc'[s] \in Labels \ {"drop"}
             /\ \A t \in Conns \ {s} : pc'[t] = pc[t] /\ arg'[t] = arg[t]
  BY <1>1 DEF RegisterUser, VerifyLogin, Serving, registry, control
<1>2. ASSUME NEW c \in Channels, CmdCreate(s, c) \/ CmdJoin(s, c)
      PROVE  /\ UNCHANGED <<sessions, username, phase>>
             /\ pc[s] # "drop" /\ pc'[s] \in Labels \ {"drop"}
             /\ \A t \in Conns \ {s} : pc'[t] = pc[t] /\ arg'[t] = arg[t]
  BY <1>2 DEF CmdCreate, CmdJoin, Serving, registry
<1>3. ASSUME Accept(s) \/ CmdLogout(s) \/ Hangup(s) \/ Enter(s) \/ LoginRefuse(s)
      PROVE  /\ UNCHANGED <<sessions, username, phase>>
             /\ pc[s] # "drop" /\ pc'[s] \in Labels \ {"drop"}
             /\ \A t \in Conns \ {s} : pc'[t] = pc[t] /\ arg'[t] = arg[t]
  BY <1>3 DEF Accept, CmdLogout, Hangup, Enter, LoginRefuse, Serving, registry
<1>4. ASSUME Unhold(s) \/ Welcome(s) \/ Greet(s) \/ Farewell(s)
      PROVE  /\ UNCHANGED <<sessions, username, phase>>
             /\ pc[s] # "drop" /\ pc'[s] \in Labels \ {"drop"}
             /\ \A t \in Conns \ {s} : pc'[t] = pc[t] /\ arg'[t] = arg[t]
  BY <1>4 DEF Unhold, Welcome, Greet, Farewell, registry
<1>5. ASSUME Make(s) \/ Join(s) \/ Part(s) \/ CleanOrphan(s)
      PROVE  /\ UNCHANGED <<sessions, username, phase>>
             /\ pc[s] # "drop" /\ pc'[s] \in Labels \ {"drop"}
             /\ \A t \in Conns \ {s} : pc'[t] = pc[t] /\ arg'[t] = arg[t]
  BY <1>5 DEF Make, Join, Part, CleanOrphan, Again, registry
<1> QED
  BY <1>1, <1>2, <1>3, <1>4, <1>5 DEF Ask, Serve

\* What the steps of the broker leave alone, and the types of the rest.
LEMMA BrokerFrame ==
  ASSUME LockInv, BookInv, AskPart, Core!IInv, NEW s \in Conns,
         Broke(s) \/ \E i \in Ids : SendAnswer(s, i) \/ \E v \in Names : SendOffer(s, v, i)
  PROVE  /\ UNCHANGED <<sessions, username, phase>>
         /\ ask' \in [Conns -> Request \cup {None}]
         /\ dest' \in [Conns -> Conns \cup {None}]
         /\ \A t \in Conns \ {s} : /\ pc'[t] = pc[t] /\ arg'[t] = arg[t]
                                   /\ ask'[t] = ask[t] /\ dest'[t] = dest[t]
         /\ ~TellRaises(s) => UNCHANGED arg
<1> USE CoreFacts DEF Wait, Move, Release, Again, Finish, AskPart, LockInv, LockType, registry
<1> DEFINE Goal == /\ UNCHANGED <<sessions, username, phase>>
                   /\ ask' \in [Conns -> Request \cup {None}]
                   /\ dest' \in [Conns -> Conns \cup {None}]
                   /\ \A t \in Conns \ {s} : /\ pc'[t] = pc[t] /\ arg'[t] = arg[t]
                                             /\ ask'[t] = ask[t] /\ dest'[t] = dest[t]
                   /\ ~TellRaises(s) => UNCHANGED arg
<1>1. ASSUME NEW i \in Ids, NEW v \in Names, SendOffer(s, v, i) PROVE Goal
  <2>1. [to |-> v, id |-> i] \in Request
    BY DEF Request
  <2> QED
    BY <1>1, <2>1 DEF SendOffer
<1>2. CASE Seek(s)
  <2>1. Found(ask[s].to) \subseteq Conns
    BY DEF Found, Stored
  <2>2. PICK d \in Conns : dest' = [dest EXCEPT ![s] = d]
    BY <1>2, <2>1 DEF Seek
  <2> QED
    BY <1>2, <2>2 DEF Seek
<1>3. CASE SeekFails(s) \/ PutRefused(s) \/ TakeFails(s) \/ Reply(s)
  BY <1>3 DEF SeekFails, PutRefused, TakeFails, Reply
<1>4. CASE Put(s)
  BY <1>4 DEF Put
<1>5. CASE Take(s, "accepted") \/ Take(s, "declined") \/ TakeVoid(s)
  BY <1>5 DEF Take, TakeVoid
<1>6. CASE Cancel(s) \/ Tell(s)
  BY <1>6 DEF Cancel, Tell
<1>7. CASE TellRaises(s)
  BY <1>7 DEF TellRaises
<1>8. ASSUME NEW i \in Ids, SendAnswer(s, i) PROVE Goal
  <2>1. [to |-> None, id |-> i] \in Request
    BY DEF Request
  <2> QED
    BY <1>8, <2>1 DEF SendAnswer
<1> QED
  BY <1>1, <1>2, <1>3, <1>4, <1>5, <1>6, <1>7, <1>8 DEF Broke


\* The locals of all handlers after a step of one.
LEMMA AskStep ==
  ASSUME AskPart, NEW s \in Conns,
         ask' \in [Conns -> Request \cup {None}],
         dest' \in [Conns -> Conns \cup {None}],
         \A t \in Conns \ {s} :
            /\ pc'[t] = pc[t] /\ arg'[t] = arg[t] /\ username'[t] = username[t]
            /\ ask'[t] = ask[t] /\ dest'[t] = dest[t]
            /\ pc[t] \in {"seek", "put"} => fate'[ask[t].id] = "unused",
         AskInv(s)',
         pc'[s] \in {"seek", "put"} =>
           \A t \in Conns \ {s} : pc[t] \in {"seek", "put"} => ask[t].id # ask'[s].id
  PROVE  AskPart'
<1>1. ASSUME NEW t \in Conns PROVE AskInv(t)'
  BY DEF AskPart, AskInv
<1>2. ASSUME NEW t \in Conns, NEW x \in Conns,
             pc'[x] \in {"seek", "put"}, pc'[t] \in {"seek", "put"}, x # t
      PROVE  ask'[x].id # ask'[t].id
  BY <1>2 DEF AskPart
<1> QED
  BY <1>1, <1>2 DEF AskPart

\* The steps of ChatServer keep the locals of offers and answers.
LEMMA AskServer ==
  ASSUME LockInv, BookInv, AskPart, Core!IInv, NEW s \in Conns, Ask(s) \/ Serve(s),
         UNCHANGED broker
  PROVE  AskPart'
<1> USE CoreFacts DEF Labels, Queued, LockInv, LockType
<1>1. CASE LoginAdmit(s) \/ Logout(s) \/ CleanSession(s)
  <2>1. /\ pc'[s] \in {"welcome", "drop"} /\ (pc'[s] = "drop" => arg'[s] \in Names)
        /\ \A t \in Conns \ {s} : /\ pc'[t] = pc[t] /\ arg'[t] = arg[t]
                                  /\ username'[t] = username[t]
    BY <1>1 DEF LoginAdmit, Logout, CleanSession, Turn, Release, Again, Move
  <2>2. AskInv(s)'
    BY <2>1 DEF AskInv
  <2> QED
    BY <2>1, <2>2, AskStep DEF AskPart, AskInv, broker
<1>2. CASE /\ UNCHANGED <<sessions, username, phase>>
           /\ pc[s] # "drop" /\ pc'[s] \in Labels \ {"drop"}
           /\ \A t \in Conns \ {s} : pc'[t] = pc[t] /\ arg'[t] = arg[t]
  <2>1. AskInv(s)'
    BY <1>2 DEF AskInv
  <2> QED
    BY <1>2, <2>1, AskStep DEF AskPart, AskInv, broker
<1> QED
  BY <1>1, <1>2, ServerKinds

\* Ids in self.offers, or answered, are not those of offers on their way.
LEMMA UnusedKept ==
  ASSUME BookInv, AskPart, NEW gone \in SUBSET Pending, NEW f, Pop(gone, f), NEW t \in Conns,
         pc[t] \in {"seek", "put"}
  PROVE  fate'[ask[t].id] = "unused"
BY DEF BookInv, Pending, Pop, AskPart, AskInv, Request

\* The sections of the broker set and use them as AskInv says.
LEMMA AskBroker ==
  ASSUME LockInv, BookInv, AskPart, Core!IInv, NEW s \in Conns,
         Broke(s) \/ \E i \in Ids : SendAnswer(s, i) \/ \E v \in Names : SendOffer(s, v, i)
  PROVE  AskPart'
<1>1. /\ UNCHANGED <<sessions, username, phase>>
      /\ ask' \in [Conns -> Request \cup {None}]
      /\ dest' \in [Conns -> Conns \cup {None}]
      /\ \A t \in Conns \ {s} : /\ pc'[t] = pc[t] /\ arg'[t] = arg[t]
                                /\ ask'[t] = ask[t] /\ dest'[t] = dest[t]
      /\ ~TellRaises(s) => UNCHANGED arg
  BY BrokerFrame
<1>2. AskInv(s) /\ (ask[s] # None => ask[s].id \in Ids)
  BY DEF AskPart, Request
<1>0. ASSUME NEW t \in Conns, pc[t] \in {"seek", "put"}
      PROVE  fate[ask[t].id] = "unused" /\ ask[t].id \in Ids
  BY <1>0 DEF AskPart, AskInv, Request
<1> USE DEF Wait, Move, Release, Again, Finish, LockInv, LockType
<1>3. ASSUME NEW i \in Ids, NEW v \in Names, SendOffer(s, v, i) PROVE AskPart'
  <2>1. /\ pc'[s] = "seek" /\ ask'[s] = [to |-> v, id |-> i] /\ UNCHANGED <<fate, username>>
        /\ username[s] # None /\ fate[i] = "unused"
        /\ \A t \in Conns : ask[t] # None => ask[t].id # i
    BY <1>3 DEF SendOffer, FreshId, AskPart, registry
  <2>2. ask'[s] # None
    BY <2>1, RecordAssumption DEF Request
  <2>3. AskInv(s)'
    BY <2>1, <2>2 DEF AskInv
  <2>4. \A t \in Conns \ {s} : pc[t] \in {"seek", "put"} => ask[t].id # ask'[s].id
    BY <2>1 DEF AskPart, AskInv
  <2> QED
    BY <1>1, <1>0, <2>1, <2>3, <2>4, AskStep
<1>4. ASSUME NEW i \in Ids, SendAnswer(s, i) PROVE AskPart'
  <2>1. /\ pc'[s] = "answer" /\ ask'[s] = [to |-> None, id |-> i] /\ UNCHANGED <<fate, username>>
    BY <1>4 DEF SendAnswer, AskPart, registry
  <2>2. ask'[s] # None
    BY <2>1, RecordAssumption DEF Request
  <2>3. AskInv(s)'
    BY <2>1, <2>2 DEF AskInv
  <2> QED
    BY <1>1, <1>0, <2>1, <2>3, AskStep
<1>5. CASE Seek(s)
  <2>1. /\ pc[s] = "seek" /\ pc'[s] = "put" /\ UNCHANGED <<ask, fate>>
    BY <1>5 DEF Seek, Turn
  <2>2. dest'[s] \in Conns
    <3>1. Found(ask[s].to) \subseteq Conns
      BY CoreFacts DEF Found, Stored
    <3> QED
      BY <1>5, <3>1 DEF Seek, AskPart
  <2>3. AskInv(s)'
    BY <1>1, <1>2, <2>1, <2>2 DEF AskInv
  <2>4. \A t \in Conns \ {s} : pc[t] \in {"seek", "put"} => ask[t].id # ask'[s].id
    BY <2>1 DEF AskPart
  <2> QED
    BY <1>1, <1>0, <2>1, <2>3, <2>4, AskStep
<1>6. CASE SeekFails(s) \/ PutRefused(s) \/ TakeFails(s) \/ Reply(s)
  <2>1. pc'[s] \in {"read", "hold"} /\ UNCHANGED fate
    BY <1>6 DEF SeekFails, PutRefused, TakeFails, Reply
  <2>2. AskInv(s)'
    BY <2>1 DEF AskInv
  <2> QED
    BY <1>1, <1>0, <2>1, <2>2, AskStep
<1>7. CASE Put(s)
  <2>1. /\ pc[s] = "put" /\ pc'[s] = "read" /\ fate' = [fate EXCEPT ![ask[s].id] = "pending"]
    BY <1>7 DEF Put, Turn
  <2>2. AskInv(s)'
    BY <2>1 DEF AskInv
  <2>3. ASSUME NEW t \in Conns \ {s}, pc[t] \in {"seek", "put"} PROVE fate'[ask[t].id] = "unused"
    BY <1>0, <2>1, <2>3 DEF AskPart, BookInv, BookType
  <2> QED
    BY <1>1, <2>1, <2>2, <2>3, AskStep
<1>8. CASE Take(s, "accepted") \/ Take(s, "declined") \/ TakeVoid(s)
  <2>1. pc'[s] \in {"reply", "read"} /\ (pc'[s] = "reply" => pc[s] = "answer" /\ UNCHANGED ask)
    BY <1>8 DEF Take, TakeVoid, Turn
  <2>2. AskInv(s)'
    BY <1>2, <2>1 DEF AskInv
  <2>3. PICK f : Pop({ask[s].id}, f) /\ {ask[s].id} \in SUBSET Pending
    BY <1>8 DEF Take, TakeVoid, IsRecipient
  <2> QED
    BY <1>1, <2>1, <2>2, <2>3, UnusedKept, AskStep
<1>9. CASE Cancel(s)
  <2>1. pc'[s] \in {"farewell", "tell"} /\ Pop(PartyTo(arg[s]), "left")
    BY <1>9 DEF Cancel, AfterTold
  <2>2. AskInv(s)'
    BY <2>1 DEF AskInv
  <2>3. PartyTo(arg[s]) \in SUBSET Pending
    BY DEF PartyTo
  <2> QED
    BY <1>1, <2>1, <2>2, <2>3, UnusedKept, AskStep
<1>10. CASE Tell(s) \/ TellRaises(s)
  <2>1. pc'[s] \in {"farewell", "tell", "clean", "closed"} /\ UNCHANGED fate
    BY <1>10 DEF Tell, TellRaises, AfterTold
  <2>2. AskInv(s)'
    BY <2>1 DEF AskInv
  <2> QED
    BY <1>1, <1>0, <2>1, <2>2, AskStep
<1> QED
  BY <1>3, <1>4, <1>5, <1>6, <1>7, <1>8, <1>9, <1>10 DEF Broke

-----------------------------------------------------------------------------
(* The offers, step by step.                                                *)

\* Notices go to the parties, about the ids given.
LEMMA NoticesType ==
  ASSUME NEW gone \in SUBSET Ids, NEW parties, NEW k \in Kinds
  PROVE  /\ Notices(gone, parties, k) \in SUBSET Notice
         /\ \A n \in Notices(gone, parties, k) : n.id \in gone /\ n.kind = k
BY DEF Notices, Notice

\* The sections of the broker keep the offers and messages in order.
LEMMA BookBroker ==
  ASSUME LockInv, BookInv, AskPart, Core!IInv, NEW s \in Conns,
         Broke(s) \/ \E i \in Ids : SendAnswer(s, i) \/ \E v \in Names : SendOffer(s, v, i)
  PROVE  BookInv'
<1>1. todo \in [Conns \cup {Beat} -> SUBSET Notice] /\ s \in Conns \cup {Beat}
  BY DEF BookInv, BookType
<1>2. /\ sessions \in [Names -> Conns \cup {None}]
      /\ username \in [Conns -> Names \cup {None}]
      /\ arg \in [Conns -> Names \cup Channels \cup {None}]
  BY CoreFacts
<1>3. ASSUME NEW i \in Ids, SendAnswer(s, i) \/ \E v \in Names : SendOffer(s, v, i)
      PROVE  BookInv'
  BY <1>1, <1>3, BookQuiet DEF SendOffer, SendAnswer
<1>4. CASE Seek(s) \/ SeekFails(s) \/ PutRefused(s) \/ TakeFails(s)
  BY <1>1, <1>4, BookQuiet DEF Seek, SeekFails, PutRefused, TakeFails
<1>5. CASE Put(s)
  BY <1>2, <1>5, BookPut
<1>6. ASSUME NEW f \in {"accepted", "declined"}, Take(s, f) PROVE BookInv'
  <2> DEFINE i == ask[s].id
             n == [to |-> offers[i].sender, id |-> i, kind |-> f]
  <2>1. i \in Pending /\ Pop({i}, f) /\ UNCHANGED told /\ todo' = [todo EXCEPT ![s] = {n}]
    BY <1>6 DEF Take, IsRecipient
  <2>2. i \in Ids /\ offers[i] \in Offer
    BY <2>1 DEF Pending, BookInv, BookType
  <2>3. n \in Notice /\ n.id = i /\ n.kind = f
    BY <2>2 DEF Offer, Notice, Kinds
  <2> HIDE DEF n, i
  <2>4. todo' \in [Conns \cup {Beat} -> SUBSET Notice]
    BY <1>1, <2>1, <2>3
  <2>5. \A t \in Conns \cup {Beat} : \A m \in todo'[t] :
           m \in todo[t] \/ (m.id \in {i} /\ m.kind = f)
    BY <1>1, <2>1, <2>3
  <2>6. f \in Fates \ {"unused", "pending"} /\ {i} \in SUBSET Pending
    BY <2>1 DEF Fates
  <2> QED
    BY <2>1, <2>4, <2>5, <2>6, BookPop
<1>7. CASE TakeVoid(s)
  <2>1. {ask[s].id} \in SUBSET Pending /\ Pop({ask[s].id}, "void") /\ UNCHANGED <<told, todo>>
    BY <1>7 DEF TakeVoid, IsRecipient
  <2>2. "void" \in Fates \ {"unused", "pending"}
    BY DEF Fates
  <2> QED
    BY <1>1, <2>1, <2>2, BookPop
<1>8. CASE Reply(s)
  <2>1. PICK n \in todo[s] : Deliver(n)
    BY <1>8 DEF Reply
  <2>2. UNCHANGED <<offers, fate>> /\ todo' = [todo EXCEPT ![s] = {}]
    BY <1>8 DEF Reply
  <2>3. /\ todo' \in [Conns \cup {Beat} -> SUBSET Notice]
        /\ \A x \in Conns \cup {Beat} : todo'[x] \subseteq todo[x]
    BY <1>1, <2>2
  <2> QED
    BY <1>1, <1>2, <2>1, <2>2, <2>3, BookDeliver
<1>9. CASE Cancel(s)
  <2> DEFINE gone == PartyTo(arg[s])
             other == [i \in gone |-> {IF offers[i].sender = arg[s] THEN offers[i].recipient
                                       ELSE offers[i].sender}]
             new == Notices(gone, other, "left")
  <2>1. Pop(gone, "left") /\ UNCHANGED told /\ todo' = [todo EXCEPT ![s] = new]
    BY <1>9 DEF Cancel
  <2>2. gone \in SUBSET Pending /\ gone \in SUBSET Ids
    BY DEF PartyTo, Pending
  <2>3. "left" \in Kinds /\ "left" \in Fates \ {"unused", "pending"}
    BY DEF Kinds, Fates
  <2>4. new \in SUBSET Notice /\ \A n \in new : n.id \in gone /\ n.kind = "left"
    BY <2>2, <2>3, NoticesType
  <2> HIDE DEF new, other, gone
  <2>5. /\ todo' \in [Conns \cup {Beat} -> SUBSET Notice]
        /\ \A t \in Conns \cup {Beat} : \A n \in todo'[t] :
             n \in todo[t] \/ (n.id \in gone /\ n.kind = "left")
    BY <1>1, <2>1, <2>4
  <2> QED
    BY <2>1, <2>2, <2>3, <2>5, BookPop
<1>10. CASE Tell(s)
  <2>1. PICK n \in todo[s] : Deliver(n) /\ todo' = [todo EXCEPT ![s] = @ \ {n}]
    BY <1>10 DEF Tell
  <2>2. UNCHANGED <<offers, fate>>
    BY <1>10 DEF Tell
  <2>3. /\ todo' \in [Conns \cup {Beat} -> SUBSET Notice]
        /\ \A x \in Conns \cup {Beat} : todo'[x] \subseteq todo[x]
    BY <1>1, <2>1
  <2> QED
    BY <1>1, <1>2, <2>1, <2>2, <2>3, BookDeliver
<1>11. CASE TellRaises(s)
  <2>1. UNCHANGED <<offers, fate, told>> /\ todo' = [todo EXCEPT ![s] = {}]
    BY <1>11 DEF TellRaises
  <2> QED
    BY <1>1, <2>1, BookQuiet
<1> QED
  BY <1>3, <1>4, <1>5, <1>6, <1>7, <1>8, <1>9, <1>10, <1>11 DEF Broke

\* The heartbeat, and the shutdown.
LEMMA BookBeat ==
  ASSUME BookInv, Core!IInv, Heartbeat \/ BrokerShutdown
  PROVE  BookInv'
<1>1. todo \in [Conns \cup {Beat} -> SUBSET Notice] /\ Beat \in Conns \cup {Beat}
  BY DEF BookInv, BookType
<1>2. sessions \in [Names -> Conns \cup {None}]
  BY CoreFacts
<1>3. CASE BeatWakes
  BY <1>1, <1>3, BookQuiet DEF BeatWakes
<1>4. CASE BeatDies \/ BrokerShutdown
  <2>1. UNCHANGED <<offers, fate, told>> /\ todo' = [todo EXCEPT ![Beat] = {}]
    BY <1>4 DEF BeatDies, BrokerShutdown
  <2> QED
    BY <1>1, <2>1, BookQuiet
<1>5. CASE BeatTells
  <2>1. PICK n \in todo[Beat] : Deliver(n) /\ todo' = [todo EXCEPT ![Beat] = todo[Beat] \ {n}]
    BY <1>5 DEF BeatTells, BeatGoes
  <2>2. UNCHANGED <<offers, fate>>
    BY <1>5 DEF BeatTells
  <2>3. /\ todo' \in [Conns \cup {Beat} -> SUBSET Notice]
        /\ \A x \in Conns \cup {Beat} : todo'[x] \subseteq todo[x]
    BY <1>1, <2>1
  <2> QED
    BY <1>1, <1>2, <2>1, <2>2, <2>3, BookDeliver
<1>6. ASSUME NEW old \in SUBSET Pending, Expire(old) PROVE BookInv'
  <2> DEFINE both == [i \in old |-> {offers[i].sender, offers[i].recipient}]
             new == Notices(old, both, "expired")
  <2>1. Pop(old, "expired") /\ UNCHANGED told /\ todo' = [todo EXCEPT ![Beat] = new]
    BY <1>6 DEF Expire, BeatGoes
  <2>2. old \in SUBSET Ids
    BY DEF Pending
  <2>3. "expired" \in Kinds /\ "expired" \in Fates \ {"unused", "pending"}
    BY DEF Kinds, Fates
  <2>4. new \in SUBSET Notice /\ \A n \in new : n.id \in old /\ n.kind = "expired"
    BY <2>2, <2>3, NoticesType
  <2> HIDE DEF new, both
  <2>5. /\ todo' \in [Conns \cup {Beat} -> SUBSET Notice]
        /\ \A t \in Conns \cup {Beat} : \A n \in todo'[t] :
             n \in todo[t] \/ (n.id \in old /\ n.kind = "expired")
    BY <1>1, <2>1, <2>4
  <2> QED
    BY <2>1, <2>3, <2>5, BookPop
<1> QED
  BY <1>3, <1>4, <1>5, <1>6 DEF Heartbeat

\* The heartbeat expires no offer that is still on its way.
LEMMA AskBeat ==
  ASSUME BookInv, AskPart, Heartbeat \/ BrokerShutdown
  PROVE  AskPart'
<1>1. UNCHANGED <<pc, arg, username, ask, dest>>
  BY DEF Heartbeat, BeatWakes, BeatTells, BeatDies, Expire, BrokerShutdown, registry
<1>2. ASSUME NEW t \in Conns, pc[t] \in {"seek", "put"}
      PROVE  fate'[ask[t].id] = "unused"
  <2>1. fate[ask[t].id] = "unused"
    BY <1>2 DEF AskPart, AskInv
  <2>2. CASE UNCHANGED fate
    BY <2>1, <2>2
  <2>3. ASSUME NEW old \in SUBSET Pending, Expire(old) PROVE fate'[ask[t].id] = "unused"
    BY <1>2, <2>3, UnusedKept DEF Expire
  <2> QED
    BY <2>2, <2>3 DEF Heartbeat, BeatWakes, BeatTells, BeatDies, BrokerShutdown
<1> QED
  BY <1>1, <1>2 DEF AskPart, AskInv

\* No offers at first.
LEMMA OfferInit == BrokerInit => OfferInv
<1> SUFFICES ASSUME BrokerInit PROVE OfferInv
  OBVIOUS
<1>1. LockInv
  BY LockInit
<1>2. BookInv
  <2>1. BookType /\ OneFate
    BY DEF BrokerInit, BookType, OneFate, Fates
  <2>2. \A u \in Names : Made(u) = {}
    BY DEF BrokerInit, Made, Pending
  <2>3. BoundInv
    BY <2>2, FS_EmptySet, MaxPendingAssumption DEF BoundInv
  <2> QED
    BY <2>1, <2>3 DEF BrokerInit, BookInv
<1>3. AskPart
  BY DEF BrokerInit, Init, AskPart, AskInv
<1>4. lost \subseteq Notice
  BY DEF BrokerInit
<1> QED
  BY <1>1, <1>2, <1>3, <1>4, OfferParts

\* What is lost was to be sent.
LEMMA LostType ==
  ASSUME BookInv, lost \subseteq Notice, [BrokerNext]_allVars
  PROVE  lost' \subseteq Notice
<1>1. \A t \in Conns \cup {Beat} : todo[t] \subseteq Notice
  BY DEF BookInv, BookType
<1>2. CASE UNCHANGED lost
  BY <1>2
<1>3. ASSUME NEW s \in Conns, TellRaises(s) PROVE lost' \subseteq Notice
  BY <1>1, <1>3 DEF TellRaises
<1>4. CASE BeatDies \/ BrokerShutdown
  BY <1>1, <1>4 DEF BeatDies, BrokerShutdown
<1> QED
  BY <1>2, <1>3, <1>4
     DEF BrokerNext, Broke, Seek, SeekFails, Put, PutRefused, Take, TakeVoid, TakeFails,
         Reply, Cancel, Tell, SendAnswer, SendOffer, Heartbeat, BeatWakes, BeatTells, Expire,
         ShutdownRaises, Aborted, broker, allVars

\* OfferInv is inductive.
LEMMA OfferNext == LockInv /\ OfferInv /\ Core!IInv /\ [BrokerNext]_allVars => OfferInv'
<1> SUFFICES ASSUME LockInv, OfferInv, Core!IInv, [BrokerNext]_allVars PROVE OfferInv'
  OBVIOUS
<1>1. LockInv' /\ BookInv /\ AskPart /\ lost \subseteq Notice
  BY LockNext, OfferParts
<1>2. BookInv' /\ AskPart'
  <2>0. UNCHANGED <<offers, fate, told, todo>> => BookInv'
    BY <1>1, BookQuiet DEF BookInv, BookType
  <2>1. ASSUME NEW s \in Conns, Ask(s) \/ Serve(s), UNCHANGED broker PROVE BookInv' /\ AskPart'
    BY <1>1, <2>0, <2>1, AskServer DEF broker
  <2>2. ASSUME NEW s \in Conns,
               Broke(s) \/ \E i \in Ids : SendAnswer(s, i) \/ \E v \in Names : SendOffer(s, v, i)
        PROVE  BookInv' /\ AskPart'
    BY <1>1, <2>2, BookBroker, AskBroker
  <2>3. CASE Heartbeat \/ BrokerShutdown
    BY <1>1, <2>3, BookBeat, AskBeat
  <2>4. CASE UNCHANGED <<pc, arg, username, offers, fate, ask, dest, todo, told>>
    BY <1>1, <2>0, <2>4 DEF AskPart, AskInv
  <2> QED
    BY <2>1, <2>2, <2>3, <2>4
       DEF BrokerNext, Stop, Clear, Done, ShutdownRaises, Aborted, allVars, vars, broker,
           registry, control
<1>3. (lost \subseteq Notice)'
  BY <1>1, LostType DEF Notice
<1> QED
  BY <1>1, <1>2, <1>3, OfferParts, PTL

\* So it holds in every reachable state.
LEMMA OffersInv == BrokerSpec => []OfferInv
BY OfferInit, OfferNext, LockCorrect, RegistryInv, PTL DEF BrokerSpec

\* However requests and answers interleave, a user never has more than
\* MaxPending offers pending.
THEOREM OffersBounded == BrokerSpec => []PendingBound
<1>1. OfferInv => PendingBound
  BY DEF OfferInv, BoundInv, PendingBound
<1> QED
  BY <1>1, OffersInv, PTL

\* No two messages about an offer disagree, whoever ends it first.
THEOREM FatesAgree == BrokerSpec => []OneFate
<1>1. OfferInv => OneFate
  BY DEF OfferInv
<1> QED
  BY <1>1, OffersInv, PTL

-----------------------------------------------------------------------------
(* The order of cancellations, logins and inserts.                          *)

\* OrderInv while the tables stand.
Order ==
  /\ PartiesHeld
  /\ \A s \in Conns, u \in Names : Drops(s, u) => DropInv(s, u)
  /\ \A s \in Conns : pc[s] = "put" => PutInv(s)

\* What all of these proofs start from.
Base == LockInv /\ BookInv /\ AskPart /\ Core!IInv

\* A step that changes no session, starts or ends no cancellation, makes no
\* offer and finds no recipient; and takes nobody past anybody.
LEMMA OrderQuiet ==
  ASSUME Base, Order, UNCHANGED <<sessions, username>>,
         \A t \in Conns : /\ pc'[t] = "drop" <=> pc[t] = "drop"
                          /\ pc[t] = "drop" => arg'[t] = arg[t]
                          /\ pc'[t] = "put" => pc[t] = "put" /\ dest'[t] = dest[t],
         \A i \in Ids : offers'[i] # None => offers'[i] = offers[i],
         \A a, f \in Conns : pc[f] = "drop" /\ Ahead(queue', a, f) => Ahead(queue, a, f),
         \A f, t \in Conns : pc[f] = "drop" /\ pc'[t] = "put"
           => /\ Ahead(queue, f, t) => Ahead(queue', f, t)
              /\ Ahead(queue, t, f) => Ahead(queue', t, f)
  PROVE  Order'
<1>0. /\ offers \in [Ids -> Offer \cup {None}]
      /\ sessions \in [Names -> Conns \cup {None}] /\ username \in [Conns -> Names \cup {None}]
      /\ \A t \in Conns : pc[t] = "put" => dest[t] \in Conns
  BY CoreFacts DEF Base, BookInv, BookType, AskPart, AskInv
<1>1. \A t \in Conns : \A u : Drops(t, u)' <=> Drops(t, u)
  BY DEF Drops
<1>2. \A i \in Pending' : i \in Pending /\ offers'[i] = offers[i] /\ offers[i] \in Offer
  BY <1>0 DEF Pending
<1>3. PartiesHeld'
  <2>1. ASSUME NEW i \in Pending'
        PROVE  /\ Holds(offers[i].from, offers[i].sender)'
               /\ offers'[i].recipient # None => Holds(offers[i].via, offers[i].recipient)'
    <3>1. /\ i \in Pending /\ offers'[i] = offers[i]
          /\ offers[i].from \in Conns /\ offers[i].via \in Conns
      BY <1>2 DEF Offer
    <3> QED
      BY <1>1, <3>1 DEF Order, PartiesHeld, Holds
  <2> QED
    BY <2>1 DEF PartiesHeld
<1>4. ASSUME NEW s \in Conns, NEW u \in Names, Drops(s, u)' PROVE DropInv(s, u)'
  <2>1. Drops(s, u) /\ DropInv(s, u) /\ pc[s] = "drop"
    BY <1>1, <1>4 DEF Order, Drops
  <2>2. sessions'[u] # None => ~Ahead(queue', sessions'[u], s)
    BY <1>0, <2>1 DEF DropInv
  <2> QED
    BY <1>1, <1>2, <2>1, <2>2 DEF DropInv
<1>5. ASSUME NEW s \in Conns, pc'[s] = "put" PROVE PutInv(s)'
  <2>1. pc[s] = "put" /\ dest'[s] = dest[s] /\ dest[s] \in Conns /\ PutInv(s)
    BY <1>0, <1>5 DEF Order
  <2>2. \A t \in Conns : \A u : Drops(t, u) => pc[t] = "drop"
    BY DEF Drops
  <2> QED
    BY <1>1, <1>5, <2>1, <2>2 DEF PutInv
<1> QED
  BY <1>3, <1>4, <1>5 DEF Order

\* The facts about the queue that it needs, for a step of a handler.
LEMMA OrderLock ==
  ASSUME LockInv, NEW s \in Conns, NEW l, LockStep(s, l),
         pc[s] # "drop", l \notin {"put"}
  PROVE  /\ \A a, f \in Conns : pc[f] = "drop" /\ Ahead(queue', a, f) => Ahead(queue, a, f)
         /\ \A f, t \in Conns : pc[f] = "drop" /\ pc'[t] = "put"
              => /\ Ahead(queue, f, t) => Ahead(queue', f, t)
                 /\ Ahead(queue, t, f) => Ahead(queue', t, f)
BY QueueAfter, PcAfter

\* The steps of ChatServer other than logins and ends of sessions.
LEMMA OrderServer ==
  ASSUME Base, Order, NEW s \in Conns, Ask(s) \/ Serve(s), UNCHANGED broker,
         UNCHANGED <<sessions, username>>, pc[s] # "drop", pc'[s] \in Labels \ {"drop"},
         \A t \in Conns \ {s} : pc'[t] = pc[t] /\ arg'[t] = arg[t]
  PROVE  Order'
<1>1. /\ \A a, f \in Conns : pc[f] = "drop" /\ Ahead(queue', a, f) => Ahead(queue, a, f)
      /\ \A f, t \in Conns : pc[f] = "drop" /\ pc'[t] = "put"
           => /\ Ahead(queue, f, t) => Ahead(queue', f, t)
              /\ Ahead(queue, t, f) => Ahead(queue', t, f)
  <2>1. CASE UNCHANGED <<pc, queue>>
    BY <2>1
  <2>2. CASE \E l \in Labels : LockStep(s, l)
    <3>1. PICK l \in Labels : LockStep(s, l)
      BY <2>2
    <3>2. l # "put"
      BY DEF Labels, Queued
    <3> QED
      BY <3>1, <3>2, OrderLock DEF Base
  <2> QED
    BY <2>1, <2>2, ServerSteps DEF Base
<1>2. pc'[s] # "put"
  BY DEF Labels, Queued
<1> QED
  BY <1>1, <1>2, OrderQuiet DEF broker

\* The sections of the broker that neither find a recipient, nor make an
\* offer, nor cancel.
LEMMA OrderBroker ==
  ASSUME Base, Order, NEW s \in Conns,
         \/ SeekFails(s) \/ PutRefused(s) \/ Take(s, "accepted") \/ Take(s, "declined")
         \/ TakeVoid(s) \/ TakeFails(s) \/ Reply(s) \/ Tell(s) \/ TellRaises(s)
         \/ \E i \in Ids : SendAnswer(s, i) \/ \E v \in Names : SendOffer(s, v, i)
  PROVE  Order'
<1>1. Broke(s) \/ \E i \in Ids : SendAnswer(s, i) \/ \E v \in Names : SendOffer(s, v, i)
  BY DEF Broke
<1>2. PICK l : LockStep(s, l)
  BY <1>1, BrokerSteps DEF Base
<1>3. /\ UNCHANGED <<sessions, username, phase>>
      /\ \A t \in Conns \ {s} : pc'[t] = pc[t] /\ arg'[t] = arg[t] /\ dest'[t] = dest[t]
  BY <1>1, BrokerFrame DEF Base
<1>4. pc[s] # "drop" /\ pc'[s] \notin {"drop", "put"}
  <2> USE DEF Wait, Move, Release, Again, Turn, Serving, Base, LockInv, LockType, AfterTold
  <2>1. CASE SeekFails(s) \/ PutRefused(s) \/ TakeVoid(s) \/ TakeFails(s) \/ Reply(s)
    BY <2>1 DEF SeekFails, PutRefused, TakeVoid, TakeFails, Reply
  <2>2. CASE Take(s, "accepted") \/ Take(s, "declined") \/ Tell(s) \/ TellRaises(s)
    BY <2>2 DEF Take, Tell, TellRaises
  <2>3. CASE \E i \in Ids : SendAnswer(s, i) \/ \E v \in Names : SendOffer(s, v, i)
    BY <2>3 DEF SendAnswer, SendOffer
  <2> QED
    BY <2>1, <2>2, <2>3
<1>5. \A i \in Ids : offers'[i] # None => offers'[i] = offers[i]
  BY DEF SeekFails, PutRefused, Take, TakeVoid, TakeFails, Reply, Tell, TellRaises,
         SendAnswer, SendOffer, Pop
<1>6. l # "put"
  BY <1>2, <1>4, PcAfter DEF Base
<1>7. /\ \A a, f \in Conns : pc[f] = "drop" /\ Ahead(queue', a, f) => Ahead(queue, a, f)
      /\ \A f, t \in Conns : pc[f] = "drop" /\ pc'[t] = "put"
           => /\ Ahead(queue, f, t) => Ahead(queue', f, t)
              /\ Ahead(queue, t, f) => Ahead(queue', t, f)
  BY <1>2, <1>4, <1>6, OrderLock DEF Base
<1> QED
  BY <1>3, <1>4, <1>5, <1>7, OrderQuiet

\* The heartbeat, and the shutdown taking its place.
LEMMA OrderBeat ==
  ASSUME Base, Order, Heartbeat \/ BrokerShutdown
  PROVE  Order'
<1>1. UNCHANGED <<pc, arg, sessions, username, dest>>
  BY DEF Heartbeat, BeatWakes, BeatTells, BeatDies, Expire, BrokerShutdown, registry
<1>2. \A i \in Ids : offers'[i] # None => offers'[i] = offers[i]
  BY DEF Heartbeat, BeatWakes, BeatTells, BeatDies, Expire, BrokerShutdown, Pop
<1>3. \A a, b \in Conns : Ahead(queue', a, b) <=> Ahead(queue, a, b)
  <2>1. CASE Heartbeat
    BY <2>1, BeatSteps, BeatLock, Distinct DEF Base
  <2>2. CASE BrokerShutdown
    <3>1. queue \in Seq(Tasks) /\ NoTwice(queue)
      BY DEF Base, LockInv, LockType, LockExact
    <3>2. WithoutBeat \in Seq(Tasks \ {Beat})
      BY <3>1, WithoutIn DEF WithoutBeat
    <3>3. \A a, b \in Conns : Ahead(WithoutBeat, a, b) <=> Ahead(queue, a, b)
      BY <3>1, WithoutAhead, Distinct DEF WithoutBeat
    <3>4. queue' = Append(WithoutBeat, Main) /\ Main \in Tasks \ {Beat}
      BY <2>2, Distinct DEF BrokerShutdown, Tasks
    <3> HIDE DEF WithoutBeat
    <3>5. \A a, b : Ahead(queue', a, b) <=> Ahead(WithoutBeat, a, b) \/ (In(WithoutBeat, a) /\ b = Main)
      BY <3>2, <3>4, AppendFacts
    <3> QED
      BY <3>3, <3>5, Distinct
  <2> QED
    BY <2>1, <2>2
<1> QED
  BY <1>1, <1>2, <1>3, OrderQuiet

\* The types the proofs below use.
LEMMA BaseTypes ==
  ASSUME Base
  PROVE  /\ offers \in [Ids -> Offer \cup {None}]
         /\ \A i \in Pending : i \in Ids /\ offers[i] \in Offer
         /\ sessions \in [Names -> Conns \cup {None}]
         /\ username \in [Conns -> Names \cup {None}]
         /\ pc \in [Conns -> BrokerLabels]
         /\ \A s \in Conns : pc[s] = "put" => dest[s] \in Conns
         /\ queue \in Seq(Tasks) /\ NoTwice(queue)
         /\ \A s \in Conns : In(queue, s) <=> pc[s] \in BrokerQueued
         /\ None \notin Conns /\ None \notin Names
<1>1. \A i \in Pending : i \in Ids /\ offers[i] \in Offer
  BY DEF Base, BookInv, BookType, Pending
<1>2. \A s \in Conns : pc[s] = "put" => dest[s] \in Conns
  BY DEF Base, AskPart, AskInv
<1> QED
  BY <1>1, <1>2, CoreFacts, NoneAssumption DEF Base, BookInv, BookType, LockInv, LockType, LockExact

\* A login: whoever still cancels for the name is not behind it in the queue.
LEMMA OrderLogin ==
  ASSUME Base, Order, NEW s \in Conns, LoginAdmit(s), UNCHANGED broker
  PROVE  Order'
<1> DEFINE u == arg[s]
<1>1. /\ u \in Names /\ username[s] = None /\ sessions[u] = None /\ pc[s] = "login"
  BY CoreFacts DEF LoginAdmit, Turn, Base
<1>2. /\ username' = [username EXCEPT ![s] = u] /\ sessions' = [sessions EXCEPT ![u] = s]
      /\ UNCHANGED <<arg, offers, dest>>
  BY DEF LoginAdmit, broker
<1> HIDE DEF u
<1>3. LockStep(s, "welcome")
  BY DEF LoginAdmit, LockStep, Leaves, Runs, Turn, BrokerQueued, BrokerLabels, Labels, Queued
<1>4. /\ pc'[s] = "welcome" /\ \A t \in Conns \ {s} : pc'[t] = pc[t]
      /\ ~In(queue', s) /\ queue' \in Seq(Tasks) /\ NoTwice(queue')
      /\ \A a, b : a # s /\ b # s => (Ahead(queue', a, b) <=> Ahead(queue, a, b))
  BY <1>3, PcAfter, QueueAfter DEF Base, BrokerQueued, Queued
<1>5. \A t \in Conns : ~Ahead(queue', s, t) /\ ~Ahead(queue', t, s)
  BY <1>4, AheadFacts
<1>6. \A t \in Conns : \A x : Drops(t, x)' <=> Drops(t, x)
  BY <1>1, <1>2, <1>4 DEF Drops
<1>7. \A x \in Names : sessions[x] # None => sessions'[x] = sessions[x]
  BY <1>1, <1>2, BaseTypes
<1>8. PartiesHeld'
  <2>1. ASSUME NEW i \in Pending'
        PROVE  /\ Holds(offers[i].from, offers[i].sender)'
               /\ offers[i].recipient # None => Holds(offers[i].via, offers[i].recipient)'
    <3>1. i \in Pending /\ offers[i] \in Offer
      BY <1>2, <2>1, BaseTypes DEF Pending
    <3> QED
      BY <1>2, <1>6, <1>7, <3>1, BaseTypes DEF Order, PartiesHeld, Holds, Offer
  <2> QED
    BY <1>2, <2>1 DEF PartiesHeld
<1>9. ASSUME NEW f \in Conns, NEW x \in Names, Drops(f, x)' PROVE DropInv(f, x)'
  <2>1. Drops(f, x) /\ DropInv(f, x) /\ f # s
    BY <1>1, <1>6, <1>9 DEF Order, Drops
  <2>2. /\ \A i \in Pending' : /\ offers'[i].sender = x => offers'[i].from = f
                               /\ offers'[i].recipient = x => offers'[i].via = f
    BY <1>2, <2>1 DEF DropInv, Pending
  <2>3. sessions'[x] = s \/ sessions'[x] = sessions[x]
    BY <1>1, <1>2, BaseTypes
  <2>4. sessions'[x] # f
    BY <2>1, <2>3 DEF DropInv
  <2>5. sessions'[x] # None => ~Ahead(queue', sessions'[x], f)
    BY <1>4, <1>5, <2>1, <2>3 DEF DropInv
  <2>6. \A t \in Conns : Drops(t, x)' => t = f
    BY <1>6, <2>1 DEF DropInv
  <2> QED
    BY <2>2, <2>4, <2>5, <2>6 DEF DropInv
<1>10. ASSUME NEW t \in Conns, pc'[t] = "put" PROVE PutInv(t)'
  <2>1. t # s /\ pc[t] = "put" /\ PutInv(t) /\ dest[t] \in Conns
    BY <1>4, <1>10, BaseTypes DEF Order
  <2>2. CASE /\ username[dest[t]] # None
             /\ sessions[username[dest[t]]] = dest[t]
             /\ \A f \in Conns \ {dest[t]} : Drops(f, username[dest[t]]) => Ahead(queue, f, t)
    <3>1. /\ dest[t] # s /\ username'[dest[t]] = username[dest[t]] /\ username[dest[t]] \in Names
          /\ sessions'[username[dest[t]]] = dest[t]
      BY <1>1, <1>2, <1>7, <2>1, <2>2, BaseTypes
    <3>2. \A f \in Conns : \A x : Drops(f, x) => f # s
      BY <1>1 DEF Drops
    <3> QED
      BY <1>2, <1>4, <1>6, <2>1, <2>2, <3>1, <3>2 DEF PutInv
  <2>3. CASE /\ pc[dest[t]] = "drop"
             /\ username[dest[t]] \in {None, arg[dest[t]]}
             /\ Ahead(queue, t, dest[t])
    <3>1. dest[t] # s /\ username'[dest[t]] = username[dest[t]] /\ pc'[dest[t]] = "drop"
      BY <1>1, <1>2, <1>4, <2>1, <2>3, BaseTypes
    <3> QED
      BY <1>2, <1>4, <2>1, <2>3, <3>1 DEF PutInv
  <2> QED
    BY <2>1, <2>2, <2>3 DEF PutInv
<1> QED
  BY <1>8, <1>9, <1>10 DEF Order

\* A logout or a disconnection: the cancellation to come is the only one for
\* the name, as an older one would be ahead of it in the queue.
LEMMA OrderLeave ==
  ASSUME Base, Order, NEW s \in Conns, NEW u \in Names, phase # "cleared",
         Turn(s, "logout") \/ Turn(s, "clean"), Again(s, "drop"),
         username[s] = u, sessions[u] = s, UNCHANGED broker,
         sessions' = [sessions EXCEPT ![u] = None],
         username'[s] \in {None, u}, \A t \in Conns \ {s} : username'[t] = username[t],
         arg'[s] = u, \A t \in Conns \ {s} : arg'[t] = arg[t]
  PROVE  Order'
<1>1. UNCHANGED <<offers, dest>>
  BY DEF broker
<1>2. LockStep(s, "drop")
  BY DEF LockStep, Reasks, Runs, Turn, BrokerQueued, Queued
<1>3. /\ pc'[s] = "drop" /\ \A t \in Conns \ {s} : pc'[t] = pc[t]
      /\ \A a, b : a # s /\ b # s => (Ahead(queue', a, b) <=> Ahead(queue, a, b))
      /\ \A t : Ahead(queue', s, t) => Ahead(queue, s, t)
  BY <1>2, PcAfter, QueueAfter DEF Base
<1>4. queue # <<>> /\ Head(queue) = s /\ pc[s] # "drop" /\ pc[s] # "put"
  BY DEF Turn
<1>5. \A t \in Conns \ {s} : pc[t] \in {"drop", "put"} => Ahead(queue, s, t) /\ Ahead(queue', t, s)
  <2>1. ASSUME NEW t \in Conns \ {s}, pc[t] \in {"drop", "put"}
        PROVE  Ahead(queue, s, t) /\ Ahead(queue', t, s)
    <3>1. In(queue, t) /\ queue \in Seq(Tasks) /\ NoTwice(queue)
      BY <2>1, BaseTypes DEF BrokerQueued, Queued
    <3>2. queue' = Append(Tail(queue), Head(queue))
      BY <1>4 DEF Again
    <3>3. Ahead(queue, s, t)
      BY <1>4, <3>1, HeadFacts
    <3>4. Ahead(queue', t, s)
      BY <1>4, <3>1, <3>2, AgainFacts
    <3> QED
      BY <3>3, <3>4
  <2> QED
    BY <2>1
<1>6. \A t \in Conns \ {s} : \A x : Drops(t, x)' <=> Drops(t, x)
  BY <1>3 DEF Drops
<1>7. \A x : ~Drops(s, x) /\ (Drops(s, x)' <=> x = u)
  BY <1>3, <1>4 DEF Drops
<1>8. \A t \in Conns : ~Drops(t, u)
  <2>1. ASSUME NEW t \in Conns, Drops(t, u) PROVE FALSE
    <3>1. DropInv(t, u) /\ t # s
      BY <1>7, <2>1 DEF Order
    <3>2. Ahead(queue, s, t)
      BY <1>5, <2>1, <3>1 DEF Drops
    <3> QED
      BY <3>1, <3>2, BaseTypes DEF DropInv
  <2> QED
    BY <2>1
<1>9. /\ sessions'[u] = None /\ \A x \in Names \ {u} : sessions'[x] = sessions[x]
  BY BaseTypes
<1>10. \A x \in Names \ {u} : sessions[x] # s
  BY CoreFacts, BaseTypes DEF Base, RegistryExact
<1>11. PartiesHeld'
  <2>1. ASSUME NEW c \in Conns, NEW x \in Names, Holds(c, x) PROVE Holds(c, x)'
    <3>1. CASE x = u
      BY <1>7, <1>8, <2>1, <3>1 DEF Holds
    <3>2. CASE x # u
      BY <1>6, <1>7, <1>9, <2>1, <3>2 DEF Holds
    <3> QED
      BY <3>1, <3>2
  <2>2. ASSUME NEW i \in Pending'
        PROVE  /\ Holds(offers[i].from, offers[i].sender)'
               /\ offers[i].recipient # None => Holds(offers[i].via, offers[i].recipient)'
    <3>1. i \in Pending /\ offers[i] \in Offer
      BY <1>1, <2>2, BaseTypes DEF Pending
    <3>2. /\ offers[i].from \in Conns /\ offers[i].via \in Conns
          /\ offers[i].sender \in Names
          /\ offers[i].recipient # None => offers[i].recipient \in Names
      BY <3>1 DEF Offer
    <3>3. /\ Holds(offers[i].from, offers[i].sender)
          /\ offers[i].recipient # None => Holds(offers[i].via, offers[i].recipient)
      BY <3>1 DEF Order, PartiesHeld
    <3> QED
      BY <1>1, <2>1, <3>2, <3>3
  <2> QED
    BY <1>1, <2>2 DEF PartiesHeld
<1>12. ASSUME NEW f \in Conns, NEW x \in Names, Drops(f, x)' PROVE DropInv(f, x)'
  <2>1. CASE f = s
    <3>1. x = u
      BY <1>7, <1>12, <2>1
    <3>2. ASSUME NEW i \in Pending'
          PROVE  /\ offers[i].sender = u => offers[i].from = s
                 /\ offers[i].recipient = u => offers[i].via = s
      <4>1. i \in Pending /\ offers[i] \in Offer
        BY <1>1, <3>2, BaseTypes DEF Pending
      <4> QED
        BY <1>8, <4>1, BaseTypes DEF Order, PartiesHeld, Holds, Offer
    <3>3. \A t \in Conns : Drops(t, u)' => t = s
      BY <1>6, <1>8
    <3> QED
      BY <1>1, <1>9, <2>1, <3>1, <3>2, <3>3, BaseTypes DEF DropInv
  <2>2. CASE f # s
    <3>1. Drops(f, x) /\ DropInv(f, x) /\ x # u
      BY <1>6, <1>8, <1>12, <2>2 DEF Order
    <3>2. sessions'[x] = sessions[x] /\ sessions[x] # s
      BY <1>9, <1>10, <3>1
    <3>3. sessions'[x] # None => ~Ahead(queue', sessions'[x], f)
      BY <1>3, <2>2, <3>1, <3>2 DEF DropInv
    <3>4. \A t \in Conns : Drops(t, x)' => t = f
      BY <1>6, <1>7, <3>1 DEF DropInv
    <3> QED
      BY <1>1, <3>1, <3>2, <3>3, <3>4 DEF DropInv, Pending
  <2> QED
    BY <2>1, <2>2
<1>13. ASSUME NEW t \in Conns, pc'[t] = "put" PROVE PutInv(t)'
  <2>1. t # s /\ pc[t] = "put" /\ PutInv(t) /\ dest[t] \in Conns
    BY <1>3, <1>13, BaseTypes DEF Order
  <2>2. CASE dest[t] = s
    BY <1>1, <1>3, <1>5, <2>1, <2>2 DEF PutInv
  <2>3. CASE /\ dest[t] # s
             /\ username[dest[t]] # None
             /\ sessions[username[dest[t]]] = dest[t]
             /\ \A f \in Conns \ {dest[t]} : Drops(f, username[dest[t]]) => Ahead(queue, f, t)
    <3>1. /\ username'[dest[t]] = username[dest[t]] /\ username[dest[t]] \in Names \ {u}
          /\ sessions'[username[dest[t]]] = dest[t]
      BY <1>9, <2>1, <2>3, BaseTypes
    <3>2. ASSUME NEW f \in Conns \ {dest[t]}, pc'[f] = "drop", arg'[f] = username[dest[t]]
          PROVE  Ahead(queue', f, t)
      <4>1. f # s
        BY <3>1, <3>2
      <4>2. Drops(f, username[dest[t]])
        BY <1>3, <3>2, <4>1 DEF Drops
      <4> QED
        BY <1>3, <2>1, <2>3, <3>2, <4>1, <4>2
    <3>3. \A f \in Conns \ {dest[t]} : Drops(f, username[dest[t]])' => Ahead(queue', f, t)
      BY <1>1, <3>1, <3>2 DEF Drops
    <3> QED
      BY <1>1, <3>1, <3>3, BaseTypes DEF PutInv
  <2>4. CASE /\ dest[t] # s
             /\ pc[dest[t]] = "drop"
             /\ username[dest[t]] \in {None, arg[dest[t]]}
             /\ Ahead(queue, t, dest[t])
    BY <1>1, <1>3, <2>1, <2>4 DEF PutInv
  <2> QED
    BY <2>1, <2>2, <2>3, <2>4 DEF PutInv
<1> QED
  BY <1>11, <1>12, <1>13 DEF Order

\* A recipient is found: whoever still cancels for it is ahead of the insert.
LEMMA OrderSeek ==
  ASSUME Base, Order, NEW s \in Conns, Seek(s)
  PROVE  Order'
<1>1. PICK d \in Found(ask[s].to) : dest' = [dest EXCEPT ![s] = d]
  BY DEF Seek
<1>2. /\ UNCHANGED <<sessions, username, arg, offers>>
      /\ queue # <<>> /\ Head(queue) = s /\ pc[s] = "seek"
      /\ pc' = [pc EXCEPT ![s] = "put"] /\ queue' = Append(Tail(queue), Head(queue))
  BY DEF Seek, Turn, Again, Move, registry
<1>3. d \in Conns /\ username[d] \in Names /\ sessions[username[d]] = d
  BY CoreFacts, NoneAssumption DEF Found, Stored, Base, RegistryExact
<1>4. /\ pc'[s] = "put" /\ \A t \in Conns \ {s} : pc'[t] = pc[t] /\ dest'[t] = dest[t]
      /\ dest'[s] = d
  BY <1>1, <1>2, BaseTypes DEF Base, AskPart
<1>5. \A t \in Conns \ {s} : pc[t] = "drop" => Ahead(queue', t, s)
  <2>1. ASSUME NEW t \in Conns \ {s}, pc[t] = "drop" PROVE Ahead(queue', t, s)
    <3>1. In(queue, t) /\ queue \in Seq(Tasks) /\ NoTwice(queue)
      BY <2>1, BaseTypes DEF BrokerQueued, Queued
    <3> QED
      BY <1>2, <3>1, AgainFacts
  <2> QED
    BY <2>1
<1>6. /\ \A a, b : a # s /\ b # s => (Ahead(queue', a, b) <=> Ahead(queue, a, b))
      /\ \A t : Ahead(queue', s, t) => Ahead(queue, s, t)
  <2>1. LockStep(s, "put")
    BY DEF Seek, LockStep, Reasks, Runs, Turn, BrokerQueued
  <2> QED
    BY <2>1, QueueAfter DEF Base
<1>7. \A t \in Conns : \A u : Drops(t, u)' <=> Drops(t, u)
  BY <1>2, <1>4 DEF Drops
<1>8. PartiesHeld'
  BY <1>2, <1>7, BaseTypes DEF Order, PartiesHeld, Holds, Pending, Offer
<1>9. ASSUME NEW f \in Conns, NEW u \in Names, Drops(f, u)' PROVE DropInv(f, u)'
  <2>1. Drops(f, u) /\ DropInv(f, u) /\ f # s
    BY <1>2, <1>7, <1>9 DEF Order, Drops
  <2>2. sessions'[u] # None => ~Ahead(queue', sessions'[u], f)
    BY <1>2, <1>6, <2>1 DEF DropInv
  <2> QED
    BY <1>2, <1>7, <2>1, <2>2 DEF DropInv, Pending
<1>10. ASSUME NEW t \in Conns, pc'[t] = "put" PROVE PutInv(t)'
  <2>1. CASE t = s
    <3>1. \A f \in Conns \ {d} : Drops(f, username[d])' => Ahead(queue', f, s)
      BY <1>2, <1>4, <1>5, <1>7 DEF Drops
    <3> QED
      BY <1>2, <1>3, <1>4, <2>1, <3>1, NoneAssumption DEF PutInv
  <2>2. CASE t # s
    <3>1. PutInv(t) /\ dest'[t] = dest[t] /\ dest[t] \in Conns
      BY <1>4, <1>10, <2>2, BaseTypes DEF Order
    <3>2. \A f \in Conns : \A u : Drops(f, u) => f # s
      BY <1>2 DEF Drops
    <3>3. CASE /\ username[dest[t]] # None
               /\ sessions[username[dest[t]]] = dest[t]
               /\ \A f \in Conns \ {dest[t]} : Drops(f, username[dest[t]]) => Ahead(queue, f, t)
      BY <1>2, <1>6, <1>7, <2>2, <3>1, <3>2, <3>3 DEF PutInv
    <3>4. CASE /\ pc[dest[t]] = "drop"
               /\ username[dest[t]] \in {None, arg[dest[t]]}
               /\ Ahead(queue, t, dest[t])
      BY <1>2, <1>4, <1>6, <2>2, <3>1, <3>4 DEF PutInv
    <3> QED
      BY <3>1, <3>3, <3>4 DEF PutInv
  <2> QED
    BY <2>1, <2>2
<1> QED
  BY <1>8, <1>9, <1>10 DEF Order

\* An offer is made: nobody but its parties is to cancel for them.
LEMMA OrderPut ==
  ASSUME Base, Order, phase # "cleared", NEW s \in Conns, Put(s)
  PROVE  Order'
<1> DEFINE i == ask[s].id
           d == dest[s]
           u == username[s]
           o == [sender |-> username[s], recipient |-> username[d], from |-> s, via |-> d]
<1>1. /\ UNCHANGED <<sessions, username, arg>>
      /\ queue # <<>> /\ Head(queue) = s /\ pc[s] = "put" /\ Release(s, "read")
      /\ offers' = [offers EXCEPT ![i] = o] /\ dest' = [dest EXCEPT ![s] = None]
  BY DEF Put, Turn, Finish, registry
<1>2. d \in Conns /\ u \in Names /\ i \in Ids /\ username[d] \in Names \cup {None}
  BY <1>1, BaseTypes DEF Base, AskPart, AskInv, Request
<1>3. sessions[u] = s
  BY <1>1, <1>2, BaseTypes, CoreFacts DEF Base, RegistryExact
<1>4. /\ o.sender = u /\ o.recipient = username[d] /\ o.from = s /\ o.via = d
  OBVIOUS
<1> HIDE DEF o, u, d, i
<1>5. LockStep(s, "read")
  BY <1>1 DEF LockStep, Leaves, Runs, BrokerQueued, BrokerLabels, Labels, Queued
<1>6. /\ pc'[s] = "read" /\ \A t \in Conns \ {s} : pc'[t] = pc[t]
      /\ \A a, b : a # s /\ b # s => (Ahead(queue', a, b) <=> Ahead(queue, a, b))
      /\ \A t : Ahead(queue', s, t) => Ahead(queue, s, t)
  BY <1>5, PcAfter, QueueAfter DEF Base
<1>7. \A t : ~Ahead(queue, t, s)
  BY <1>1, BaseTypes, HeadFacts
<1>8. \A t \in Conns : \A x : Drops(t, x)' <=> Drops(t, x)
  BY <1>1, <1>6 DEF Drops
<1>9. \A t \in Conns : ~Drops(t, u)
  <2>1. ASSUME NEW t \in Conns, Drops(t, u) PROVE FALSE
    <3>1. DropInv(t, u) /\ t # s
      BY <1>1, <1>2, <2>1 DEF Order, Drops
    <3>2. In(queue, t)
      BY <2>1, BaseTypes DEF Drops, BrokerQueued, Queued
    <3>3. Ahead(queue, s, t)
      BY <1>1, <3>1, <3>2, BaseTypes, HeadFacts
    <3> QED
      BY <1>2, <1>3, <3>1, <3>3, BaseTypes DEF DropInv
  <2> QED
    BY <2>1
<1>10. username[d] # None => /\ Holds(d, username[d])
                             /\ \A t \in Conns : Drops(t, username[d]) => t = d
  <2>1. PutInv(s)
    BY <1>1 DEF Order
  <2>2. CASE /\ username[d] # None
             /\ sessions[username[d]] = d
             /\ \A t \in Conns \ {d} : Drops(t, username[d]) => Ahead(queue, t, s)
    BY <1>7, <2>2 DEF Holds
  <2>3. CASE pc[d] = "drop" /\ username[d] \in {None, arg[d]}
    <3>1. ASSUME username[d] # None
          PROVE  Drops(d, username[d]) /\ DropInv(d, username[d])
      BY <1>2, <2>3, <3>1 DEF Drops, Order
    <3> QED
      BY <3>1 DEF Holds, DropInv
  <2> QED
    BY <2>1, <2>2, <2>3 DEF PutInv, d
<1>11. \A j \in Pending' : j \in Ids /\ (j = i \/ (j \in Pending /\ offers'[j] = offers[j]))
  BY <1>1, <1>2, BaseTypes DEF Pending
<1>12. offers'[i] = o
  BY <1>1, <1>2, BaseTypes
<1>13. PartiesHeld'
  <2>1. ASSUME NEW j \in Pending'
        PROVE  /\ Holds(offers[j].from, offers[j].sender)'
               /\ offers'[j].recipient # None => Holds(offers[j].via, offers[j].recipient)'
    <3>1. CASE j = i
      BY <1>1, <1>3, <1>4, <1>8, <1>10, <1>12, <1>2, <3>1 DEF Holds
    <3>2. CASE j \in Pending /\ offers'[j] = offers[j]
      <4>1. /\ offers[j].from \in Conns /\ offers[j].via \in Conns
        BY <3>2, BaseTypes DEF Offer
      <4> QED
        BY <1>1, <1>8, <3>2, <4>1 DEF Order, PartiesHeld, Holds
    <3> QED
      BY <1>11, <2>1, <3>1, <3>2
  <2> QED
    BY <2>1 DEF PartiesHeld
<1>14. ASSUME NEW f \in Conns, NEW x \in Names, Drops(f, x)' PROVE DropInv(f, x)'
  <2>1. Drops(f, x) /\ DropInv(f, x) /\ f # s /\ x # u
    BY <1>1, <1>8, <1>9, <1>14 DEF Order, Drops
  <2>2. ASSUME NEW j \in Pending'
        PROVE  /\ offers'[j].sender = x => offers'[j].from = f
               /\ offers'[j].recipient = x => offers'[j].via = f
    <3>1. CASE j = i
      BY <1>4, <1>10, <1>12, <2>1, <3>1, BaseTypes
    <3>2. CASE j \in Pending /\ offers'[j] = offers[j]
      BY <2>1, <3>2 DEF DropInv
    <3> QED
      BY <1>11, <2>2, <3>1, <3>2
  <2>3. sessions'[x] # None => ~Ahead(queue', sessions'[x], f)
    BY <1>1, <1>6, <2>1 DEF DropInv
  <2> QED
    BY <1>1, <1>8, <2>1, <2>2, <2>3 DEF DropInv
<1>15. ASSUME NEW t \in Conns, pc'[t] = "put" PROVE PutInv(t)'
  <2>1. t # s /\ pc[t] = "put" /\ PutInv(t) /\ dest'[t] = dest[t] /\ dest[t] \in Conns
    BY <1>1, <1>6, <1>15, BaseTypes DEF Order, Base, AskPart
  <2>2. \A f \in Conns : \A x : Drops(f, x) => f # s
    BY <1>1 DEF Drops
  <2>3. CASE /\ username[dest[t]] # None
             /\ sessions[username[dest[t]]] = dest[t]
             /\ \A f \in Conns \ {dest[t]} : Drops(f, username[dest[t]]) => Ahead(queue, f, t)
    BY <1>1, <1>6, <1>8, <2>1, <2>2, <2>3 DEF PutInv
  <2>4. CASE /\ pc[dest[t]] = "drop"
             /\ username[dest[t]] \in {None, arg[dest[t]]}
             /\ Ahead(queue, t, dest[t])
    BY <1>1, <1>6, <2>1, <2>4 DEF PutInv
  <2> QED
    BY <2>1, <2>3, <2>4 DEF PutInv
<1> QED
  BY <1>13, <1>14, <1>15 DEF Order

\* A cancellation: its offers are gone, and nobody has found its user's
\* connection and still to insert, as that insert would be ahead.
LEMMA OrderCancel ==
  ASSUME Base, Order, NEW s \in Conns, Cancel(s)
  PROVE  Order'
<1> DEFINE u == arg[s]
<1>1. /\ UNCHANGED <<sessions, username, arg, dest>>
      /\ queue # <<>> /\ Head(queue) = s /\ pc[s] = "drop"
      /\ \A j \in Ids : offers'[j] = IF j \in PartyTo(u) THEN None ELSE offers[j]
  BY DEF Cancel, Turn, Pop, registry
<1>2. \E l \in {"farewell", "tell"} : LockStep(s, l)
  BY DEF Cancel, AfterTold, LockStep, Reasks, Runs, Turn, BrokerQueued, Queued
<1>3. /\ pc'[s] \in {"farewell", "tell"} /\ \A t \in Conns \ {s} : pc'[t] = pc[t]
      /\ \A a, b : a # s /\ b # s => (Ahead(queue', a, b) <=> Ahead(queue, a, b))
      /\ \A t : Ahead(queue', s, t) => Ahead(queue, s, t)
  BY <1>2, PcAfter, QueueAfter DEF Base
<1>4. \A t : ~Ahead(queue, t, s)
  BY <1>1, BaseTypes, HeadFacts
<1> HIDE DEF u
<1>5. /\ \A t \in Conns \ {s} : \A x : Drops(t, x)' <=> Drops(t, x)
      /\ \A x : ~Drops(s, x)' /\ (Drops(s, x) <=> x = u)
  BY <1>1, <1>3 DEF Drops, u
<1>6. \A j \in Pending' : /\ j \in Pending /\ offers'[j] = offers[j] /\ offers[j] \in Offer
                          /\ offers[j].sender # u /\ offers[j].recipient # u
  BY <1>1, BaseTypes DEF Pending, PartyTo
<1>7. PartiesHeld'
  <2>1. ASSUME NEW j \in Pending'
        PROVE  /\ Holds(offers[j].from, offers[j].sender)'
               /\ offers'[j].recipient # None => Holds(offers[j].via, offers[j].recipient)'
    <3>1. /\ j \in Pending /\ offers'[j] = offers[j]
          /\ offers[j].from \in Conns /\ offers[j].via \in Conns
          /\ offers[j].sender # u /\ offers[j].recipient # u
      BY <1>6 DEF Offer
    <3> QED
      BY <1>1, <1>5, <3>1 DEF Order, PartiesHeld, Holds
  <2> QED
    BY <2>1 DEF PartiesHeld
<1>8. ASSUME NEW f \in Conns, NEW x \in Names, Drops(f, x)' PROVE DropInv(f, x)'
  <2>1. Drops(f, x) /\ DropInv(f, x) /\ f # s
    BY <1>5, <1>8 DEF Order
  <2>2. sessions'[x] # None => ~Ahead(queue', sessions'[x], f)
    BY <1>1, <1>3, <2>1 DEF DropInv
  <2>3. \A t \in Conns : Drops(t, x)' => t = f
    BY <1>5, <2>1 DEF DropInv
  <2> QED
    BY <1>1, <1>6, <2>1, <2>2, <2>3 DEF DropInv
<1>9. ASSUME NEW t \in Conns, pc'[t] = "put" PROVE PutInv(t)'
  <2>1. t # s /\ pc[t] = "put" /\ PutInv(t) /\ dest'[t] = dest[t] /\ dest[t] \in Conns
    BY <1>1, <1>3, <1>9, BaseTypes DEF Order
  <2>2. \A f \in Conns : \A x : Drops(f, x)' => Drops(f, x) /\ f # s
    BY <1>5
  <2>3. CASE /\ username[dest[t]] # None
             /\ sessions[username[dest[t]]] = dest[t]
             /\ \A f \in Conns \ {dest[t]} : Drops(f, username[dest[t]]) => Ahead(queue, f, t)
    BY <1>1, <1>3, <2>1, <2>2, <2>3 DEF PutInv
  <2>4. CASE /\ pc[dest[t]] = "drop"
             /\ username[dest[t]] \in {None, arg[dest[t]]}
             /\ Ahead(queue, t, dest[t])
    BY <1>1, <1>3, <1>4, <2>1, <2>4 DEF PutInv
  <2> QED
    BY <2>1, <2>3, <2>4 DEF PutInv
<1> QED
  BY <1>7, <1>8, <1>9 DEF Order

\* The order is inductive.
LEMMA OrderNext ==
  ASSUME Base, Order, phase # "cleared", phase' # "cleared", [BrokerNext]_allVars
  PROVE  Order'
<1>1. ASSUME NEW s \in Conns, Ask(s) \/ Serve(s), UNCHANGED broker PROVE Order'
  <2>1. CASE LoginAdmit(s)
    BY <1>1, <2>1, OrderLogin
  <2>2. CASE Logout(s)
    <3>1. pc[s] = "logout"
      BY <2>2 DEF Logout, Turn
    <3>2. username[s] \in Names /\ arg[s] = username[s] /\ sessions[username[s]] = s
      BY <3>1, CoreFacts, NoneAssumption DEF Base, RegistryExact
    <3> QED
      BY <1>1, <2>2, <3>2, CoreFacts, OrderLeave DEF Logout, Unregister, Base
  <2>3. CASE CleanSession(s)
    <3>1. username[s] \in Names /\ sessions[username[s]] = s
      BY <2>3, CoreFacts DEF CleanSession, Base
    <3> QED
      BY <1>1, <2>3, <3>1, CoreFacts, OrderLeave DEF CleanSession, Unregister, Base
  <2> QED
    BY <1>1, <2>1, <2>2, <2>3, ServerKinds, OrderServer DEF Base
<1>2. ASSUME NEW s \in Conns,
             Broke(s) \/ \E i \in Ids : SendAnswer(s, i) \/ \E v \in Names : SendOffer(s, v, i)
      PROVE  Order'
  BY <1>2, OrderSeek, OrderPut, OrderCancel, OrderBroker DEF Broke
<1>3. CASE Heartbeat \/ BrokerShutdown
  BY <1>3, OrderBeat
<1>4. CASE UNCHANGED <<sessions, username, pc, arg, queue, offers, fate, ask, dest, todo, told>>
  BY <1>4, OrderQuiet
<1> QED
  BY <1>1, <1>2, <1>3, <1>4
     DEF BrokerNext, Stop, Clear, Done, ShutdownRaises, Aborted, allVars, vars, broker,
         registry, control

\* No offers and no handlers at first.
LEMMA OrderInit == BrokerInit => OrderInv
<1> SUFFICES ASSUME BrokerInit PROVE OrderInv
  OBVIOUS
<1>1. Pending = {} /\ \A s \in Conns : pc[s] = "absent"
  BY DEF BrokerInit, Init, Pending
<1> QED
  BY <1>1 DEF OrderInv, PartiesHeld, Drops

\* The invariant of the broker: the registry's, the lock's, the offers' and
\* the order of the lock's queue.
THEOREM BrokerInductive == BrokerSpec => []BrokerIInv
<1>1. OrderInv <=> (phase # "cleared" => Order)
  BY DEF OrderInv, Order
<1>2. /\ Core!IInv /\ LockInv /\ OfferInv /\ OrderInv /\ [BrokerNext]_allVars
      => OrderInv'
  <2> SUFFICES ASSUME Core!IInv, LockInv, OfferInv, OrderInv, [BrokerNext]_allVars,
                      phase' # "cleared"
               PROVE  Order'
    BY <1>1 DEF OrderInv, Order
  <2>1. Base
    BY OfferParts DEF Base
  <2>2. phase # "cleared"
    BY DEF BrokerNext, Ask, Serve, Accept, RegisterUser, VerifyLogin, CmdCreate, CmdJoin,
           CmdLogout, Hangup, Enter, LoginAdmit, LoginRefuse, Unhold, Welcome, Greet, Logout,
           Farewell, Make, Join, Part, CleanSession, CleanOrphan, SendAnswer, SendOffer, Broke,
           Seek, SeekFails, Put, PutRefused, Take, TakeVoid, TakeFails, Reply, Cancel, Tell,
           TellRaises, Heartbeat, BeatWakes, BeatTells, BeatDies, Expire, BrokerShutdown,
           ShutdownRaises, Aborted, Stop, Clear, Done, allVars, vars
  <2> QED
    BY <1>1, <2>1, <2>2, OrderNext
<1>3. LockInv => LockExact
  BY DEF LockInv
<1> QED
  BY <1>2, <1>3, OrderInit, RegistryInv, LockCorrect, OffersInv, PTL DEF BrokerSpec, BrokerIInv

\* Every user a pending offer names is online, or is leaving with its
\* cancellation still to come: no offer outlives its parties unnoticed.
THEOREM PartiesPresent == BrokerSpec => []NamedPartiesPresent
<1>1. OfferInv /\ OrderInv => NamedPartiesPresent
  <2> SUFFICES ASSUME OfferInv, OrderInv, phase # "cleared", NEW i \in Pending
               PROVE  /\ Present(offers[i].sender)
                      /\ offers[i].recipient # None => Present(offers[i].recipient)
    BY DEF NamedPartiesPresent
  <2>1. /\ offers[i].sender \in Names /\ offers[i].recipient \in Names \cup {None}
        /\ offers[i].from \in Conns /\ offers[i].via \in Conns
    BY DEF Pending, OfferInv, BrokerTypeOK, Offer
  <2>2. /\ Holds(offers[i].from, offers[i].sender)
        /\ offers[i].recipient # None => Holds(offers[i].via, offers[i].recipient)
    BY DEF OrderInv, PartiesHeld
  <2> QED
    BY <2>1, <2>2, NoneAssumption DEF Holds, Drops, Present, Leaving
<1> QED
  BY <1>1, BrokerInductive, PTL DEF BrokerIInv

\* A logout or disconnection cancels only offers made from or for that very
\* connection: a newer login of the user queues behind it.
THEOREM OwnOffers == BrokerSpec => OwnOffersOnly
<1> DEFINE Step == \A s \in Conns, i \in Pending :
             /\ phase # "cleared"
             /\ Cancel(s)
             /\ fate'[i] = "left"
             => s \in {offers[i].from, offers[i].via}
<1>1. OfferInv /\ OrderInv => Step
  <2> SUFFICES ASSUME OfferInv, OrderInv, NEW s \in Conns, NEW i \in Pending,
                      phase # "cleared", Cancel(s), fate'[i] = "left"
               PROVE  s \in {offers[i].from, offers[i].via}
    OBVIOUS
  <2>1. i \in Ids /\ fate[i] = "pending" /\ offers[i] \in Offer
    BY DEF Pending, OfferInv, FateInv, BrokerTypeOK
  <2>2. i \in PartyTo(arg[s])
    BY <2>1 DEF Cancel, Pop
  <2>3. arg[s] \in Names /\ Drops(s, arg[s])
    BY DEF OfferInv, AskInv, Cancel, Turn, Drops
  <2>4. DropInv(s, arg[s])
    BY <2>3 DEF OrderInv
  <2> QED
    BY <2>2, <2>4 DEF DropInv, PartyTo
<1>2. OfferInv /\ OrderInv => [Step]_allVars
  BY <1>1
<1> QED
  BY <1>2, BrokerInductive, PTL DEF BrokerIInv, OwnOffersOnly

=============================================================================
