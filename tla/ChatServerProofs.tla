-------------------------- MODULE ChatServerProofs --------------------------
(* Proofs about ChatServer for any connections, names, channels, spellings  *)
(* and initial database.                                                    *)
EXTENDS ChatServer, TLAPS

\* The registry is empty when the server starts, so everything agrees.
LEMMA InitInv == Init => IInv
BY UsersAssumption, ChannelsAssumption, GeneralAssumption, NoneAssumption
   DEF Init, IInv, TypeOK, RegistryExact, MembershipExact, RowsExist, HandlerInv, Labels, Queued

-----------------------------------------------------------------------------
\* A handler's step on the lock leaves a queue of handlers and the main task.
LEMMA LockType ==
  ASSUME TypeOK, NEW s \in Conns, NEW l \in Labels
  PROVE  /\ Wait(s, l) => pc' \in [Conns -> Labels] /\ queue' \in Seq(Conns \cup {Main})
         /\ Move(s, l) => pc' \in [Conns -> Labels]
         /\ queue # <<>> /\ (Release(s, l) \/ Again(s, l))
              => pc' \in [Conns -> Labels] /\ queue' \in Seq(Conns \cup {Main})
<1>1. Move(s, l) => pc' \in [Conns -> Labels]
  BY DEF TypeOK, Move
<1>2. Append(queue, s) \in Seq(Conns \cup {Main})
  BY DEF TypeOK
<1>3. ASSUME queue # <<>>
      PROVE  /\ Tail(queue) \in Seq(Conns \cup {Main})
             /\ Append(Tail(queue), s) \in Seq(Conns \cup {Main})
  BY <1>3 DEF TypeOK
<1> QED
  BY <1>1, <1>2, <1>3 DEF Wait, Release, Again

\* A step that changes no table and no registry entry, and at most the place
\* and the locals of one handler, keeps the invariant if that handler's own
\* part of it is kept.
LEMMA QuietStep ==
  ASSUME IInv, TypeOK', NEW s \in Conns,
         UNCHANGED <<tables, registry>>,
         phase' # "cleared" => phase # "cleared",
         \A t \in Conns \ {s} : pc'[t] = pc[t] /\ arg'[t] = arg[t],
         HandlerInv(s)'
  PROVE  IInv'
<1>1. RegistryExact' /\ MembershipExact'
  BY DEF IInv, RegistryExact, MembershipExact, registry
<1>2. RowsExist'
  BY DEF IInv, RowsExist, tables, registry
<1>3. ASSUME NEW t \in Conns PROVE HandlerInv(t)'
  <2>1. CASE t = s
    BY <2>1
  <2>2. CASE t # s
    BY <2>2 DEF IInv, HandlerInv, tables, registry
  <2> QED
    BY <2>1, <2>2
<1> QED
  BY <1>1, <1>2, <1>3 DEF IInv

\* The types, for the steps of handlers that touch neither tables nor registry.
LEMMA QuietType ==
  ASSUME TypeOK, NEW s \in Conns, NEW l \in Labels,
         UNCHANGED <<tables, registry, phase>>,
         arg' \in [Conns -> Names \cup Channels \cup {None}],
         \/ Wait(s, l)
         \/ Move(s, l) /\ UNCHANGED queue
         \/ queue # <<>> /\ (Release(s, l) \/ Again(s, l))
  PROVE  TypeOK'
<1>1. pc' \in [Conns -> Labels] /\ queue' \in Seq(Conns \cup {Main})
  BY LockType DEF TypeOK
<1> QED
  BY <1>1 DEF TypeOK, tables, registry

\* The two together: a handler's step on its place, its locals and the lock.
LEMMA HandlerStep ==
  ASSUME IInv, NEW s \in Conns, NEW l \in Labels,
         UNCHANGED <<tables, registry, phase>>,
         \/ UNCHANGED arg
         \/ \E a \in Names \cup Channels \cup {None} : arg' = [arg EXCEPT ![s] = a],
         \/ Wait(s, l)
         \/ Move(s, l) /\ UNCHANGED queue
         \/ queue # <<>> /\ (Release(s, l) \/ Again(s, l)),
         HandlerInv(s)'
  PROVE  IInv'
<1>1. TypeOK
  BY DEF IInv
<1>2. arg' \in [Conns -> Names \cup Channels \cup {None}]
  BY <1>1 DEF TypeOK
<1>3. TypeOK'
  BY <1>1, <1>2, QuietType
<1>4. \A t \in Conns \ {s} : pc'[t] = pc[t] /\ arg'[t] = arg[t]
  BY <1>1 DEF TypeOK, Wait, Move, Release, Again
<1> QED
  BY <1>3, <1>4, QuietStep

-----------------------------------------------------------------------------
\* Asking for the lock, with or without a name looked up first.
LEMMA AskInv ==
  ASSUME IInv, NEW s \in Conns
  PROVE  /\ Accept(s) \/ Lookup(s) \/ CmdLogout(s) \/ Hangup(s) \/ Welcome(s) => IInv'
         /\ \A n \in Names : VerifyLogin(s, n) => IInv'
         /\ \A c \in Channels : CmdJoin(s, c) => IInv'
<1> USE DEF Labels, Queued
<1>1. TypeOK /\ HandlerInv(s) /\ RowsExist
  BY DEF IInv
<1>2. CASE Accept(s)
  <2>1. HandlerInv(s)'
    BY <1>1, <1>2 DEF Accept, HandlerInv, TypeOK, Wait, Move, registry
  <2> QED
    BY <1>2, <2>1, HandlerStep DEF Accept
<1>3. CASE Lookup(s)
  <2>1. HandlerInv(s)'
    BY <1>1, <1>3 DEF Lookup, Serving, HandlerInv, TypeOK, Wait, Move, registry
  <2> QED
    BY <1>3, <2>1, HandlerStep DEF Lookup
<1>4. CASE CmdLogout(s)
  <2>1. HandlerInv(s)'
    BY <1>1, <1>4 DEF CmdLogout, Serving, HandlerInv, TypeOK, Wait, Move, registry
  <2>2. username[s] \in Names
    BY <1>1, <1>4 DEF CmdLogout, TypeOK
  <2> QED
    BY <1>4, <2>1, <2>2, HandlerStep DEF CmdLogout
<1>5. CASE Hangup(s)
  <2>1. HandlerInv(s)'
    BY <1>1, <1>5 DEF Hangup, HandlerInv, TypeOK, Wait, Move, registry
  <2> QED
    BY <1>5, <2>1, HandlerStep DEF Hangup
<1>6. CASE Welcome(s)
  <2>1. HandlerInv(s)'
    BY <1>1, <1>6 DEF Welcome, HandlerInv, TypeOK, Wait, Move, registry
  <2> QED
    BY <1>6, <2>1, HandlerStep DEF Welcome
<1>7. ASSUME NEW n \in Names, VerifyLogin(s, n) PROVE IInv'
  <2>1. PICK m \in Stored(accounts, n) : arg' = [arg EXCEPT ![s] = m]
    BY <1>7 DEF VerifyLogin
  <2>2. m \in accounts /\ m \in Names
    BY <1>1, <2>1 DEF Stored, TypeOK
  <2>3. HandlerInv(s)'
    BY <1>1, <1>7, <2>1, <2>2
       DEF VerifyLogin, Serving, HandlerInv, TypeOK, Wait, Move, registry, tables
  <2> QED
    BY <1>7, <2>1, <2>2, <2>3, HandlerStep DEF VerifyLogin
<1>8. ASSUME NEW c \in Channels, CmdJoin(s, c) PROVE IInv'
  <2>1. PICK d \in Stored(rooms, c) : d # channel[s] /\ arg' = [arg EXCEPT ![s] = d]
    BY <1>8 DEF CmdJoin
  <2>2. d \in rooms /\ d \in Channels
    BY <1>1, <2>1 DEF Stored, TypeOK
  <2>3. HandlerInv(s)'
    BY <1>1, <1>8, <2>1, <2>2
       DEF CmdJoin, Serving, HandlerInv, TypeOK, Wait, Move, registry, tables
  <2> QED
    BY <1>8, <2>1, <2>2, <2>3, HandlerStep DEF CmdJoin
<1> QED
  BY <1>2, <1>3, <1>4, <1>5, <1>6, <1>7, <1>8

\* Critical sections that read the registry and leave it alone.
LEMMA SectionInv ==
  ASSUME IInv, NEW s \in Conns,
         \/ LoginRefuse(s) \/ Unhold(s) \/ Greet(s)
         \/ Read(s) \/ Farewell(s)
         \/ Make(s) \/ Part(s)
  PROVE  IInv'
<1> USE DEF Labels, Queued
<1>1. TypeOK /\ HandlerInv(s)
  BY DEF IInv
<1>2. CASE LoginRefuse(s)
  <2>1. HandlerInv(s)'
    BY <1>1, <1>2
       DEF LoginRefuse, HandlerInv, TypeOK, Turn, Return, Release, Again, Move, registry
  <2> QED
    BY <1>2, <2>1, HandlerStep DEF LoginRefuse, Turn, Return
<1>3. CASE Unhold(s)
  <2>1. HandlerInv(s)'
    BY <1>1, <1>3
       DEF Unhold, HandlerInv, TypeOK, Turn, Return, Release, Again, Move, registry
  <2> QED
    BY <1>3, <2>1, HandlerStep DEF Unhold, Turn, Return
<1>4. CASE Greet(s)
  <2>1. HandlerInv(s)'
    BY <1>1, <1>4
       DEF Greet, HandlerInv, TypeOK, Turn, Return, Release, Again, Move, registry
  <2> QED
    BY <1>4, <2>1, HandlerStep DEF Greet, Turn, Return
<1>5. CASE Drop(s)
  <2>1. HandlerInv(s)'
    BY <1>1, <1>5
       DEF Drop, HandlerInv, TypeOK, Turn, Return, Release, Again, Move, registry
  <2> QED
    BY <1>5, <2>1, HandlerStep DEF Drop, Turn, Return
<1>6. CASE DropDone(s)
  <2>1. HandlerInv(s)'
    BY <1>1, <1>6
       DEF DropDone, HandlerInv, TypeOK, Turn, Return, Release, Again, Move, registry
  <2> QED
    BY <1>6, <2>1, HandlerStep DEF DropDone, Turn, Return
<1>7. CASE DropRaises(s)
  <2>1. UNCHANGED <<tables, registry, phase>> /\ arg' = [arg EXCEPT ![s] = None]
    BY <1>7 DEF DropRaises
  <2>2. CASE s \in connections
    <3>1. HandlerInv(s)'
      BY <1>1, <1>7, <2>2 DEF DropRaises, HandlerInv, TypeOK, Turn, Again, Move, registry
    <3> QED
      BY <1>7, <2>1, <2>2, <3>1, HandlerStep DEF DropRaises, Turn
  <2>3. CASE s \notin connections
    <3>1. HandlerInv(s)'
      BY <1>1, <1>7, <2>3 DEF DropRaises, HandlerInv, TypeOK, Turn, Release, Move, registry
    <3> QED
      BY <1>7, <2>1, <2>3, <3>1, HandlerStep DEF DropRaises, Turn
  <2> QED
    BY <2>2, <2>3
<1>8. CASE Farewell(s)
  <2>1. HandlerInv(s)'
    BY <1>1, <1>8
       DEF Farewell, HandlerInv, TypeOK, Turn, Return, Release, Again, Move, registry
  <2> QED
    BY <1>8, <2>1, HandlerStep DEF Farewell, Turn, Return
<1>9. CASE Make(s)
  <2>1. HandlerInv(s)'
    BY <1>1, <1>9
       DEF Make, HandlerInv, TypeOK, Turn, Return, Release, Again, Move, registry
  <2> QED
    BY <1>9, <2>1, HandlerStep DEF Make, Turn, Return
<1>10. CASE Part(s)
  <2>1. HandlerInv(s)'
    BY <1>1, <1>10
       DEF Part, HandlerInv, TypeOK, Turn, Return, Release, Again, Move, registry
  <2> QED
    BY <1>10, <2>1, HandlerStep DEF Part, Turn, Return
<1>11. CASE Peek(s)
  <2>1. HandlerInv(s)'
    BY <1>1, <1>11
       DEF Peek, HandlerInv, TypeOK, Turn, Return, Release, Again, Move, registry
  <2> QED
    BY <1>11, <2>1, HandlerStep DEF Peek, Turn, Return
<1>12. CASE PeekDone(s)
  <2>1. HandlerInv(s)'
    BY <1>1, <1>12
       DEF PeekDone, HandlerInv, TypeOK, Turn, Return, Release, Again, Move, registry
  <2> QED
    BY <1>12, <2>1, HandlerStep DEF PeekDone, Turn, Return
<1>13. CASE PeekRefused(s)
  <2>1. HandlerInv(s)'
    BY <1>1, <1>13
       DEF PeekRefused, HandlerInv, TypeOK, Turn, Return, Release, Again, Move, registry
  <2> QED
    BY <1>13, <2>1, HandlerStep DEF PeekRefused, Turn, Return
<1> QED
  BY <1>2, <1>3, <1>4, <1>5, <1>6, <1>7, <1>8, <1>9, <1>10, <1>11, <1>12, <1>13 DEF Read

-----------------------------------------------------------------------------

\* The sections below change the registry.  Each lemma first says who the
\* handler is acting for, then takes the conjuncts of IInv one by one.

\* The part of IInv about the places of the handlers, for one that ran a
\* section: the others are where they were.
LEMMA OthersStay ==
  ASSUME TypeOK, NEW s \in Conns, NEW l \in Labels, Release(s, l) \/ Again(s, l)
  PROVE  pc'[s] = l /\ \A t \in Conns \ {s} : pc'[t] = pc[t]
BY DEF TypeOK, Release, Again, Move

\* A new connection is nobody's yet.
LEMMA EnterInv ==
  ASSUME IInv, NEW s \in Conns, Enter(s)
  PROVE  IInv'
<1>1. TypeOK /\ RegistryExact /\ MembershipExact /\ RowsExist
  BY DEF IInv
<1>2. /\ username[s] = None /\ "read" \in Labels
      /\ \A t \in Conns : HandlerInv(t)
  BY DEF IInv, Enter, Turn, HandlerInv, Labels, Queued
<1>3. pc'[s] = "read" /\ \A t \in Conns \ {s} : pc'[t] = pc[t]
  BY <1>1, <1>2, OthersStay DEF Enter
<1>4. TypeOK'
  BY <1>1, <1>2, LockType DEF TypeOK, Enter, Turn, tables
<1>5. RegistryExact'
  BY <1>1, <1>2 DEF RegistryExact, Enter
<1>6. MembershipExact' /\ RowsExist'
  BY <1>1 DEF MembershipExact, RowsExist, Enter, tables
<1>7. ASSUME NEW t \in Conns PROVE HandlerInv(t)'
  BY <1>2, <1>3 DEF HandlerInv, Enter, tables, Labels, Queued
<1> QED
  BY <1>4, <1>5, <1>6, <1>7 DEF IInv

\* The name was free when the section ran, so this becomes its one session.
LEMMA LoginAdmitInv ==
  ASSUME IInv, NEW s \in Conns, LoginAdmit(s)
  PROVE  IInv'
<1> DEFINE u == arg[s]
<1>1. TypeOK /\ RegistryExact /\ MembershipExact /\ RowsExist
  BY DEF IInv
<1>2. /\ u \in Names /\ u \in accounts /\ username[s] = None /\ s \in connections
      /\ sessions[u] = None /\ "welcome" \in Labels
      /\ \A t \in Conns : HandlerInv(t)
  BY DEF IInv, TypeOK, LoginAdmit, Turn, HandlerInv, Labels, Queued
<1>3. pc'[s] = "welcome" /\ \A t \in Conns \ {s} : pc'[t] = pc[t]
  BY <1>1, <1>2, OthersStay DEF LoginAdmit
<1>4. General \in Channels /\ None \notin Conns /\ None \notin Names
  BY GeneralAssumption, ChannelsAssumption, NoneAssumption
<1>5. TypeOK'
  BY <1>1, <1>2, <1>4, LockType DEF TypeOK, LoginAdmit, Turn, tables
\* No entry pointed at s before, for s had no name.
<1>6. \A w \in Names : sessions[w] # s
  BY <1>1, <1>2, <1>4 DEF RegistryExact
<1>7. RegistryExact'
  BY <1>1, <1>2, <1>4, <1>6 DEF RegistryExact, TypeOK, LoginAdmit
<1>8. MembershipExact'
  BY <1>1, <1>2, <1>4, <1>6 DEF MembershipExact, TypeOK, LoginAdmit
<1>9. RowsExist'
  BY <1>1, <1>2 DEF RowsExist, TypeOK, LoginAdmit, tables
<1>10. ASSUME NEW t \in Conns PROVE HandlerInv(t)'
  BY <1>1, <1>2, <1>3 DEF HandlerInv, TypeOK, LoginAdmit, tables, Labels, Queued
<1> QED
  BY <1>5, <1>7, <1>8, <1>9, <1>10 DEF IInv

\* The session logged out holds the name, unless the tables were cleared.
LEMMA LogoutInv ==
  ASSUME IInv, NEW s \in Conns, Logout(s)
  PROVE  IInv'
<1> DEFINE u == arg[s]
<1>1. TypeOK /\ RegistryExact /\ MembershipExact /\ RowsExist
  BY DEF IInv
<1>2. /\ u \in Names /\ username[s] = u /\ s \in connections /\ "drop" \in Labels
      /\ \A t \in Conns : HandlerInv(t)
  BY DEF IInv, TypeOK, Logout, Turn, HandlerInv, Labels, Queued
<1>3. pc'[s] = "drop" /\ \A t \in Conns \ {s} : pc'[t] = pc[t]
  BY <1>1, <1>2, OthersStay DEF Logout
<1>4. General \in Channels /\ None \notin Conns /\ None \notin Names
  BY GeneralAssumption, ChannelsAssumption, NoneAssumption
<1>5. TypeOK'
  BY <1>1, <1>2, <1>4, LockType DEF TypeOK, Logout, Turn, Unregister, tables
\* The entries that stay belong to other names, hence to other connections.
<1>6. \A w \in Names \ {u} : sessions[w] # s
  BY <1>1, <1>2, <1>4 DEF RegistryExact
<1>7. RegistryExact'
  <2>1. \A w \in Names : sessions'[w] # None =>
          sessions'[w] \in connections /\ username'[sessions'[w]] = w
    BY <1>1, <1>2, <1>6 DEF RegistryExact, TypeOK, Logout, Unregister
  <2>2. phase # "cleared" => \A t \in connections \ {s} : username[t] # u
    BY <1>1, <1>2, <1>4 DEF RegistryExact
  <2>3. phase # "cleared" =>
          \A t \in connections : username'[t] # None => sessions'[username'[t]] = t
    BY <1>1, <1>2, <2>2 DEF RegistryExact, TypeOK, Logout, Unregister
  <2> QED
    BY <2>1, <2>3 DEF RegistryExact, Logout
<1>8. MembershipExact'
  <2>1. phase # "cleared" => sessions[u] = s
    BY <1>1, <1>2, <1>4 DEF RegistryExact
  <2> QED
    BY <1>1, <1>2, <1>6, <2>1 DEF MembershipExact, TypeOK, Logout, Unregister
<1>9. RowsExist'
  BY <1>1 DEF RowsExist, TypeOK, Logout, tables
<1>10. ASSUME NEW t \in Conns PROVE HandlerInv(t)'
  BY <1>1, <1>2, <1>3 DEF HandlerInv, TypeOK, Logout, tables, Labels, Queued
<1> QED
  BY <1>5, <1>7, <1>8, <1>9, <1>10 DEF IInv

\* The user leaves one member list and enters another in one section.
LEMMA JoinInv ==
  ASSUME IInv, NEW s \in Conns, Join(s)
  PROVE  IInv'
<1> DEFINE u == username[s]
<1>1. TypeOK /\ RegistryExact /\ MembershipExact /\ RowsExist
  BY DEF IInv
<1>2. /\ u \in Names /\ s \in connections /\ "part" \in Labels
      /\ arg[s] \in rooms /\ arg[s] \in Channels /\ arg[s] # channel[s]
      /\ \A t \in Conns : HandlerInv(t)
  BY DEF IInv, TypeOK, Join, Turn, HandlerInv, Labels, Queued
<1>3. pc'[s] = "part" /\ \A t \in Conns \ {s} : pc'[t] = pc[t]
  BY <1>1, <1>2, OthersStay DEF Join
<1>4. TypeOK'
  BY <1>1, <1>2, LockType DEF TypeOK, Join, Turn, tables
<1>5. RegistryExact'
  BY <1>1 DEF RegistryExact, Join
<1>6. MembershipExact'
  <2>1. phase # "cleared" => sessions[u] = s
    BY <1>1, <1>2, NoneAssumption DEF RegistryExact
  <2>2. \A w \in Names \ {u} : sessions[w] # s
    BY <1>1, NoneAssumption DEF RegistryExact
  <2>3. \A c \in Channels : members'[c] = IF c = arg[s] THEN members[c] \cup {u}
                                          ELSE IF c = channel[s] THEN members[c] \ {u}
                                          ELSE members[c]
    BY <1>1, <1>2 DEF TypeOK, Join
  <2>4. \A t \in Conns : channel'[t] = IF t = s THEN arg[s] ELSE channel[t]
    BY <1>1 DEF TypeOK, Join
  <2> SUFFICES ASSUME phase # "cleared", NEW w \in Names, NEW c \in Channels
               PROVE  w \in members'[c] <=>
                        sessions[w] # None /\ channel'[sessions[w]] = c
    BY DEF MembershipExact, Join
  <2>5. w \in members[c] <=> sessions[w] # None /\ channel[sessions[w]] = c
    BY <1>1 DEF MembershipExact
  <2>6. CASE w = u
    <3>1. sessions[w] = s /\ s # None
      BY <2>1, <2>6, NoneAssumption
    <3>2. channel'[s] = arg[s]
      BY <2>4
    <3>3. c # arg[s] => w \notin members'[c]
      BY <2>3, <2>5, <2>6, <3>1
    <3>4. c = arg[s] => w \in members'[c]
      BY <2>3, <2>6
    <3> QED
      BY <3>1, <3>2, <3>3, <3>4
  <2>7. CASE w # u
    <3>1. w \in members'[c] <=> w \in members[c]
      BY <2>3, <2>7
    <3>2. sessions[w] # None => sessions[w] \in Conns \ {s}
      BY <1>1, <2>2, <2>7 DEF TypeOK
    <3>3. sessions[w] # None => channel'[sessions[w]] = channel[sessions[w]]
      BY <2>4, <3>2
    <3> QED
      BY <2>5, <3>1, <3>3
  <2> QED
    BY <2>6, <2>7
<1>7. RowsExist'
  BY <1>1, <1>2 DEF RowsExist, TypeOK, Join, tables
<1>8. ASSUME NEW t \in Conns PROVE HandlerInv(t)'
  BY <1>1, <1>2, <1>3 DEF HandlerInv, TypeOK, Join, tables, Labels, Queued
<1> QED
  BY <1>4, <1>5, <1>6, <1>7, <1>8 DEF IInv

\* The connection goes, and the user logged in on it with it.
LEMMA CleanSessionInv ==
  ASSUME IInv, NEW s \in Conns, CleanSession(s)
  PROVE  IInv'
<1> DEFINE u == username[s]
<1>1. TypeOK /\ RegistryExact /\ MembershipExact /\ RowsExist
  BY DEF IInv
<1>2. /\ u \in Names /\ sessions[u] = s /\ "drop" \in Labels
      /\ \A t \in Conns : HandlerInv(t)
  BY DEF IInv, TypeOK, CleanSession, Turn, Labels, Queued
<1>3. pc'[s] = "drop" /\ \A t \in Conns \ {s} : pc'[t] = pc[t]
  BY <1>1, <1>2, OthersStay DEF CleanSession
<1>4. TypeOK'
  BY <1>1, <1>2, LockType DEF TypeOK, CleanSession, Turn, Unregister, tables
<1>5. \A w \in Names \ {u} : sessions[w] # s
  BY <1>1, NoneAssumption DEF RegistryExact
<1>6. RegistryExact'
  BY <1>1, <1>2, <1>5 DEF RegistryExact, TypeOK, CleanSession, Unregister
<1>7. MembershipExact'
  BY <1>1, <1>2, <1>5 DEF MembershipExact, TypeOK, CleanSession, Unregister
<1>8. RowsExist'
  BY <1>1 DEF RowsExist, CleanSession, tables
<1>9. ASSUME NEW t \in Conns PROVE HandlerInv(t)'
  BY <1>1, <1>2, <1>3 DEF HandlerInv, TypeOK, CleanSession, tables, Labels, Queued
<1> QED
  BY <1>4, <1>6, <1>7, <1>8, <1>9 DEF IInv

\* The connection goes; no entry of self.sessions was its own.
LEMMA CleanOrphanInv ==
  ASSUME IInv, NEW s \in Conns, CleanOrphan(s)
  PROVE  IInv'
<1>1. TypeOK /\ RegistryExact /\ MembershipExact /\ RowsExist
  BY DEF IInv
<1>2. "closed" \in Labels /\ \A t \in Conns : HandlerInv(t)
  BY DEF IInv, Labels, Queued
<1>3. pc'[s] = "closed" /\ \A t \in Conns \ {s} : pc'[t] = pc[t]
  BY <1>1, <1>2, OthersStay DEF CleanOrphan, Return
<1>4. TypeOK'
  BY <1>1, <1>2, LockType DEF TypeOK, CleanOrphan, Turn, Return, tables
<1>5. RegistryExact'
  BY <1>1, NoneAssumption DEF RegistryExact, TypeOK, CleanOrphan
<1>6. MembershipExact' /\ RowsExist'
  BY <1>1 DEF MembershipExact, RowsExist, CleanOrphan, tables
<1>7. ASSUME NEW t \in Conns PROVE HandlerInv(t)'
  BY <1>1, <1>2, <1>3 DEF HandlerInv, TypeOK, CleanOrphan, Return, tables, Labels, Queued
<1> QED
  BY <1>4, <1>5, <1>6, <1>7 DEF IInv

-----------------------------------------------------------------------------
\* The database grows; NOCASE keeps twins out.
LEMMA TablesInv ==
  ASSUME IInv, NEW s \in Conns
  PROVE  /\ \A n \in Names : RegisterUser(s, n) => IInv'
         /\ \A c \in Channels : CmdCreate(s, c) => IInv'
<1>1. TypeOK /\ RegistryExact /\ MembershipExact /\ RowsExist /\ HandlerInv(s)
  BY DEF IInv
<1>2. ASSUME NEW n \in Names, RegisterUser(s, n) PROVE IInv'
  <2>1. TypeOK'
    BY <1>1, <1>2 DEF TypeOK, RegisterUser, registry, control
  <2>2. RegistryExact' /\ MembershipExact'
    BY <1>1, <1>2 DEF RegistryExact, MembershipExact, RegisterUser, registry
  <2>3. RowsExist'
    BY <1>1, <1>2 DEF RowsExist, NoTwins, Stored, RegisterUser, registry
  <2>4. ASSUME NEW t \in Conns PROVE HandlerInv(t)'
    BY <1>2 DEF IInv, HandlerInv, RegisterUser, registry, control
  <2> QED
    BY <2>1, <2>2, <2>3, <2>4 DEF IInv
<1>3. ASSUME NEW c \in Channels, CmdCreate(s, c) PROVE IInv'
  <2>1. "make" \in Labels /\ "read" \in Labels
    BY DEF Labels, Queued
  <2>2. pc'[s] = "make" /\ \A t \in Conns \ {s} : pc'[t] = pc[t]
    BY <1>1, <1>3 DEF TypeOK, CmdCreate, Wait, Move
  <2>3. TypeOK'
    BY <1>1, <1>3, <2>1, LockType DEF TypeOK, CmdCreate, registry
  <2>4. RegistryExact' /\ MembershipExact'
    BY <1>1, <1>3 DEF RegistryExact, MembershipExact, CmdCreate, registry
  <2>5. RowsExist'
    BY <1>1, <1>3 DEF RowsExist, NoTwins, Stored, CmdCreate, registry
  <2>6. ASSUME NEW t \in Conns PROVE HandlerInv(t)'
    BY <1>1, <1>3, <2>2 DEF IInv, HandlerInv, CmdCreate, Serving, registry, Labels, Queued
  <2> QED
    BY <2>3, <2>4, <2>5, <2>6 DEF IInv
<1> QED
  BY <1>2, <1>3

\* The operator's steps: the tables are emptied together.
LEMMA ShutdownInv ==
  ASSUME IInv, Stop \/ Shutdown \/ Clear \/ Done
  PROVE  IInv'
<1>1. TypeOK /\ RegistryExact /\ MembershipExact /\ RowsExist /\ \A t \in Conns : HandlerInv(t)
  BY DEF IInv
<1>2. CASE Stop
  BY <1>1, <1>2 DEF IInv, TypeOK, RegistryExact, MembershipExact, RowsExist, HandlerInv,
                    Stop, tables, registry, control
<1>3. CASE Shutdown
  BY <1>1, <1>3 DEF IInv, TypeOK, RegistryExact, MembershipExact, RowsExist, HandlerInv,
                    Shutdown, tables, registry
<1>4. CASE Clear
  <2>1. TypeOK'
    BY <1>1, <1>4 DEF TypeOK, Clear, tables
  <2>2. RegistryExact' /\ MembershipExact'
    BY <1>4 DEF RegistryExact, MembershipExact, Clear
  <2>3. RowsExist' /\ \A t \in Conns : HandlerInv(t)'
    BY <1>1, <1>4 DEF RowsExist, HandlerInv, Clear, tables
  <2> QED
    BY <2>1, <2>2, <2>3 DEF IInv
<1>5. CASE Done
  BY <1>1, <1>5 DEF IInv, TypeOK, RegistryExact, MembershipExact, RowsExist, HandlerInv,
                    Done, vars, tables, registry, control
<1> QED
  BY <1>2, <1>3, <1>4, <1>5

-----------------------------------------------------------------------------
\* Every step, of whichever handler, keeps the invariant.
LEMMA NextInv == IInv /\ [Next]_vars => IInv'
<1> SUFFICES ASSUME IInv, [Next]_vars PROVE IInv'
  OBVIOUS
<1>1. ASSUME NEW s \in Conns, Ask(s) \/ Lookup(s) PROVE IInv'
  BY <1>1, AskInv, TablesInv DEF Ask
<1>2. ASSUME NEW s \in Conns, Handle(s) PROVE IInv'
  BY <1>2, AskInv, SectionInv, EnterInv, LoginAdmitInv, LogoutInv, JoinInv,
     CleanSessionInv, CleanOrphanInv DEF Handle, Serve
<1>3. CASE Stop \/ Shutdown \/ Clear \/ Done
  BY <1>3, ShutdownInv
<1>4. CASE UNCHANGED vars
  BY <1>4 DEF IInv, TypeOK, RegistryExact, MembershipExact, RowsExist, HandlerInv,
              vars, tables, registry, control
<1> QED
  BY <1>1, <1>2, <1>3, <1>4 DEF Next

\* The strengthened invariant: registry, member lists, database and the locals
\* of every suspended handler agree in every reachable state.
THEOREM Inductive == Spec => []IInv
<1>1. Init => IInv
  BY InitInv
<1>2. IInv /\ [Next]_vars => IInv'
  BY NextInv
<1> QED
  BY <1>1, <1>2, PTL DEF Spec

\* The types of the tables, the handlers' places and the lock's queue.
THEOREM TypeCorrect == Spec => []TypeOK
BY Inductive, PTL DEF IInv

\* self.sessions and the sessions' own user names agree at every await.
THEOREM RegistryCorrect == Spec => []RegistryExact
BY Inductive, PTL DEF IInv

\* A user is listed in exactly the channel of their session.
THEOREM MembershipCorrect == Spec => []MembershipExact
BY Inductive, PTL DEF IInv

\* The names held in memory are rows of the database.
THEOREM RowsCorrect == Spec => []RowsExist
BY Inductive, PTL DEF IInv

\* No account is logged in twice, under any spelling: two sessions whose names
\* fold alike name the same row, and that row has one session.
THEOREM OneLogin == Spec => []OneLoginPerAccount
<1>1. IInv => OneLoginPerAccount
  <2> SUFFICES ASSUME IInv, phase # "cleared",
                      NEW s \in connections, NEW t \in connections,
                      username[s] # None, username[t] # None,
                      Fold[username[s]] = Fold[username[t]]
               PROVE  s = t
    BY DEF OneLoginPerAccount
  <2>1. s \in Conns /\ t \in Conns
    BY DEF IInv, TypeOK
  <2>2. username[s] = username[t]
    BY <2>1 DEF IInv, RowsExist, NoTwins
  <2>3. sessions[username[s]] = s /\ sessions[username[t]] = t
    BY DEF IInv, RegistryExact
  <2> QED
    BY <2>2, <2>3
<1> QED
  BY <1>1, Inductive, PTL

-----------------------------------------------------------------------------
\* The steps that can change self.sessions.
LEMMA SessionsChange ==
  ASSUME [Next]_vars, sessions' # sessions
  PROVE  \/ \E s \in Conns : LoginAdmit(s) \/ Logout(s) \/ CleanSession(s)
         \/ Clear
<1>1. ~UNCHANGED vars /\ ~Stop /\ ~Shutdown /\ ~Done
  BY DEF vars, Stop, Shutdown, Done, registry
<1>2. ASSUME NEW s \in Conns PROVE ~Ask(s) /\ ~Lookup(s) /\ ~Read(s)
  BY DEF Ask, Accept, RegisterUser, VerifyLogin, CmdCreate, CmdJoin, CmdLogout, Hangup,
         Lookup, Read, Drop, DropDone, DropRaises, Peek, PeekDone, PeekRefused, registry
<1>3. ASSUME NEW s \in Conns, Serve(s)
      PROVE  LoginAdmit(s) \/ Logout(s) \/ CleanSession(s)
  BY <1>3 DEF Serve, Enter, LoginRefuse, Unhold, Welcome, Greet, Farewell, Make, Join,
              Part, CleanOrphan, registry
<1> QED
  BY <1>1, <1>2, <1>3 DEF Next, Handle

\* Until the shutdown only the owner's logout or cleanup ends a session.
THEOREM OnlyOwnerEnds == Spec => OnlyOwnerEndsSession
<1> DEFINE Step == \A u \in Names :
             sessions[u] # None /\ sessions'[u] # sessions[u] /\ phase' # "cleared"
             => pc[sessions[u]] \in {"logout", "clean"} /\ sessions'[u] = None
<1>1. ASSUME IInv, [Next]_vars PROVE Step
  <2> SUFFICES ASSUME NEW u \in Names, sessions[u] # None, sessions'[u] # sessions[u],
                      phase' # "cleared"
               PROVE  pc[sessions[u]] \in {"logout", "clean"} /\ sessions'[u] = None
    OBVIOUS
  <2>1. TypeOK /\ RegistryExact
    BY <1>1 DEF IInv
  <2>2. PICK s \in Conns : LoginAdmit(s) \/ Logout(s) \/ CleanSession(s)
    BY <1>1, SessionsChange DEF Clear
  <2>3. CASE LoginAdmit(s)
    BY <2>1, <2>3 DEF LoginAdmit, TypeOK
  <2>4. CASE Logout(s)
    <3>1. u = arg[s] /\ username[s] = u /\ s \in connections /\ phase # "cleared"
      BY <1>1, <2>1, <2>4 DEF IInv, HandlerInv, TypeOK, Logout, Unregister, Turn, Labels, Queued
    <3>2. sessions[u] = s
      BY <2>1, <3>1, NoneAssumption DEF RegistryExact
    <3> QED
      BY <2>1, <2>4, <3>1, <3>2 DEF Logout, Unregister, Turn, TypeOK
  <2>5. CASE CleanSession(s)
    BY <2>1, <2>5 DEF CleanSession, Unregister, Turn, TypeOK
  <2> QED
    BY <2>2, <2>3, <2>4, <2>5
<1>2. IInv /\ [Next]_vars => [Step]_vars
  BY <1>1
<1> QED
  BY <1>2, Inductive, PTL DEF Spec, OnlyOwnerEndsSession

-----------------------------------------------------------------------------
(* The registry implements Presence.                                        *)

\* The steps that can change the member lists, or whether they are kept.
LEMMA ListedChange ==
  ASSUME [Next]_vars, ~UNCHANGED <<members, (phase # "cleared")>>
  PROVE  \/ \E s \in Conns : LoginAdmit(s) \/ Logout(s) \/ Join(s) \/ CleanSession(s)
         \/ Clear
<1>1. ~UNCHANGED vars /\ ~Stop /\ ~Shutdown /\ ~Done
  BY DEF vars, Stop, Shutdown, Done, registry
<1>2. ASSUME NEW s \in Conns PROVE ~Ask(s) /\ ~Lookup(s) /\ ~Read(s)
  BY DEF Ask, Accept, RegisterUser, VerifyLogin, CmdCreate, CmdJoin, CmdLogout, Hangup,
         Lookup, Read, Drop, DropDone, DropRaises, Peek, PeekDone, PeekRefused, registry
<1>3. ASSUME NEW s \in Conns, Serve(s)
      PROVE  LoginAdmit(s) \/ Logout(s) \/ Join(s) \/ CleanSession(s)
  BY <1>3 DEF Serve, Enter, LoginRefuse, Unhold, Welcome, Greet, Farewell, Make, Part,
              CleanOrphan, registry
<1> QED
  BY <1>1, <1>2, <1>3 DEF Next, Handle

\* Who is listed where, in terms of the sessions.
LEMMA ListedWhere ==
  ASSUME IInv, phase # "cleared", NEW u \in Names, NEW c \in Channels
  PROVE  P!In(u, c) \in Listed <=> sessions[u] # None /\ channel[sessions[u]] = c
BY DEF Listed, P!In, IInv, MembershipExact

\* Every step of the registry is one that the specification of presence allows.
LEMMA PresenceStep ==
  ASSUME IInv, IInv', [Next]_vars
  PROVE  [P!Next]_(P!vars)
<1> USE DEF P!vars
<1>1. TypeOK /\ TypeOK' /\ RegistryExact /\ \A t \in Conns : HandlerInv(t)
  BY DEF IInv
<1>2. CASE UNCHANGED <<members, (phase # "cleared")>>
  BY <1>2 DEF Listed
<1>3. CASE phase = "cleared" /\ ~UNCHANGED <<members, (phase # "cleared")>>
  <2>1. phase' = "cleared"
    BY <1>3, ListedChange DEF LoginAdmit, Logout, Join, CleanSession, Clear
  <2>2. Listed' \subseteq Names \X Channels
    BY DEF Listed
  <2> QED
    BY <1>3, <2>1, <2>2 DEF P!Next, P!Closed
<1>4. ASSUME phase # "cleared", NEW s \in Conns, LoginAdmit(s) PROVE P!Next
  <2> DEFINE u == arg[s]
  <2>1. u \in Names /\ sessions[u] = None /\ General \in Channels /\ phase' = phase
    BY <1>1, <1>4, ChannelsAssumption, GeneralAssumption
       DEF LoginAdmit, Turn, HandlerInv, TypeOK
  <2>2. P!Offline(u)
    BY <1>4, <2>1, ListedWhere DEF P!Offline
  <2>3. \A c \in Channels : u \notin members[c]
    BY <1>4, <2>1 DEF IInv, MembershipExact
  <2>4. Listed' = Listed \cup {P!In(u, General)}
    BY <1>1, <1>4, <2>1 DEF Listed, P!In, LoginAdmit, TypeOK
  <2>5. P!Arrive(u)
    BY <1>4, <2>1, <2>2, <2>4 DEF P!Arrive
  <2> QED
    BY <2>1, <2>5 DEF P!Next
<1>5. ASSUME phase # "cleared", NEW s \in Conns, NEW u \in Names,
             sessions[u] = s, Unregister(u, channel[s]), phase' = phase
      PROVE  P!Next
  <2>1. P!In(u, channel[s]) \in Listed /\ channel[s] \in Channels
    BY <1>1, <1>5, ListedWhere, NoneAssumption DEF TypeOK
  <2>2. \A c \in Channels : u \in members[c] <=> c = channel[s]
    BY <1>5, NoneAssumption DEF IInv, MembershipExact
  <2>3. \A c \in Channels : members'[c] = members[c] \ {u}
    BY <1>1, <1>5, <2>1, <2>2 DEF Unregister, TypeOK
  <2>4. Listed' = P!Others(u)
    BY <2>3 DEF Listed, P!Others
  <2>5. P!Leave(u)
    BY <1>5, <2>1, <2>4 DEF P!Leave, P!Offline
  <2> QED
    BY <2>5 DEF P!Next
<1>6. ASSUME phase # "cleared", NEW s \in Conns, Logout(s) PROVE P!Next
  <2>1. arg[s] \in Names /\ username[s] = arg[s] /\ s \in connections /\ phase' = phase
    BY <1>1, <1>6 DEF Logout, Turn, HandlerInv, TypeOK, Labels, Queued
  <2>2. sessions[arg[s]] = s
    BY <1>1, <1>6, <2>1, NoneAssumption DEF RegistryExact
  <2> QED
    BY <1>5, <1>6, <2>1, <2>2 DEF Logout
<1>7. ASSUME phase # "cleared", NEW s \in Conns, CleanSession(s) PROVE P!Next
  BY <1>1, <1>5, <1>7 DEF CleanSession, TypeOK
<1>8. ASSUME phase # "cleared", NEW s \in Conns, Join(s) PROVE P!Next
  <2> DEFINE u == username[s]
             d == arg[s]
  <2>1. /\ u \in Names /\ d \in Channels /\ d # channel[s] /\ s \in connections
        /\ phase' = phase /\ channel[s] \in Channels
    BY <1>1, <1>8 DEF Join, Turn, HandlerInv, TypeOK, IInv, RowsExist, Labels, Queued
  <2>2. sessions[u] = s
    BY <1>1, <1>8, <2>1, NoneAssumption DEF RegistryExact
  <2>3. \A c \in Channels : u \in members[c] <=> c = channel[s]
    BY <1>8, <2>1, <2>2, NoneAssumption DEF IInv, MembershipExact
  <2>4. \A c \in Channels : members'[c] = IF c = d THEN members[c] \cup {u}
                                          ELSE members[c] \ {u}
    <3>1. \A c \in Channels : members'[c] = IF c = d THEN members[c] \cup {u}
                                            ELSE IF c = channel[s] THEN members[c] \ {u}
                                            ELSE members[c]
      BY <1>1, <1>8, <2>1 DEF Join, TypeOK
    <3> QED
      BY <2>3, <3>1
  <2>5. Listed' = P!Others(u) \cup {P!In(u, d)}
    BY <1>1, <2>1, <2>4 DEF Listed, P!Others, P!In, TypeOK
  <2>6. ~P!Offline(u) /\ P!In(u, d) \notin Listed
    BY <1>8, <2>1, <2>2, ListedWhere, NoneAssumption DEF P!Offline
  <2>7. P!Switch(u, d)
    BY <1>8, <2>1, <2>5, <2>6 DEF P!Switch
  <2> QED
    BY <2>1, <2>7 DEF P!Next
<1>9. ASSUME phase # "cleared", Clear PROVE P!Next
  <2>1. Listed' = {}
    BY <1>9 DEF Listed, Clear
  <2> QED
    BY <1>9, <2>1 DEF P!Next, P!Close, Clear
<1> QED
  BY <1>2, <1>3, <1>4, <1>6, <1>7, <1>8, <1>9, ListedChange

\* Every behaviour of the registry, seen as who is listed where, is one that
\* Presence allows.
THEOREM ImplementsPresence == Spec => PresenceSpec
<1>1. Init => P!Init
  BY DEF Init, P!Init, Listed
<1>2. IInv /\ IInv' /\ [Next]_vars => [P!Next]_(P!vars)
  BY PresenceStep
<1> QED
  BY <1>1, <1>2, Inductive, PTL DEF Spec, PresenceSpec, P!Spec
=============================================================================
