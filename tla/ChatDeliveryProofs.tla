-------------------------- MODULE ChatDeliveryProofs --------------------------
(* Proofs about ChatDelivery for any connections, accounts, channels and    *)
(* limits, and whichever connections break.                                 *)
EXTENDS ChatDelivery, FiniteSetTheorems, SequenceTheorems, WellFoundedInduction, TLAPS

-----------------------------------------------------------------------------
(* The inductive invariant.                                                 *)

\* A user has one session, on a connection that the server has not given up.
UserInv ==
  /\ \A c, d \in Conns : user[c] = user[d] /\ user[c] # None => c = d
  /\ \A c \in Conns : user[c] # None => Open(c)
  /\ \A c \in Conns : state[c] \in {"error", "cut"} => job[c] = <<>>

IsNews(item) == item.kind \in {"message", "joined", "left"}

\* What a handler owes: history and the word of where it is only to its own
\* client, and of its own channel.
OwedBy(c, t) ==
  /\ t.do = "fetch" => user[c] # None /\ t.room = room[c]
  /\ t.do = "tell" => IsNews(t.item)
  /\ t.do = "write" /\ ~IsNews(t.item) => user[c] # None /\ t.to = {c}
  /\ t.do # "fetch" /\ t.item.kind = "history" => t.item.ids \subseteq Ids

\* A message that is still to be sent is the only thing its handler has to do; it
\* is the last its user has sent.
OwedMessage(c, t) ==
  t.do # "fetch" /\ t.item.kind = "message" =>
    LET i == t.item.id IN
    /\ i \in Ids /\ Len(job[c]) = 1
    /\ said[i].on = c /\ said[i].from = user[c] /\ user[c] # None
    /\ \A j \in Ids : j > i => said[j].from # said[i].from
    /\ t.do = "tell" => t.room = said[i].to /\ t.but = None

Telling(c) ==
  [do |-> "tell", room |-> room[c], item |-> Joined(user[c], room[c]), but |-> user[c]]

\* A "joined" is of the user whose handler owes it, where that still is; a "left"
\* is the first thing owed, to the channel that was left.
OwedNotice(c, k, t) ==
  t.do # "fetch" =>
    /\ t.item.kind = "joined" =>
         /\ user[c] # None /\ t.item = Joined(user[c], room[c])
         /\ t.do = "tell" => t = Telling(c)
    /\ t.item.kind = "left" =>
         /\ k = 1
         /\ t.do = "tell" => t.room = t.item.room /\ t.but \in {t.item.who, None}

InOrder(c) ==
  \A k \in 1..Len(job[c]) :
    OwedBy(c, job[c][k]) /\ OwedMessage(c, job[c][k]) /\ OwedNotice(c, k, job[c][k])

JobInv == \A c \in Conns : InOrder(c)

\* NoGap, for a client that has been sent, or is to be sent, the rows ids.
Covered(c, ids) ==
  \A i \in Rows(room[c]) :
    \/ i \in live[c] \cup ids
    \/ Cardinality({j \in ids : j > i}) >= Recent
    \/ Coming(i, c)
    \/ state[said[i].on] \in {"cut", "crashed"}

Greeting(c) == [do |-> "write", to |-> {c}, item |-> You(room[c])]
Reading(c) == [do |-> "fetch", room |-> room[c], limit |-> Recent]

\* The stages of an arrival: the client is still to be told where it is,
AtGreeting(c) ==
  LET n == Len(job[c]) IN
  /\ n >= 3
  /\ job[c][n - 2] = Greeting(c) /\ job[c][n - 1] = Reading(c) /\ job[c][n] = Telling(c)
  /\ \A k \in 1..(n - 3) : job[c][k].do # "fetch" /\ IsNews(job[c][k].item)

\* its history is still to be read,
AtReading(c) ==
  /\ frame[c] = None
  /\ Len(job[c]) = 2 /\ job[c][1] = Reading(c) /\ job[c][2].do = "tell"

\* or to be sent,
AtHistory(c) ==
  /\ frame[c] = None
  /\ Len(job[c]) = 2 /\ job[c][2].do = "tell"
  /\ job[c][1].do = "write" /\ job[c][1].item.kind = "history"
  /\ Covered(c, job[c][1].item.ids)

\* or it has all.
AtHome(c) ==
  /\ frame[c] # None /\ Len(job[c]) <= 1
  /\ Len(job[c]) = 1 /\ job[c][1].do # "fetch" => job[c][1].item.kind # "you"
  /\ Covered(c, frame[c])

Present(c) == user[c] # None /\ whole[c] /\ state[c] = "open"

Placed(c) == Present(c) => AtGreeting(c) \/ AtReading(c) \/ AtHistory(c) \/ AtHome(c)

ArrivalInv == \A c \in Conns : Placed(c)

\* c still has to tell its channel that it came.
ToTell(c) == \E k \in 1..Len(job[c]) : job[c][k] = Telling(c)

\* d was told that c came, or is about to be.
Hears(d, c) ==
  \/ \E k \in DOMAIN notices[d] : notices[d][k] = Joined(user[c], room[c])
  \/ \E k \in 1..Len(job[c]) :
       /\ job[c][k].do = "write" /\ job[c][k].item = Joined(user[c], room[c])
       /\ d \in job[c][k].to

\* Two users in a channel hear of each other.
MeetInv ==
  \A c, d \in Conns :
    c # d /\ Present(c) /\ Present(d) /\ room[c] = room[d] =>
      ToTell(c) \/ ToTell(d) \/ Hears(c, d) \/ Hears(d, c)

\* A "left" of u in channel r that has yet to reach c.
LeftComing(u, r, c) ==
  \E d \in Conns : \E k \in 1..Len(job[d]) :
    LET t == job[d][k] IN
    /\ t.do # "fetch" /\ t.item = Left(u, r)
    /\ t.do = "write" => c \in t.to

Here(u, r) == \E d \in Conns : user[d] = u /\ room[d] = r

SomeCut == \E d \in Conns : state[d] \in {"cut", "crashed"}

\* Whose "joined" was the last c heard of them is there, or c is about to hear more.
SeenInv ==
  \A c \in Conns : Present(c) /\ ~AtGreeting(c) =>
    \A k \in DOMAIN notices[c] : LastAbout(c, k) /\ notices[c][k].kind = "joined" =>
      \/ Here(notices[c][k].who, room[c])
      \/ LeftComing(notices[c][k].who, room[c], c)
      \/ SomeCut

\* What each client has been written is what there is.
WireOK ==
  /\ live \in [Conns -> SUBSET Ids]
  /\ frame \in [Conns -> {None} \cup SUBSET Ids]
  /\ notices \in [Conns -> Seq(Notices)]

\* What the types rest on, and all of it.
Owed == TypeOK /\ UserInv /\ JobInv
DInv == Owed /\ ArrivalInv

-----------------------------------------------------------------------------
(* A job, and the tasks in it.                                              *)

\* The first task of a job is done, and leaves nothing,
LEMMA InsteadNothing ==
  ASSUME NEW S, NEW q \in Seq(S), q # <<>>
  PROVE  /\ <<>> \o Tail(q) \in Seq(S) /\ Len(<<>> \o Tail(q)) = Len(q) - 1
         /\ \A k \in 1..(Len(q) - 1) : (<<>> \o Tail(q))[k] = q[k + 1]
<1>1. /\ Tail(q) \in Seq(S) /\ Len(Tail(q)) = Len(q) - 1
      /\ \A k \in 1..Len(Tail(q)) : Tail(q)[k] = q[k + 1]
  BY HeadTailProperties
<1>2. <<>> \o Tail(q) = Tail(q)
  BY <1>1, ConcatEmptySeq
<1> QED
  BY <1>1, <1>2

\* or another.
LEMMA InsteadOne ==
  ASSUME NEW S, NEW q \in Seq(S), q # <<>>, NEW x \in S
  PROVE  /\ <<x>> \o Tail(q) \in Seq(S) /\ Len(<<x>> \o Tail(q)) = Len(q)
         /\ (<<x>> \o Tail(q))[1] = x
         /\ \A k \in 2..Len(q) : (<<x>> \o Tail(q))[k] = q[k]
<1> DEFINE T == Tail(q)
<1>1. T \in Seq(S) /\ Len(T) = Len(q) - 1 /\ \A k \in 1..Len(T) : T[k] = q[k + 1]
  BY HeadTailProperties
<1>2. <<x>> \in Seq(S) /\ Len(<<x>>) = 1 /\ <<x>>[1] = x
  OBVIOUS
<1>3. Len(q) \in Nat \ {0}
  BY EmptySeq
<1> HIDE DEF T
<1> DEFINE X == <<x>>
<1>4. X \in Seq(S) /\ Len(X) = 1 /\ X[1] = x
  BY <1>2
<1> HIDE DEF X
<1>5. /\ X \o T \in Seq(S) /\ Len(X \o T) = Len(X) + Len(T)
      /\ \A i \in 1..(Len(X) + Len(T)) : (X \o T)[i] = IF i <= Len(X) THEN X[i] ELSE T[i - Len(X)]
  <2>1. X \in Seq(S) /\ T \in Seq(S)
    BY <1>1, <1>4
  <2> QED
    BY <2>1, ConcatProperties, Zenon
<1>6. X \o T \in Seq(S) /\ Len(X \o T) = Len(q) /\ (X \o T)[1] = x
  BY <1>1, <1>3, <1>4, <1>5
<1>7. ASSUME NEW k \in 2..Len(q) PROVE (X \o T)[k] = q[k]
  BY <1>1, <1>3, <1>4, <1>5
<1> QED
  BY <1>6, <1>7 DEF X, T

\* Of a job the first task is a task.
LEMMA FirstTask ==
  ASSUME TypeOK, NEW c \in Conns, job[c] # <<>>
  PROVE  Head(job[c]) = job[c][1] /\ job[c][1] \in Tasks /\ Len(job[c]) \in Nat \ {0}
<1>1. job[c] \in Seq(Tasks)
  BY DEF TypeOK
<1>2. Len(job[c]) \in Nat \ {0}
  BY <1>1, EmptySeq
<1> QED
  BY <1>1, <1>2, ElementOfSeq

\* What tasks there are.
LEMMA TaskParts ==
  ASSUME NEW t \in Tasks
  PROVE  /\ t.do = "tell" => t.room \in Rooms /\ t.item \in Items /\ t.but \in Users \cup {None}
         /\ t.do = "write" => t.to \in SUBSET Conns /\ t.item \in Items
         /\ t.do = "fetch" => t.room \in Rooms /\ t.limit \in Nat
         /\ t.do \in {"tell", "write", "fetch"}
BY DEF Tasks

\* What items there are.
LEMMA ItemParts ==
  ASSUME NEW x \in Items
  PROVE  /\ x.kind = "message" => x.id \in 1..MaxSaid
         /\ x.kind = "history" => x.ids \in SUBSET (1..MaxSaid)
         /\ x.kind \in {"joined", "left"} => x \in Notices
         /\ x.kind \in {"message", "history", "joined", "left", "you"}
BY DEF Items, Notices

\* How a job goes on once the sends of an item to some connections take the
\* place of its first task.
LEMMA Replaced ==
  ASSUME TypeOK, NEW c \in Conns, job[c] # <<>>, NEW D \in SUBSET Conns, NEW x \in Items,
         Instead(c, Sends(D, x))
  PROVE  /\ job' \in [Conns -> Seq(Tasks)]
         /\ \A d \in Conns \ {c} : job'[d] = job[d]
         /\ D = {} => /\ Len(job'[c]) = Len(job[c]) - 1
                      /\ \A k \in 1..(Len(job[c]) - 1) : job'[c][k] = job[c][k + 1]
         /\ D # {} => /\ Len(job'[c]) = Len(job[c])
                      /\ job'[c][1] = [do |-> "write", to |-> D, item |-> x]
                      /\ \A k \in 2..Len(job[c]) : job'[c][k] = job[c][k]
<1> DEFINE w == [do |-> "write", to |-> D, item |-> x]
<1>1. w \in Tasks
  BY DEF Tasks
<1>2. job \in [Conns -> Seq(Tasks)] /\ job[c] \in Seq(Tasks)
  BY DEF TypeOK
<1>3. job' = [job EXCEPT ![c] = Sends(D, x) \o Tail(job[c])]
  BY DEF Instead, Owes
<1>4. CASE D = {}
  <2>1. Sends(D, x) = <<>>
    BY <1>4 DEF Sends
  <2> DEFINE q == <<>> \o Tail(job[c])
  <2>2. /\ q \in Seq(Tasks) /\ Len(q) = Len(job[c]) - 1
        /\ \A k \in 1..(Len(job[c]) - 1) : q[k] = job[c][k + 1]
    BY <1>2, InsteadNothing
  <2>3. job' = [job EXCEPT ![c] = q]
    BY <1>3, <2>1
  <2> HIDE DEF q
  <2> QED
    BY <1>2, <1>4, <2>2, <2>3
<1>5. CASE D # {}
  <2>1. Sends(D, x) = <<w>>
    BY <1>5 DEF Sends
  <2> DEFINE q == <<w>> \o Tail(job[c])
  <2> HIDE DEF w
  <2>2. /\ q \in Seq(Tasks) /\ Len(q) = Len(job[c]) /\ q[1] = w
        /\ \A k \in 2..Len(job[c]) : q[k] = job[c][k]
    BY <1>1, <1>2, InsteadOne
  <2>3. job' = [job EXCEPT ![c] = q]
    BY <1>3, <2>1
  <2> HIDE DEF q
  <2>4. job'[c] = q /\ job' \in [Conns -> Seq(Tasks)] /\ \A d \in Conns \ {c} : job'[d] = job[d]
    BY <1>2, <2>2, <2>3
  <2> QED
    BY <1>5, <2>2, <2>4 DEF w
<1> QED
  BY <1>4, <1>5

\* The item of a notice, a message, a history and a word of where one is.
LEMMA ItemKinds ==
  /\ \A u \in Users, r \in Rooms : {Joined(u, r), Left(u, r), You(r)} \subseteq Items
  /\ \A i \in 1..MaxSaid : Message(i) \in Items
  /\ \A S \in SUBSET (1..MaxSaid) : History(S) \in Items
BY DEF Items, Notices, Joined, Left, You, Message, History

\* Telling a channel, and reading its history, are tasks.
LEMMA TellTask ==
  ASSUME NEW r \in Rooms, NEW x \in Items, NEW b \in Users \cup {None}
  PROVE  /\ [do |-> "tell", room |-> r, item |-> x, but |-> b] \in Tasks
         /\ Tell(r, x, b) \in Seq(Tasks) /\ Len(Tell(r, x, b)) = 1
         /\ Tell(r, x, b)[1] = [do |-> "tell", room |-> r, item |-> x, but |-> b]
<1> DEFINE t == [do |-> "tell", room |-> r, item |-> x, but |-> b]
<1>1. t \in Tasks
  BY DEF Tasks
<1> HIDE DEF t
<1>2. <<t>> \in Seq(Tasks) /\ Len(<<t>>) = 1 /\ <<t>>[1] = t
  BY <1>1
<1>3. Tell(r, x, b) = <<t>>
  BY DEF Tell, t
<1> QED
  BY <1>1, <1>2, <1>3 DEF t

LEMMA FetchTask ==
  ASSUME NEW r \in Rooms, NEW n \in Nat
  PROVE  /\ [do |-> "fetch", room |-> r, limit |-> n] \in Tasks
         /\ Fetch(r, n) \in Seq(Tasks) /\ Len(Fetch(r, n)) = 1
         /\ Fetch(r, n)[1] = [do |-> "fetch", room |-> r, limit |-> n]
<1> DEFINE t == [do |-> "fetch", room |-> r, limit |-> n]
<1>1. t \in Tasks
  BY DEF Tasks
<1> HIDE DEF t
<1>2. <<t>> \in Seq(Tasks) /\ Len(<<t>>) = 1 /\ <<t>>[1] = t
  BY <1>1
<1>3. Fetch(r, n) = <<t>>
  BY DEF Fetch, t
<1> QED
  BY <1>1, <1>2, <1>3 DEF t

LEMMA SendTask ==
  ASSUME NEW c \in Conns, NEW x \in Items
  PROVE  /\ [do |-> "write", to |-> {c}, item |-> x] \in Tasks
         /\ Sends({c}, x) \in Seq(Tasks) /\ Len(Sends({c}, x)) = 1
         /\ Sends({c}, x)[1] = [do |-> "write", to |-> {c}, item |-> x]
<1> DEFINE t == [do |-> "write", to |-> {c}, item |-> x]
<1>1. t \in Tasks
  BY DEF Tasks
<1> HIDE DEF t
<1>2. <<t>> \in Seq(Tasks) /\ Len(<<t>>) = 1 /\ <<t>>[1] = t
  BY <1>1
<1>3. Sends({c}, x) = <<t>>
  BY DEF Sends, t
<1> QED
  BY <1>1, <1>2, <1>3 DEF t

\* What an arrival is made of,
LEMMA ArrivalTasks ==
  ASSUME NEW u \in Users, NEW r \in Rooms
  PROVE  /\ Arrival(u, r) \in Seq(Tasks) /\ Len(Arrival(u, r)) = 2
         /\ Arrival(u, r)[1] = [do |-> "fetch", room |-> r, limit |-> Recent]
         /\ Arrival(u, r)[2] = [do |-> "tell", room |-> r, item |-> Joined(u, r), but |-> u]
<1> DEFINE a == Fetch(r, Recent)
           b == Tell(r, Joined(u, r), u)
<1>1. a \in Seq(Tasks) /\ Len(a) = 1 /\ a[1] = [do |-> "fetch", room |-> r, limit |-> Recent]
  BY FetchTask, LimitsAssumption
<1>2. /\ b \in Seq(Tasks) /\ Len(b) = 1
      /\ b[1] = [do |-> "tell", room |-> r, item |-> Joined(u, r), but |-> u]
  BY TellTask, ItemKinds
<1>3. Arrival(u, r) = a \o b
  BY DEF Arrival
<1> HIDE DEF a, b
<1>4. /\ a \o b \in Seq(Tasks) /\ Len(a \o b) = Len(a) + Len(b)
      /\ \A i \in 1..(Len(a) + Len(b)) :
           (a \o b)[i] = IF i <= Len(a) THEN a[i] ELSE b[i - Len(a)]
  <2>1. a \in Seq(Tasks) /\ b \in Seq(Tasks)
    BY <1>1, <1>2
  <2> QED
    BY <2>1, ConcatProperties, Zenon
<1> QED
  BY <1>1, <1>2, <1>3, <1>4

\* and a move.
MoveJob(c, u, q, r) ==
  Tell(q, Left(u, q), u) \o Sends({c}, You(r)) \o Arrival(u, r)

LEMMA MoveTasks ==
  ASSUME NEW c \in Conns, NEW u \in Users, NEW q \in Rooms, NEW r \in Rooms
  PROVE  LET m == MoveJob(c, u, q, r) IN
         /\ m \in Seq(Tasks) /\ Len(m) = 4
         /\ m[1] = [do |-> "tell", room |-> q, item |-> Left(u, q), but |-> u]
         /\ m[2] = [do |-> "write", to |-> {c}, item |-> You(r)]
         /\ m[3] = [do |-> "fetch", room |-> r, limit |-> Recent]
         /\ m[4] = [do |-> "tell", room |-> r, item |-> Joined(u, r), but |-> u]
<1> DEFINE a == Tell(q, Left(u, q), u)
           b == Sends({c}, You(r))
           d == Arrival(u, r)
<1>1. /\ a \in Seq(Tasks) /\ Len(a) = 1
      /\ a[1] = [do |-> "tell", room |-> q, item |-> Left(u, q), but |-> u]
  BY TellTask, ItemKinds
<1>2. b \in Seq(Tasks) /\ Len(b) = 1 /\ b[1] = [do |-> "write", to |-> {c}, item |-> You(r)]
  BY SendTask, ItemKinds
<1>3. /\ d \in Seq(Tasks) /\ Len(d) = 2
      /\ d[1] = [do |-> "fetch", room |-> r, limit |-> Recent]
      /\ d[2] = [do |-> "tell", room |-> r, item |-> Joined(u, r), but |-> u]
  BY ArrivalTasks
<1>4. MoveJob(c, u, q, r) = a \o b \o d
  BY DEF MoveJob
<1> HIDE DEF a, b, d
<1> DEFINE e == a \o b
<1>5. /\ e \in Seq(Tasks) /\ Len(e) = Len(a) + Len(b)
      /\ \A i \in 1..(Len(a) + Len(b)) : e[i] = IF i <= Len(a) THEN a[i] ELSE b[i - Len(a)]
  <2>1. a \in Seq(Tasks) /\ b \in Seq(Tasks)
    BY <1>1, <1>2
  <2> QED
    BY <2>1, ConcatProperties, Zenon
<1>6. MoveJob(c, u, q, r) = e \o d
  BY <1>4
<1> HIDE DEF e
<1>7. e \in Seq(Tasks) /\ Len(e) = 2 /\ e[1] = a[1] /\ e[2] = b[1]
  BY <1>1, <1>2, <1>5
<1>8. /\ e \o d \in Seq(Tasks) /\ Len(e \o d) = Len(e) + Len(d)
      /\ \A i \in 1..(Len(e) + Len(d)) :
           (e \o d)[i] = IF i <= Len(e) THEN e[i] ELSE d[i - Len(e)]
  <2>1. e \in Seq(Tasks) /\ d \in Seq(Tasks)
    BY <1>3, <1>7
  <2> QED
    BY <2>1, ConcatProperties, Zenon
<1>9. MoveJob(c, u, q, r) \in Seq(Tasks) /\ Len(MoveJob(c, u, q, r)) = 4
  BY <1>3, <1>6, <1>7, <1>8
<1>10. /\ MoveJob(c, u, q, r)[1] = e[1] /\ MoveJob(c, u, q, r)[2] = e[2]
       /\ MoveJob(c, u, q, r)[3] = d[1] /\ MoveJob(c, u, q, r)[4] = d[2]
  BY <1>3, <1>6, <1>7, <1>8
<1> QED
  BY <1>1, <1>2, <1>3, <1>7, <1>9, <1>10

-----------------------------------------------------------------------------
(* The types.                                                               *)

\* What has been said stays said.
LEMMA SaidGrows ==
  ASSUME TypeOK, NEW m \in [from : Users, to : Rooms \cup Users, on : Conns],
         said' = Append(said, m)
  PROVE  /\ said' \in Seq([from : Users, to : Rooms \cup Users, on : Conns])
         /\ Len(said) \in Nat /\ Len(said') = Len(said) + 1
         /\ said'[Len(said) + 1] = m
         /\ \A i \in Ids : said'[i] = said[i]
         /\ Ids' = Ids \cup {Len(said) + 1} /\ Len(said) + 1 \notin Ids
BY DEF TypeOK, Ids

\* What is written is of the type it should have,
LEMMA PutTyped ==
  ASSUME TypeOK, NEW d \in Conns, NEW x \in Items, Put(d, x), Ids \subseteq Ids',
         x.kind = "message" => x.id \in Ids',
         x.kind = "history" => x.ids \subseteq Ids'
  PROVE  WireOK'
<1> USE DEF WireOK
<1>1. CASE UNCHANGED wire
  BY <1>1 DEF TypeOK, wire
<1>2. CASE /\ x.kind = "you"
           /\ live' = [live EXCEPT ![d] = {}]
           /\ frame' = [frame EXCEPT ![d] = None]
           /\ notices' = [notices EXCEPT ![d] = <<>>]
  <2>1. live' \in [Conns -> SUBSET Ids']
    BY <1>2 DEF TypeOK
  <2>2. frame' \in [Conns -> {None} \cup SUBSET Ids']
    BY <1>2 DEF TypeOK
  <2>3. notices' \in [Conns -> Seq(Notices)]
    <3>1. <<>> \in Seq(Notices)
      OBVIOUS
    <3> QED
      BY <1>2, <3>1 DEF TypeOK
  <2> QED
    BY <2>1, <2>2, <2>3
<1>3. CASE /\ x.kind = "message"
           /\ live' = [live EXCEPT ![d] = @ \cup {x.id}]
           /\ UNCHANGED <<frame, notices>>
  BY <1>3 DEF TypeOK
<1>4. CASE /\ x.kind = "history"
           /\ frame' = [frame EXCEPT ![d] = IF @ = None THEN x.ids ELSE @]
           /\ UNCHANGED <<live, notices>>
  BY <1>4 DEF TypeOK
<1>5. CASE /\ x.kind \in {"joined", "left"}
           /\ notices' = [notices EXCEPT ![d] = Append(@, x)]
           /\ UNCHANGED <<live, frame>>
  <2>1. x \in Notices
    BY <1>5, ItemParts
  <2>2. Append(notices[d], x) \in Seq(Notices)
    BY <2>1 DEF TypeOK
  <2>3. notices' \in [Conns -> Seq(Notices)]
    BY <1>5, <2>2 DEF TypeOK
  <2> QED
    BY <1>5, <2>3 DEF TypeOK
<1> QED
  BY <1>1, <1>2, <1>3, <1>4, <1>5 DEF Put

\* or nothing is written.
LEMMA WireTyped ==
  ASSUME TypeOK, UNCHANGED wire, Ids \subseteq Ids'
  PROVE  WireOK'
BY DEF WireOK, wire, TypeOK

\* A job that is given anew is a job.
LEMMA OwesTyped ==
  ASSUME TypeOK, NEW c \in Conns, NEW q \in Seq(Tasks), Owes(c, q)
  PROVE  /\ job' \in [Conns -> Seq(Tasks)] /\ job'[c] = q
         /\ \A d \in Conns \ {c} : job'[d] = job[d]
BY DEF TypeOK, Owes

\* The items of a first task that is a send.
LEMMA FirstSend ==
  ASSUME Owed, NEW c \in Conns, Doing(c, "write")
  PROVE  LET t == Head(job[c]) IN
         /\ t = job[c][1] /\ t \in Tasks /\ t.to \in SUBSET Conns /\ t.item \in Items
         /\ OwedBy(c, t) /\ OwedMessage(c, t) /\ OwedNotice(c, 1, t)
         /\ t.item.kind = "message" => t.item.id \in Ids
         /\ t.item.kind = "history" => t.item.ids \subseteq Ids
<1>1. /\ job[c] # <<>> /\ Head(job[c]) = job[c][1] /\ job[c][1] \in Tasks
      /\ Len(job[c]) \in Nat \ {0} /\ Head(job[c]).do = "write"
  BY FirstTask DEF Owed, Doing
<1>2. OwedBy(c, job[c][1]) /\ OwedMessage(c, job[c][1]) /\ OwedNotice(c, 1, job[c][1])
  BY <1>1 DEF Owed, JobInv, InOrder
<1> QED
  BY <1>1, <1>2, TaskParts DEF OwedBy, OwedMessage

\* The farewell to a user who is logged in.
LEMMA Farewell ==
  ASSUME TypeOK, NEW c \in Conns, user[c] # None, NEW b \in {user[c], None}
  PROVE  /\ Tell(room[c], Left(user[c], room[c]), b) \in Seq(Tasks)
         /\ Len(Tell(room[c], Left(user[c], room[c]), b)) = 1
         /\ Tell(room[c], Left(user[c], room[c]), b)[1] =
              [do |-> "tell", room |-> room[c], item |-> Left(user[c], room[c]), but |-> b]
<1>1. user[c] \in Users /\ room[c] \in Rooms /\ b \in Users \cup {None}
  BY DEF TypeOK
<1>2. Left(user[c], room[c]) \in Items
  BY <1>1, ItemKinds
<1> QED
  BY <1>1, <1>2, TellTask

\* A message becomes one of those said, and the next one is a message.
LEMMA NewestItem ==
  ASSUME TypeOK, Len(said) < MaxSaid
  PROVE  Newest \in Items /\ Len(said) + 1 <= MaxSaid /\ Newest.kind = "message" /\ Newest.id = Len(said) + 1
<1>1. Len(said) + 1 \in 1..MaxSaid
  BY BoundsAssumption DEF TypeOK
<1> QED
  BY <1>1, ItemKinds DEF Newest, Message

\* A private message whose write raises leaves all but the state of its handler.
LEMMA EchoLost ==
  ASSUME TypeOK, NEW c \in Conns, NEW u \in Users, PrivateRaises(c, u)
  PROVE  /\ Idle(c) /\ state[c] = "open" /\ job[c] = <<>> /\ Raise(c, "cut")
         /\ job' = job /\ state' = [state EXCEPT ![c] = "cut"]
         /\ UNCHANGED <<user, room, whole, said, live, frame, notices>>
<1>1. Idle(c) /\ Raise(c, "cut") /\ job[c] = <<>> /\ state[c] = "open"
  BY DEF PrivateRaises, Idle
<1>2. job' = [job EXCEPT ![c] = <<>>] /\ job \in [Conns -> Seq(Tasks)]
  BY <1>1 DEF Raise, Owes, TypeOK
<1>3. state' = [state EXCEPT ![c] = IF @ = "open" THEN "cut" ELSE "crashed"]
  BY <1>1 DEF Raise
<1> QED
  BY <1>1, <1>2, <1>3 DEF Raise, session, wire, TypeOK

\* The types are kept.
LEMMA TypeStep ==
  ASSUME Owed, [Next]_vars
  PROVE  TypeOK'
<1>1. TypeOK
  BY DEF Owed
<1>e. <<>> \in Seq(Tasks)
  OBVIOUS
<1>2. ASSUME NEW c \in Conns, Snapshot(c) PROVE TypeOK'
  <2> DEFINE t == job[c][1]
  <2>1. job[c] # <<>> /\ Head(job[c]) = t /\ t \in Tasks /\ t.do = "tell"
    BY <1>1, <1>2, FirstTask DEF Snapshot, Doing
  <2>2. t.item \in Items
    BY <2>1, TaskParts
  <2>3. Members(t.room, t.but) \in SUBSET Conns
    BY DEF Members
  <2>4. Instead(c, Sends(Members(t.room, t.but), t.item))
    BY <1>2, <2>1 DEF Snapshot
  <2> HIDE DEF t
  <2>5. job' \in [Conns -> Seq(Tasks)]
    BY <1>1, <2>1, <2>2, <2>3, <2>4, Replaced
  <2> QED
    BY <1>1, <1>2, <2>5 DEF Snapshot, TypeOK, session, wire, Ids
<1>r. ASSUME NEW c \in Conns, NEW how \in {"error", "cut"}, Raise(c, how),
             moves' \in 0..MaxAsked
      PROVE  TypeOK'
  <2>1. job' \in [Conns -> Seq(Tasks)]
    BY <1>1, <1>e, <1>r, OwesTyped DEF Raise
  <2> QED
    BY <1>1, <1>r, <2>1 DEF Raise, TypeOK, session, wire, Ids
<1>3. ASSUME NEW c \in Conns, ReadHistory(c) PROVE TypeOK'
  <2> DEFINE t == job[c][1]
             ids == Latest(Rows(t.room), t.limit)
  <2>1. job[c] # <<>> /\ Head(job[c]) = t /\ t \in Tasks /\ t.do = "fetch"
    BY <1>1, <1>3, FirstTask DEF ReadHistory, Doing
  <2>2. ids \subseteq Ids /\ ids \in SUBSET (1..MaxSaid)
    BY <1>1, BoundsAssumption DEF Latest, Rows, Ids, TypeOK
  <2>3. History(ids) \in Items /\ {c} \in SUBSET Conns
    BY <2>2, ItemKinds
  <2>4. \/ Raise(c, "error") /\ UNCHANGED moves
        \/ /\ Instead(c, Sends({c}, History(ids)))
           /\ UNCHANGED <<session, state, whole, said, wire, moves>>
    BY <1>3, <2>1 DEF ReadHistory
  <2>5. CASE Raise(c, "error") /\ UNCHANGED moves
    BY <1>1, <1>r, <2>5 DEF TypeOK
  <2> HIDE DEF t, ids
  <2>6. CASE /\ Instead(c, Sends({c}, History(ids)))
             /\ UNCHANGED <<session, state, whole, said, wire, moves>>
    <3>1. job' \in [Conns -> Seq(Tasks)]
      BY <1>1, <2>1, <2>3, <2>6, Replaced
    <3> QED
      BY <1>1, <2>6, <3>1 DEF TypeOK, session, wire, Ids
  <2> QED
    BY <2>4, <2>5, <2>6
<1>4. ASSUME NEW c \in Conns, NEW d \in Conns, SendOne(c, d) PROVE TypeOK'
  <2> DEFINE t == Head(job[c])
  <2>1. /\ job[c] # <<>> /\ t.to \ {d} \in SUBSET Conns /\ t.item \in Items
        /\ t.item.kind = "message" => t.item.id \in Ids
        /\ t.item.kind = "history" => t.item.ids \subseteq Ids
    BY <1>4, FirstSend DEF SendOne, Doing
  <2>2. /\ Put(d, t.item) /\ Instead(c, Sends(t.to \ {d}, t.item))
        /\ UNCHANGED <<session, state, whole, said, moves>>
    BY <1>4 DEF SendOne
  <2> HIDE DEF t
  <2>3. job' \in [Conns -> Seq(Tasks)]
    BY <1>1, <2>1, <2>2, Replaced
  <2>4. Ids' = Ids
    BY <2>2 DEF Ids
  <2>5. WireOK'
    BY <1>1, <2>1, <2>2, <2>4, PutTyped
  <2> QED
    BY <1>1, <2>2, <2>3, <2>5 DEF TypeOK, WireOK, session, Ids
<1>5. ASSUME NEW c \in Conns, NEW d \in Conns, SendRaises(c, d) PROVE TypeOK'
  BY <1>1, <1>r, <1>5 DEF SendRaises, TypeOK
<1>6. ASSUME NEW c \in Conns, Cleanup(c) PROVE TypeOK'
  <2>1. user[c] # None => Tell(room[c], Left(user[c], room[c]), user[c]) \in Seq(Tasks)
    BY <1>1, Farewell
  <2>2. job' \in [Conns -> Seq(Tasks)]
    <3>1. CASE user[c] = None
      BY <1>1, <1>6, <1>e, <3>1, OwesTyped DEF Cleanup
    <3>2. CASE user[c] # None
      BY <1>1, <1>6, <2>1, <3>2, OwesTyped DEF Cleanup
    <3> QED
      BY <3>1, <3>2
  <2> QED
    BY <1>1, <1>6, <2>2 DEF Cleanup, TypeOK, wire, Ids
<1>m. Moves => moves' \in 0..MaxAsked
  BY <1>1, BoundsAssumption DEF Moves, More, TypeOK
<1>7. ASSUME NEW c \in Conns, Logout(c) PROVE TypeOK'
  <2>1. Tell(room[c], Left(user[c], room[c]), None) \in Seq(Tasks)
    BY <1>1, <1>7, Farewell DEF Logout
  <2>2. job' \in [Conns -> Seq(Tasks)]
    BY <1>1, <1>7, <2>1, OwesTyped DEF Logout
  <2> QED
    BY <1>1, <1>7, <1>m, <2>2, GeneralAssumption DEF Logout, TypeOK, wire, Ids
<1>8. ASSUME NEW c \in Conns, Public(c) PROVE TypeOK'
  <2> DEFINE m == [from |-> user[c], to |-> room[c], on |-> c]
  <2>1. m \in [from : Users, to : Rooms \cup Users, on : Conns]
    BY <1>1, <1>8 DEF Public, Says, TypeOK
  <2>2. said' = Append(said, m) /\ Len(said) < MaxSaid
    BY <1>8 DEF Public, Says
  <2> HIDE DEF m
  <2>3. /\ said' \in Seq([from : Users, to : Rooms \cup Users, on : Conns])
        /\ Len(said') = Len(said) + 1 /\ Ids \subseteq Ids'
    BY <1>1, <2>1, <2>2, SaidGrows
  <2>4. Newest \in Items /\ Len(said) + 1 <= MaxSaid
    BY <1>1, <2>2, NewestItem
  <2>5. Tell(room[c], Newest, None) \in Seq(Tasks)
    BY <1>1, <2>4, TellTask DEF TypeOK
  <2>6. job' \in [Conns -> Seq(Tasks)]
    BY <1>1, <1>8, <2>5, OwesTyped DEF Public
  <2>7. WireOK'
    BY <1>1, <1>8, <2>3, WireTyped DEF Public
  <2> QED
    BY <1>1, <1>8, <2>3, <2>4, <2>6, <2>7 DEF Public, TypeOK, WireOK, session
<1>9. ASSUME NEW c \in Conns, Break(c) PROVE TypeOK'
  BY <1>1, <1>9 DEF Break, TypeOK, session, wire, Ids
<1>10. ASSUME NEW c \in Conns, NEW u \in Users, Login(c, u) PROVE TypeOK'
  <2>1. Arrival(u, General) \in Seq(Tasks)
    BY ArrivalTasks, GeneralAssumption
  <2>2. job' \in [Conns -> Seq(Tasks)]
    BY <1>1, <1>10, <2>1, OwesTyped DEF Login
  <2>3. You(General) \in Items /\ You(General).kind = "you"
    BY ItemKinds, GeneralAssumption DEF You
  <2>4. Ids' = Ids /\ Put(c, You(General))
    BY <1>10 DEF Login, Ids
  <2>5. WireOK'
    BY <1>1, <2>3, <2>4, PutTyped
  <2> QED
    BY <1>1, <1>10, <1>m, <2>2, <2>5, GeneralAssumption DEF Login, TypeOK, WireOK, Ids
<1>11. ASSUME NEW c \in Conns, NEW u \in Users, Private(c, u) PROVE TypeOK'
  <2> DEFINE m == [from |-> user[c], to |-> u, on |-> c]
  <2>1. m \in [from : Users, to : Rooms \cup Users, on : Conns]
    BY <1>1, <1>11 DEF Private, Says, TypeOK
  <2>2. said' = Append(said, m) /\ Len(said) < MaxSaid
    BY <1>11 DEF Private, Says
  <2> HIDE DEF m
  <2>3. /\ said' \in Seq([from : Users, to : Rooms \cup Users, on : Conns])
        /\ Len(said') = Len(said) + 1 /\ Ids' = Ids \cup {Len(said) + 1}
    BY <1>1, <2>1, <2>2, SaidGrows
  <2>4. /\ Newest \in Items /\ Len(said) + 1 <= MaxSaid
        /\ Newest.kind = "message" /\ Newest.id = Len(said) + 1
    BY <1>1, <2>2, NewestItem
  <2>5. Sends({c}, Newest) \in Seq(Tasks)
    BY <2>4, SendTask
  <2>6. job' \in [Conns -> Seq(Tasks)]
    BY <1>1, <1>11, <2>5, OwesTyped DEF Private
  <2>7. PICK d \in Conns : Put(d, Newest)
    BY <1>11 DEF Private
  <2>8. WireOK'
    BY <1>1, <2>3, <2>4, <2>7, PutTyped
  <2> QED
    BY <1>1, <1>11, <2>3, <2>4, <2>6, <2>8 DEF Private, TypeOK, WireOK, session
<1>12. ASSUME NEW c \in Conns, NEW r \in Rooms, Join(c, r) PROVE TypeOK'
  <2>1. user[c] \in Users /\ room[c] \in Rooms
    BY <1>1, <1>12 DEF Join, TypeOK
  <2>2. MoveJob(c, user[c], room[c], r) \in Seq(Tasks)
    BY <2>1, MoveTasks
  <2>3. Owes(c, MoveJob(c, user[c], room[c], r))
    BY <1>12 DEF Join, MoveJob
  <2>4. job' \in [Conns -> Seq(Tasks)]
    BY <1>1, <2>2, <2>3, OwesTyped
  <2> QED
    BY <1>1, <1>12, <1>m, <2>4 DEF Join, TypeOK, wire, Ids
<1>13. ASSUME NEW c \in Conns, NEW n \in {0, HistoryMax + 1}, CmdHistory(c, n) PROVE TypeOK'
  <2> DEFINE k == IF n < 1 THEN 1 ELSE IF n > HistoryMax THEN HistoryMax ELSE n
  <2>1. k \in Nat
    BY LimitsAssumption
  <2>2. Owes(c, Fetch(room[c], k))
    BY <1>13 DEF CmdHistory
  <2> HIDE DEF k
  <2>3. Fetch(room[c], k) \in Seq(Tasks)
    BY <1>1, <2>1, FetchTask DEF TypeOK
  <2>4. job' \in [Conns -> Seq(Tasks)]
    BY <1>1, <2>2, <2>3, OwesTyped
  <2> QED
    BY <1>1, <1>13, <1>m, <2>4 DEF CmdHistory, TypeOK, session, wire, Ids
<1>14. CASE UNCHANGED vars
  BY <1>1, <1>14 DEF vars, session, wire, TypeOK, Ids
<1>15. ASSUME NEW c \in Conns, NEW u \in Users, PrivateRaises(c, u) PROVE TypeOK'
  BY <1>m, <1>r, <1>15 DEF PrivateRaises
<1> QED
  BY <1>2, <1>3, <1>4, <1>5, <1>6, <1>7, <1>8, <1>9, <1>10, <1>11, <1>12, <1>13, <1>14, <1>15
    DEF Next, Step, Ask, Rest

-----------------------------------------------------------------------------
(* Who is logged in.                                                        *)

\* A handler that raised has nothing left to do but the cleanup.
LEMMA AtWork ==
  ASSUME Owed, NEW c \in Conns, job[c] # <<>>
  PROVE  state[c] \in {"open", "closed", "crashed"}
BY DEF Owed, UserInv, TypeOK

\* Only a login and an end change who is logged in where.
LEMMA UserStep ==
  ASSUME Owed, [Next]_vars
  PROVE  UserInv'
<1>1. TypeOK /\ UserInv
  BY DEF Owed
<1>2. ASSUME NEW c \in Conns, NEW q, job[c] # <<>>, Instead(c, q), UNCHANGED <<user, state>>
      PROVE  UserInv'
  BY <1>1, <1>2, AtWork DEF UserInv, TypeOK, Instead, Owes, Open
<1>3. ASSUME NEW c \in Conns, NEW q, Idle(c), Owes(c, q), UNCHANGED <<user, state>>
      PROVE  UserInv'
  BY <1>1, <1>3 DEF UserInv, TypeOK, Owes, Open, Idle
<1>4. ASSUME NEW c \in Conns, NEW how \in {"error", "cut"}, job[c] # <<>>, Raise(c, how)
      PROVE  UserInv'
  <2>1. /\ state[c] \in {"open", "closed", "crashed"}
        /\ state' = [state EXCEPT ![c] = IF @ = "open" THEN how ELSE "crashed"]
        /\ job' = [job EXCEPT ![c] = <<>>] /\ user' = user
    BY <1>4, AtWork DEF Raise, Owes, session
  <2>2. user[c] # None => state'[c] \in {"error", "cut"}
    BY <1>1, <2>1 DEF UserInv, Open, TypeOK
  <2> QED
    BY <1>1, <2>1, <2>2 DEF UserInv, Open, TypeOK
<1>5. ASSUME NEW c \in Conns, Snapshot(c) PROVE UserInv'
  BY <1>2, <1>5 DEF Snapshot, Doing, session
<1>6. ASSUME NEW c \in Conns, ReadHistory(c) PROVE UserInv'
  BY <1>2, <1>4, <1>6 DEF ReadHistory, Doing, session
<1>7. ASSUME NEW c \in Conns, NEW d \in Conns, SendOne(c, d) PROVE UserInv'
  BY <1>2, <1>7 DEF SendOne, Doing, session
<1>8. ASSUME NEW c \in Conns, NEW d \in Conns, SendRaises(c, d) PROVE UserInv'
  BY <1>4, <1>8 DEF SendRaises, Doing
<1>9. ASSUME NEW c \in Conns, Cleanup(c) PROVE UserInv'
  <2>1. /\ user' = [user EXCEPT ![c] = None]
        /\ state' = [state EXCEPT ![c] = IF @ = "cut" THEN "crashed" ELSE "closed"]
        /\ \A d \in Conns \ {c} : job'[d] = job[d]
    BY <1>1, <1>9 DEF Cleanup, Owes, TypeOK
  <2> QED
    BY <1>1, <2>1 DEF UserInv, TypeOK, Open
<1>10. ASSUME NEW c \in Conns, Logout(c) PROVE UserInv'
  BY <1>1, <1>10 DEF Logout, Owes, UserInv, TypeOK, Open, Idle
<1>11. ASSUME NEW c \in Conns, Public(c) PROVE UserInv'
  BY <1>3, <1>11 DEF Public, Says, session
<1>12. ASSUME NEW c \in Conns, Break(c) PROVE UserInv'
  BY <1>1, <1>12 DEF Break, UserInv, session, Open
<1>13. ASSUME NEW c \in Conns, NEW u \in Users, Login(c, u) PROVE UserInv'
  <2>1. /\ user' = [user EXCEPT ![c] = u] /\ state' = state /\ state[c] = "open"
        /\ \A d \in Conns \ {c} : job'[d] = job[d]
        /\ \A d \in Conns : user[d] # u
    BY <1>1, <1>13 DEF Login, Idle, Owes, TypeOK
  <2> QED
    BY <1>1, <2>1 DEF UserInv, TypeOK, Open
<1>14. ASSUME NEW c \in Conns, NEW u \in Users, Private(c, u) PROVE UserInv'
  BY <1>3, <1>14 DEF Private, Says, session
<1>15. ASSUME NEW c \in Conns, NEW r \in Rooms, Join(c, r) PROVE UserInv'
  BY <1>3, <1>15 DEF Join
<1>16. ASSUME NEW c \in Conns, NEW n \in {0, HistoryMax + 1}, CmdHistory(c, n) PROVE UserInv'
  BY <1>3, <1>16 DEF CmdHistory, session
<1>17. CASE UNCHANGED vars
  BY <1>1, <1>17 DEF vars, session, UserInv, Open
<1>18. ASSUME NEW c \in Conns, NEW u \in Users, PrivateRaises(c, u) PROVE UserInv'
  <2>1. /\ job[c] = <<>> /\ job' = job /\ user' = user /\ state[c] = "open"
        /\ state' = [state EXCEPT ![c] = "cut"]
    BY <1>1, <1>18, EchoLost
  <2> QED
    BY <1>1, <2>1 DEF UserInv, Open, TypeOK
<1> QED
  BY <1>5, <1>6, <1>7, <1>8, <1>9, <1>10, <1>11, <1>12, <1>13, <1>14, <1>15, <1>16, <1>17, <1>18
    DEF Next, Step, Ask, Rest

-----------------------------------------------------------------------------
(* What the handlers owe.                                                   *)

\* What has been said so far stands, and what user u has said is the same.
Silent(u) ==
  /\ Ids \subseteq Ids' /\ \A i \in Ids : said'[i] = said[i]
  /\ \A i \in Ids' \ Ids : said'[i].from # u

\* A job is in order as long as its owner's session and messages stay.
LEMMA OrderKept ==
  ASSUME Owed, NEW c \in Conns, job'[c] = job[c],
         job[c] # <<>> => user'[c] = user[c] /\ room'[c] = room[c] /\ Silent(user[c])
  PROVE  InOrder(c)'
<1>1. InOrder(c) /\ job[c] \in Seq(Tasks)
  BY DEF Owed, JobInv, TypeOK
<1>2. CASE job[c] = <<>>
  BY <1>2 DEF InOrder
<1>3. CASE job[c] # <<>>
  <2>1. ASSUME NEW k \in 1..Len(job'[c]) PROVE OwedBy(c, job[c][k])'
    BY <1>1, <1>3, <2>1 DEF InOrder, OwedBy, Silent
  <2>2. ASSUME NEW k \in 1..Len(job'[c]) PROVE OwedMessage(c, job[c][k])'
    <3>1. OwedMessage(c, job[c][k])
      BY <1>1, <2>2 DEF InOrder
    <3> QED
      BY <1>3, <3>1 DEF OwedMessage, Silent
  <2>3. ASSUME NEW k \in 1..Len(job'[c]) PROVE OwedNotice(c, k, job[c][k])'
    <3>1. OwedNotice(c, k, job[c][k])
      BY <1>1, <2>3 DEF InOrder
    <3> QED
      BY <1>3, <3>1 DEF OwedNotice, Telling
  <2> QED
    BY <2>1, <2>2, <2>3 DEF InOrder
<1> QED
  BY <1>2, <1>3

\* So is one that goes on with sends that are owed,
LEMMA OrderReplaced ==
  ASSUME Owed, NEW c \in Conns, job[c] # <<>>, NEW D \in SUBSET Conns, NEW x \in Items,
         Instead(c, Sends(D, x)), UNCHANGED <<user, room, said>>,
         D # {} => LET w == [do |-> "write", to |-> D, item |-> x]
                   IN  OwedBy(c, w) /\ OwedMessage(c, w) /\ OwedNotice(c, 1, w)
  PROVE  InOrder(c)'
<1>1. InOrder(c) /\ TypeOK /\ Len(job[c]) \in Nat \ {0}
  BY FirstTask DEF Owed, JobInv
<1>2. CASE D = {}
  <2>1. /\ Len(job'[c]) = Len(job[c]) - 1
        /\ \A k \in 1..(Len(job[c]) - 1) : job'[c][k] = job[c][k + 1]
    BY <1>1, <1>2, Replaced
  <2>2. ASSUME NEW k \in 1..Len(job'[c]) 
        PROVE  OwedBy(c, job[c][k])' /\ OwedMessage(c, job[c][k])' /\ OwedNotice(c, k, job[c][k])'
    <3>0. k \in 1..(Len(job[c]) - 1)
      BY <2>1, <2>2
    <3>1. job'[c][k] = job[c][k + 1] /\ k + 1 \in 1..Len(job[c]) /\ Len(job[c]) # 1
      BY <1>1, <2>1, <3>0
    <3>2. OwedBy(c, job[c][k + 1]) /\ OwedMessage(c, job[c][k + 1]) /\ OwedNotice(c, k + 1, job[c][k + 1])
      BY <1>1, <3>1 DEF InOrder
    <3>3. OwedBy(c, job[c][k])' /\ OwedMessage(c, job[c][k])'
      BY <3>1, <3>2 DEF OwedBy, OwedMessage, Ids
    <3>4. k + 1 # 1
      BY <3>0
    <3>5. OwedNotice(c, k, job[c][k])'
      BY <3>1, <3>2, <3>4 DEF OwedNotice, Telling
    <3> QED
      BY <3>3, <3>5
  <2> QED
    BY <2>2 DEF InOrder
<1>3. CASE D # {}
  <2> DEFINE w == [do |-> "write", to |-> D, item |-> x]
  <2>1. /\ Len(job'[c]) = Len(job[c]) /\ job'[c][1] = w
        /\ \A k \in 2..Len(job[c]) : job'[c][k] = job[c][k]
    BY <1>1, <1>3, Replaced
  <2>2. OwedBy(c, w) /\ OwedMessage(c, w) /\ OwedNotice(c, 1, w)
    BY <1>3
  <2> HIDE DEF w
  <2>3. ASSUME NEW k \in 1..Len(job'[c]) 
        PROVE  OwedBy(c, job[c][k])' /\ OwedMessage(c, job[c][k])' /\ OwedNotice(c, k, job[c][k])'
    <3>1. CASE k = 1
      <4>1. OwedBy(c, job[c][k])' /\ OwedMessage(c, job[c][k])'
        BY <2>1, <2>2, <3>1 DEF OwedBy, OwedMessage, Ids
      <4>2. OwedNotice(c, k, job[c][k])'
        BY <2>1, <2>2, <3>1 DEF OwedNotice, Telling
      <4> QED
        BY <4>1, <4>2
    <3>2. CASE k # 1
      <4>1. job'[c][k] = job[c][k] /\ k \in 1..Len(job[c])
        BY <1>1, <2>1, <2>3, <3>2
      <4>2. OwedBy(c, job[c][k]) /\ OwedMessage(c, job[c][k]) /\ OwedNotice(c, k, job[c][k])
        BY <1>1, <4>1 DEF InOrder
      <4>3. OwedBy(c, job[c][k])' /\ OwedMessage(c, job[c][k])'
        BY <2>1, <4>1, <4>2 DEF OwedBy, OwedMessage, Ids
      <4>4. OwedNotice(c, k, job[c][k])'
        BY <4>1, <4>2 DEF OwedNotice, Telling
      <4> QED
        BY <4>3, <4>4
    <3> QED
      BY <3>1, <3>2
  <2> QED
    BY <2>3 DEF InOrder
<1> QED
  BY <1>2, <1>3

\* and one whose tasks are neither messages nor history to others.
LEMMA OrderNew ==
  ASSUME NEW c \in Conns,
         \A k \in 1..Len(job'[c]) :
           LET t == job'[c][k] IN
           \/ t.do = "fetch" /\ user'[c] # None /\ t.room = room'[c]
           \/ t = Telling(c)' /\ user'[c] # None
           \/ /\ k = 1 /\ t.do = "tell" /\ t.item.kind = "left"
              /\ t.room = t.item.room /\ t.but \in {t.item.who, None}
           \/ t.do = "write" /\ user'[c] # None /\ t.to = {c} /\ t.item.kind = "you"
  PROVE  InOrder(c)'
<1> SUFFICES ASSUME NEW k \in 1..Len(job'[c])
             PROVE  OwedBy(c, job[c][k])' /\ OwedMessage(c, job[c][k])' /\ OwedNotice(c, k, job[c][k])'
  BY DEF InOrder
<1> DEFINE t == job[c][k]
<1>1. CASE t'.do = "fetch" /\ user'[c] # None /\ t'.room = room'[c]
  BY <1>1 DEF OwedBy, OwedMessage, OwedNotice
<1>2. CASE t' = Telling(c)' /\ user'[c] # None
  <2>1. t'.do = "tell" /\ t'.item = Joined(user'[c], room'[c]) /\ t'.item.kind = "joined"
    BY <1>2 DEF Telling, Joined
  <2> QED
    BY <1>2, <2>1 DEF OwedBy, OwedMessage, OwedNotice, IsNews, Joined
<1>3. CASE /\ k = 1 /\ t'.do = "tell" /\ t'.item.kind = "left"
           /\ t'.room = t'.item.room /\ t'.but \in {t'.item.who, None}
  BY <1>3 DEF OwedBy, OwedMessage, OwedNotice, IsNews
<1>4. CASE t'.do = "write" /\ user'[c] # None /\ t'.to = {c} /\ t'.item.kind = "you"
  BY <1>4 DEF OwedBy, OwedMessage, OwedNotice, IsNews
<1> QED
  BY <1>1, <1>2, <1>3, <1>4

\* A step of one handler leaves the jobs of the others as they are.
LEMMA OthersKept ==
  ASSUME Owed, NEW c \in Conns, InOrder(c)',
         \A d \in Conns \ {c} :
           /\ job'[d] = job[d] /\ user'[d] = user[d] /\ room'[d] = room[d]
           /\ user[d] # None => Silent(user[d])
           /\ Ids \subseteq Ids' /\ \A i \in Ids : said'[i] = said[i]
  PROVE  JobInv'
<1>1. ASSUME NEW d \in Conns \ {c} PROVE InOrder(d)'
  <2>1. CASE user[d] # None
    BY <1>1, <2>1, OrderKept
  <2>2. CASE user[d] = None
    <3>1. InOrder(d)
      BY DEF Owed, JobInv
    <3>2. ASSUME NEW k \in 1..Len(job'[d])
          PROVE  OwedBy(d, job[d][k])' /\ OwedMessage(d, job[d][k])' /\ OwedNotice(d, k, job[d][k])'
      <4>1. OwedBy(d, job[d][k])' /\ OwedMessage(d, job[d][k])'
        <5>1. OwedBy(d, job[d][k]) /\ OwedMessage(d, job[d][k])
          BY <1>1, <3>1, <3>2 DEF InOrder
        <5> QED
          BY <1>1, <2>2, <5>1 DEF OwedBy, OwedMessage
      <4>2. OwedNotice(d, k, job[d][k])'
        BY <1>1, <3>1, <3>2 DEF InOrder, OwedNotice, Telling
      <4> QED
        BY <4>1, <4>2
    <3> QED
      BY <3>2 DEF InOrder
  <2> QED
    BY <2>1, <2>2
<1> QED
  BY <1>1 DEF JobInv

\* A new message is the last of the one who says it, and of nobody else.
LEMMA Said ==
  ASSUME Owed, NEW c \in Conns, NEW to \in Rooms \cup Users, Says(c, to)
  PROVE  /\ user[c] \in Users /\ job[c] = <<>> /\ state[c] = "open"
         /\ Len(said) \in Nat /\ Len(said) + 1 <= MaxSaid
         /\ Ids' = Ids \cup {Len(said) + 1} /\ Len(said) + 1 \notin Ids
         /\ said'[Len(said) + 1] = [from |-> user[c], to |-> to, on |-> c]
         /\ \A i \in Ids : said'[i] = said[i]
         /\ \A d \in Conns \ {c} : user[d] # None => Silent(user[d])
<1> DEFINE m == [from |-> user[c], to |-> to, on |-> c]
<1>1. /\ user[c] \in Users /\ m \in [from : Users, to : Rooms \cup Users, on : Conns]
      /\ Len(said) < MaxSaid /\ said' = Append(said, m) /\ job[c] = <<>> /\ state[c] = "open"
  BY DEF Owed, TypeOK, Says, Idle
<1>2. /\ Len(said) \in Nat /\ said'[Len(said) + 1] = m
      /\ \A i \in Ids : said'[i] = said[i]
      /\ Ids' = Ids \cup {Len(said) + 1} /\ Len(said) + 1 \notin Ids
  <2> HIDE DEF m
  <2> QED
    BY <1>1, SaidGrows DEF Owed
<1>3. Len(said) + 1 <= MaxSaid
  BY <1>1, NewestItem DEF Owed
<1>4. ASSUME NEW d \in Conns \ {c}, user[d] # None PROVE Silent(user[d])
  <2>1. user[d] # user[c]
    BY <1>4 DEF Owed, UserInv
  <2> QED
    BY <1>2, <2>1 DEF Silent
<1> QED
  BY <1>1, <1>2, <1>3, <1>4

\* The first of these tasks is a broadcast or an echo of the new message.
LEMMA OrderSaid ==
  ASSUME Owed, NEW c \in Conns, NEW to \in Rooms \cup Users, Says(c, to), user' = user,
         Len(job'[c]) = 1,
         job'[c][1] \in {[do |-> "tell", room |-> to, item |-> Newest, but |-> None],
                         [do |-> "write", to |-> {c}, item |-> Newest]}
  PROVE  InOrder(c)'
<1>1. /\ user'[c] = user[c] /\ user[c] \in Users /\ Len(said) \in Nat
      /\ Ids' = Ids \cup {Len(said) + 1}
      /\ said'[Len(said) + 1] = [from |-> user[c], to |-> to, on |-> c]
  BY Said
<1>2. user[c] # None
  BY <1>1, NoneAssumption
<1>3. /\ job'[c][1].item.kind = "message" /\ job'[c][1].item.id = Len(said) + 1
      /\ job'[c][1].do \in {"tell", "write"}
      /\ job'[c][1].do = "tell" => job'[c][1].room = to /\ job'[c][1].but = None
  BY DEF Newest, Message
<1>4. OwedBy(c, job[c][1])'
  BY <1>3 DEF OwedBy, IsNews
<1>5. ASSUME NEW j \in Ids' PROVE ~(j > Len(said) + 1)
  BY <1>1, <1>5 DEF Ids
<1>6. OwedMessage(c, job[c][1])'
  BY <1>1, <1>2, <1>3, <1>5 DEF OwedMessage
<1>7. OwedNotice(c, 1, job[c][1])'
  BY <1>3 DEF OwedNotice
<1> QED
  BY <1>4, <1>6, <1>7 DEF InOrder

\* What the handlers owe is in order.
LEMMA JobStep ==
  ASSUME Owed, [Next]_vars
  PROVE  JobInv'
<1>1. TypeOK /\ UserInv /\ JobInv
  BY DEF Owed
<1>k. ASSUME NEW c \in Conns, UNCHANGED <<user, room, said>>, InOrder(c)',
             \A d \in Conns \ {c} : job'[d] = job[d]
      PROVE  JobInv'
  BY <1>k, OthersKept DEF Silent, Ids
<1>m. ASSUME NEW c \in Conns, UNCHANGED said, InOrder(c)',
             \A d \in Conns \ {c} : job'[d] = job[d] /\ user'[d] = user[d] /\ room'[d] = room[d]
      PROVE  JobInv'
  BY <1>m, OthersKept DEF Silent, Ids
<1>2. ASSUME NEW c \in Conns, Snapshot(c) PROVE JobInv'
  <2> DEFINE t == job[c][1]
             D == Members(t.room, t.but)
  <2>1. job[c] # <<>> /\ Head(job[c]) = t /\ t \in Tasks /\ t.do = "tell" /\ Len(job[c]) \in Nat \ {0}
    BY <1>1, <1>2, FirstTask DEF Snapshot, Doing
  <2>2. t.item \in Items /\ OwedBy(c, t) /\ OwedMessage(c, t) /\ OwedNotice(c, 1, t)
    BY <1>1, <2>1, TaskParts DEF JobInv, InOrder
  <2>3. D \in SUBSET Conns
    BY DEF Members
  <2>4. Instead(c, Sends(D, t.item)) /\ UNCHANGED <<user, room, said>>
    BY <1>2, <2>1 DEF Snapshot, session
  <2> HIDE DEF t, D
  <2>5. LET w == [do |-> "write", to |-> D, item |-> t.item]
        IN  OwedBy(c, w) /\ OwedMessage(c, w) /\ OwedNotice(c, 1, w)
    BY <2>1, <2>2 DEF OwedBy, OwedMessage, OwedNotice
  <2>6. InOrder(c)'
    BY <2>1, <2>2, <2>3, <2>4, <2>5, OrderReplaced
  <2>7. \A d \in Conns \ {c} : job'[d] = job[d]
    BY <1>1, <2>1, <2>2, <2>3, <2>4, Replaced
  <2> QED
    BY <1>k, <2>4, <2>6, <2>7
<1>3. ASSUME NEW c \in Conns, NEW how, Raise(c, how) PROVE JobInv'
  <2>1. /\ job'[c] = <<>> /\ \A d \in Conns \ {c} : job'[d] = job[d]
        /\ UNCHANGED <<user, room, said>>
    BY <1>1, <1>3 DEF Raise, Owes, TypeOK, session
  <2>2. InOrder(c)'
    BY <2>1 DEF InOrder
  <2> QED
    BY <1>k, <2>1, <2>2
<1>4. ASSUME NEW c \in Conns, ReadHistory(c) PROVE JobInv'
  <2> DEFINE t == job[c][1]
             ids == Latest(Rows(t.room), t.limit)
  <2>1. job[c] # <<>> /\ Head(job[c]) = t /\ t \in Tasks /\ t.do = "fetch" /\ Len(job[c]) \in Nat \ {0}
    BY <1>1, <1>4, FirstTask DEF ReadHistory, Doing
  <2>2. ids \subseteq Ids /\ ids \in SUBSET (1..MaxSaid)
    BY <1>1, BoundsAssumption DEF Latest, Rows, Ids, TypeOK
  <2>3. History(ids) \in Items /\ {c} \in SUBSET Conns
    BY <2>2, ItemKinds
  <2>4. \/ Raise(c, "error")
        \/ Instead(c, Sends({c}, History(ids))) /\ UNCHANGED <<user, room, said>>
    BY <1>4, <2>1 DEF ReadHistory, session
  <2>5. CASE Raise(c, "error")
    BY <1>3, <2>5
  <2>6. OwedBy(c, t)
    BY <1>1, <2>1 DEF JobInv, InOrder
  <2> HIDE DEF t, ids
  <2>7. CASE Instead(c, Sends({c}, History(ids))) /\ UNCHANGED <<user, room, said>>
    <3>1. LET w == [do |-> "write", to |-> {c}, item |-> History(ids)]
          IN  OwedBy(c, w) /\ OwedMessage(c, w) /\ OwedNotice(c, 1, w)
      BY <2>1, <2>2, <2>6 DEF OwedBy, OwedMessage, OwedNotice, History
    <3>2. InOrder(c)'
      BY <2>1, <2>3, <2>7, <3>1, OrderReplaced
    <3>3. \A d \in Conns \ {c} : job'[d] = job[d]
      BY <1>1, <2>1, <2>3, <2>7, Replaced
    <3> QED
      BY <1>k, <2>7, <3>2, <3>3
  <2> QED
    BY <2>4, <2>5, <2>7
<1>5. ASSUME NEW c \in Conns, NEW d \in Conns, SendOne(c, d) PROVE JobInv'
  <2> DEFINE t == Head(job[c])
             D == t.to \ {d}
  <2>1. /\ job[c] # <<>> /\ D \in SUBSET Conns /\ t.item \in Items /\ t.do = "write"
        /\ OwedBy(c, t) /\ OwedMessage(c, t) /\ OwedNotice(c, 1, t)
    BY <1>5, FirstSend DEF SendOne, Doing
  <2>2. /\ d \in t.to /\ Instead(c, Sends(D, t.item)) /\ UNCHANGED <<user, room, said>>
    BY <1>5 DEF SendOne, session
  <2>3. t.to = {c} => D = {}
    BY <2>2
  <2> HIDE DEF t, D
  <2>4. D # {} => LET w == [do |-> "write", to |-> D, item |-> t.item]
                  IN  OwedBy(c, w) /\ OwedMessage(c, w) /\ OwedNotice(c, 1, w)
    BY <2>1, <2>3 DEF OwedBy, OwedMessage, OwedNotice
  <2>5. InOrder(c)'
    BY <2>1, <2>2, <2>4, OrderReplaced
  <2>6. \A e \in Conns \ {c} : job'[e] = job[e]
    BY <1>1, <2>1, <2>2, Replaced
  <2> QED
    BY <1>k, <2>2, <2>5, <2>6
<1>6. ASSUME NEW c \in Conns, NEW d \in Conns, SendRaises(c, d) PROVE JobInv'
  BY <1>3, <1>6 DEF SendRaises
<1>7. ASSUME NEW c \in Conns, NEW b \in {user[c], None}, user[c] # None,
             Owes(c, Tell(room[c], Left(user[c], room[c]), b))
      PROVE  InOrder(c)' /\ \A d \in Conns \ {c} : job'[d] = job[d]
  <2> DEFINE q == Tell(room[c], Left(user[c], room[c]), b)
  <2>1. /\ q \in Seq(Tasks) /\ Len(q) = 1
        /\ q[1] = [do |-> "tell", room |-> room[c], item |-> Left(user[c], room[c]), but |-> b]
    BY <1>1, <1>7, Farewell
  <2>2. /\ q[1].do = "tell" /\ q[1].item.kind = "left"
        /\ q[1].room = q[1].item.room /\ q[1].but \in {q[1].item.who, None}
    BY <1>7, <2>1 DEF Left
  <2>3. Owes(c, q)
    BY <1>7
  <2> HIDE DEF q
  <2>4. job'[c] = q /\ \A d \in Conns \ {c} : job'[d] = job[d]
    BY <1>1, <2>1, <2>3, OwesTyped
  <2>5. \A k \in 1..Len(job'[c]) : k = 1
    <3>1. Len(job'[c]) = 1
      BY <2>1, <2>4
    <3> QED
      BY <3>1
  <2> QED
    BY <2>1, <2>2, <2>4, <2>5, OrderNew
<1>8. ASSUME NEW c \in Conns, Cleanup(c) PROVE JobInv'
  <2>1. \A d \in Conns \ {c} : user'[d] = user[d] /\ room'[d] = room[d]
    BY <1>1, <1>8 DEF Cleanup, TypeOK
  <2>2. InOrder(c)' /\ \A d \in Conns \ {c} : job'[d] = job[d]
    <3>1. CASE user[c] = None
      BY <1>1, <1>8, <3>1 DEF Cleanup, Owes, TypeOK, InOrder
    <3>2. CASE user[c] # None
      BY <1>7, <1>8, <3>2 DEF Cleanup
    <3> QED
      BY <3>1, <3>2
  <2> QED
    BY <1>8, <1>m, <2>1, <2>2 DEF Cleanup
<1>9. ASSUME NEW c \in Conns, Logout(c) PROVE JobInv'
  <2>1. \A d \in Conns \ {c} : user'[d] = user[d] /\ room'[d] = room[d]
    BY <1>1, <1>9 DEF Logout, TypeOK
  <2>2. InOrder(c)' /\ \A d \in Conns \ {c} : job'[d] = job[d]
    BY <1>7, <1>9 DEF Logout
  <2> QED
    BY <1>9, <1>m, <2>1, <2>2 DEF Logout
<1>s. ASSUME NEW c \in Conns, NEW to \in Rooms \cup Users, Says(c, to), UNCHANGED session,
             NEW q \in Seq(Tasks), Owes(c, q), Len(q) = 1,
             q[1] \in {[do |-> "tell", room |-> to, item |-> Newest, but |-> None],
                       [do |-> "write", to |-> {c}, item |-> Newest]}
      PROVE  JobInv'
  <2>1. job'[c] = q /\ \A d \in Conns \ {c} : job'[d] = job[d]
    BY <1>1, <1>s, OwesTyped
  <2>2. user' = user /\ room' = room
    BY <1>s DEF session
  <2>3. InOrder(c)'
    BY <1>s, <2>1, <2>2, OrderSaid
  <2>4. /\ \A d \in Conns \ {c} : user[d] # None => Silent(user[d])
        /\ Ids \subseteq Ids' /\ \A i \in Ids : said'[i] = said[i]
    BY <1>s, Said
  <2> QED
    BY <2>1, <2>2, <2>3, <2>4, OthersKept
<1>10. ASSUME NEW c \in Conns, Public(c) PROVE JobInv'
  <2> DEFINE q == Tell(room[c], Newest, None)
  <2>1. Newest \in Items /\ room[c] \in Rooms \cup Users
    BY <1>1, <1>10, NewestItem DEF Public, Says, TypeOK
  <2>2. /\ q \in Seq(Tasks) /\ Len(q) = 1
        /\ q[1] = [do |-> "tell", room |-> room[c], item |-> Newest, but |-> None]
    BY <1>1, <2>1, TellTask DEF TypeOK
  <2>3. Says(c, room[c]) /\ UNCHANGED session /\ Owes(c, q)
    BY <1>10 DEF Public
  <2> HIDE DEF q
  <2> QED
    BY <1>s, <2>1, <2>2, <2>3
<1>11. ASSUME NEW c \in Conns, Break(c) PROVE JobInv'
  <2>1. UNCHANGED <<user, room, said>> /\ \A d \in Conns : job'[d] = job[d]
    BY <1>11 DEF Break, session
  <2>2. InOrder(c)'
    BY <2>1, OrderKept DEF Silent, Ids
  <2> QED
    BY <1>k, <2>1, <2>2
<1>12. ASSUME NEW c \in Conns, NEW u \in Users, Login(c, u) PROVE JobInv'
  <2> DEFINE q == Arrival(u, General)
  <2>1. /\ q \in Seq(Tasks) /\ Len(q) = 2
        /\ q[1] = [do |-> "fetch", room |-> General, limit |-> Recent]
        /\ q[2] = [do |-> "tell", room |-> General, item |-> Joined(u, General), but |-> u]
    BY ArrivalTasks, GeneralAssumption
  <2>2. /\ q[1].do = "fetch" /\ q[1].room = General
    BY <2>1
  <2>3. Owes(c, q) /\ said' = said
    BY <1>12 DEF Login
  <2> HIDE DEF q
  <2>4. job'[c] = q /\ \A d \in Conns \ {c} : job'[d] = job[d]
    BY <1>1, <2>1, <2>3, OwesTyped
  <2>5. /\ user'[c] = u /\ u # None /\ room'[c] = General
        /\ \A d \in Conns \ {c} : user'[d] = user[d] /\ room'[d] = room[d]
    BY <1>1, <1>12, NoneAssumption DEF Login, TypeOK
  <2>6. ASSUME NEW k \in 1..Len(job'[c])
        PROVE  LET t == job'[c][k] IN
               \/ t.do = "fetch" /\ user'[c] # None /\ t.room = room'[c]
               \/ t = Telling(c)' /\ user'[c] # None
    <3>0. Len(job'[c]) = 2
      BY <2>1, <2>4
    <3>1. k = 1 \/ k = 2
      BY <2>6, <3>0
    <3>2. q[2] = Telling(c)'
      BY <2>1, <2>5 DEF Telling
    <3> QED
      BY <2>2, <2>4, <2>5, <3>1, <3>2
  <2>7. InOrder(c)'
    BY <2>6, OrderNew
  <2> QED
    BY <1>m, <2>3, <2>4, <2>5, <2>7
<1>13. ASSUME NEW c \in Conns, NEW u \in Users, Private(c, u) PROVE JobInv'
  <2> DEFINE q == Sends({c}, Newest)
  <2>1. Newest \in Items
    BY <1>1, <1>13, NewestItem DEF Private, Says
  <2>2. /\ q \in Seq(Tasks) /\ Len(q) = 1
        /\ q[1] = [do |-> "write", to |-> {c}, item |-> Newest]
    BY <2>1, SendTask
  <2>3. Says(c, u) /\ UNCHANGED session /\ Owes(c, q)
    BY <1>13 DEF Private
  <2> HIDE DEF q
  <2> QED
    BY <1>s, <2>2, <2>3
<1>14. ASSUME NEW c \in Conns, NEW r \in Rooms, Join(c, r) PROVE JobInv'
  <2> DEFINE q == MoveJob(c, user[c], room[c], r)
  <2>1. user[c] \in Users /\ room[c] \in Rooms /\ user[c] # None
    BY <1>1, <1>14 DEF Join, TypeOK
  <2>2. /\ q \in Seq(Tasks) /\ Len(q) = 4
        /\ q[1] = [do |-> "tell", room |-> room[c], item |-> Left(user[c], room[c]), but |-> user[c]]
        /\ q[2] = [do |-> "write", to |-> {c}, item |-> You(r)]
        /\ q[3] = [do |-> "fetch", room |-> r, limit |-> Recent]
        /\ q[4] = [do |-> "tell", room |-> r, item |-> Joined(user[c], r), but |-> user[c]]
    BY <2>1, MoveTasks
  <2>3. /\ q[1].do = "tell" /\ q[1].item.kind = "left"
        /\ q[1].room = q[1].item.room /\ q[1].but \in {q[1].item.who, None}
        /\ q[2].do = "write" /\ q[2].to = {c} /\ q[2].item.kind = "you"
        /\ q[3].do = "fetch" /\ q[3].room = r
    BY <2>2 DEF Left, You
  <2>4. Owes(c, q) /\ said' = said
    BY <1>14 DEF Join, MoveJob
  <2> HIDE DEF q
  <2>5. job'[c] = q /\ \A d \in Conns \ {c} : job'[d] = job[d]
    BY <1>1, <2>2, <2>4, OwesTyped
  <2>6. /\ user' = user /\ room'[c] = r
        /\ \A d \in Conns \ {c} : room'[d] = room[d]
    BY <1>1, <1>14 DEF Join, TypeOK
  <2>7. ASSUME NEW k \in 1..Len(job'[c])
        PROVE  LET t == job'[c][k] IN
               \/ t.do = "fetch" /\ user'[c] # None /\ t.room = room'[c]
               \/ t = Telling(c)' /\ user'[c] # None
               \/ /\ k = 1 /\ t.do = "tell" /\ t.item.kind = "left"
                  /\ t.room = t.item.room /\ t.but \in {t.item.who, None}
               \/ t.do = "write" /\ user'[c] # None /\ t.to = {c} /\ t.item.kind = "you"
    <3>0. Len(job'[c]) = 4
      BY <2>2, <2>5
    <3>1. k = 1 \/ k = 2 \/ k = 3 \/ k = 4
      BY <2>7, <3>0
    <3>2. q[4] = Telling(c)'
      BY <2>2, <2>6 DEF Telling
    <3> QED
      BY <2>1, <2>3, <2>5, <2>6, <3>1, <3>2
  <2>8. InOrder(c)'
    BY <2>7, OrderNew
  <2> QED
    BY <1>m, <2>4, <2>5, <2>6, <2>8
<1>15. ASSUME NEW c \in Conns, NEW n \in {0, HistoryMax + 1}, CmdHistory(c, n) PROVE JobInv'
  <2> DEFINE k == IF n < 1 THEN 1 ELSE IF n > HistoryMax THEN HistoryMax ELSE n
             q == Fetch(room[c], k)
  <2>1. k \in Nat
    BY LimitsAssumption
  <2>2. Owes(c, q) /\ UNCHANGED <<user, room, said>> /\ user[c] # None
    BY <1>15 DEF CmdHistory, session
  <2> HIDE DEF k
  <2>3. /\ q \in Seq(Tasks) /\ Len(q) = 1
        /\ q[1] = [do |-> "fetch", room |-> room[c], limit |-> k]
    BY <1>1, <2>1, FetchTask DEF TypeOK
  <2>4. q[1].do = "fetch" /\ q[1].room = room[c]
    BY <2>3
  <2> HIDE DEF q
  <2>5. job'[c] = q /\ \A d \in Conns \ {c} : job'[d] = job[d]
    BY <1>1, <2>2, <2>3, OwesTyped
  <2>6. InOrder(c)'
    BY <2>2, <2>3, <2>4, <2>5, OrderNew
  <2> QED
    BY <1>k, <2>2, <2>5, <2>6
<1>16. CASE UNCHANGED vars
  <2>1. UNCHANGED <<user, room, said, job>>
    BY <1>16 DEF vars, session
  <2>2. ASSUME NEW c \in Conns PROVE InOrder(c)'
    BY <2>1, OrderKept DEF Silent, Ids
  <2> QED
    BY <2>2 DEF JobInv
<1>17. ASSUME NEW c \in Conns, NEW u \in Users, PrivateRaises(c, u) PROVE JobInv'
  BY <1>3, <1>17 DEF PrivateRaises
<1> QED
  BY <1>2, <1>4, <1>5, <1>6, <1>8, <1>9, <1>10, <1>11, <1>12, <1>13, <1>14, <1>15, <1>16, <1>17
    DEF Next, Step, Ask, Rest

\* The types, the users and the jobs together are inductive.
LEMMA OwedStep == Owed /\ [Next]_vars => Owed'
BY TypeStep, UserStep, JobStep DEF Owed

LEMMA OwedInit == Init => Owed
<1> SUFFICES ASSUME Init PROVE Owed
  OBVIOUS
<1>1. TypeOK
  <2>1. /\ <<>> \in Seq(Tasks) /\ <<>> \in Seq(Notices) /\ Len(<<>>) = 0
        /\ <<>> \in Seq([from : Users, to : Rooms \cup Users, on : Conns])
    OBVIOUS
  <2>2. 0 \in 0..MaxAsked /\ 0 <= MaxSaid
    BY BoundsAssumption
  <2> QED
    BY <2>1, <2>2, GeneralAssumption DEF Init, TypeOK
<1>2. UserInv
  BY DEF Init, UserInv
<1>3. JobInv
  BY DEF Init, JobInv, InOrder
<1> QED
  BY <1>1, <1>2, <1>3 DEF Owed

\* The variables keep their types: in particular a client is shown only messages
\* that have been said, although what is sent was decided steps earlier, by a
\* request whose sends come one by one (server.py:238-247, 587-624).
THEOREM TypeCorrect == Spec => []TypeOK
<1>1. Owed => TypeOK
  BY DEF Owed
<1> QED
  BY OwedInit, OwedStep, <1>1, PTL DEF Spec

-----------------------------------------------------------------------------
(* The order of the messages of one user.                                   *)

\* A write shows its reader one message at most.
LEMMA PutNew ==
  ASSUME TypeOK, NEW d \in Conns, NEW x \in Items, Put(d, x),
         NEW c \in Conns, NEW i \in live'[c] \ live[c]
  PROVE  c = d /\ x.kind = "message" /\ i = x.id
BY DEF Put, TypeOK, wire

\* The messages of one user reach each client in the order they were accepted:
\* a message still to be sent is the last of its user, because its handler has
\* taken no other request since, and the user has no other handler
\* (server.py:196-222, 1067).
THEOREM SenderOrdered == Spec => SenderOrder
<1> DEFINE Ordered(c) == \A i \in live'[c] \ live[c], j \in live[c] :
                           said'[i].from = said'[j].from => j < i
<1>1. ASSUME Owed, [Next]_vars PROVE \A c \in Conns : Ordered(c)
  <2>1. TypeOK
    BY <1>1 DEF Owed
  <2>2. ASSUME NEW c \in Conns, NEW d \in Conns, SendOne(c, d) PROVE \A e \in Conns : Ordered(e)
    <3> DEFINE t == Head(job[c])
    <3>1. /\ t.item \in Items /\ OwedMessage(c, t) /\ t.do = "write"
          /\ Put(d, t.item) /\ said' = said
      BY <1>1, <2>2, FirstSend DEF SendOne, Doing
    <3> HIDE DEF t
    <3>2. ASSUME NEW e \in Conns, NEW i \in live'[e] \ live[e], NEW j \in live[e],
                 said'[i].from = said'[j].from
          PROVE  j < i
      <4>1. t.item.kind = "message" /\ i = t.item.id
        BY <2>1, <3>1, <3>2, PutNew
      <4>2. /\ i \in Ids /\ \A k \in Ids : k > i => said[k].from # said[i].from
        BY <3>1, <4>1 DEF OwedMessage
      <4>3. j \in Ids /\ j # i
        BY <2>1, <3>2 DEF TypeOK
      <4> QED
        BY <2>1, <3>1, <3>2, <4>2, <4>3 DEF Ids, TypeOK
    <3> QED
      BY <3>2
  <2>3. ASSUME NEW c \in Conns, NEW u \in Users, Private(c, u) PROVE \A e \in Conns : Ordered(e)
    <3>1. PICK d \in Conns : Put(d, Newest)
      BY <2>3 DEF Private
    <3>2. Newest \in Items /\ Newest.id = Len(said) + 1
      BY <2>1, <2>3, NewestItem DEF Private, Says
    <3>3. ASSUME NEW e \in Conns, NEW i \in live'[e] \ live[e], NEW j \in live[e] PROVE j < i
      <4>1. i = Len(said) + 1
        BY <2>1, <3>1, <3>2, <3>3, PutNew
      <4>2. j \in 1..Len(said) /\ Len(said) \in Nat
        BY <2>1, <3>3 DEF TypeOK, Ids
      <4> QED
        BY <4>1, <4>2
    <3> QED
      BY <3>3
  <2>4. ASSUME NEW c \in Conns, NEW u \in Users, Login(c, u) PROVE \A e \in Conns : Ordered(e)
    <3>1. You(General) \in Items /\ You(General).kind = "you" /\ Put(c, You(General))
      BY <2>4, ItemKinds, GeneralAssumption DEF Login, You
    <3>2. ASSUME NEW e \in Conns, NEW i \in live'[e] \ live[e] PROVE FALSE
      BY <2>1, <3>1, <3>2, PutNew
    <3> QED
      BY <3>2
  <2>5. CASE UNCHANGED live
    BY <2>5
  <2>6. ASSUME NEW c \in Conns, NEW d \in Conns, SendRaises(c, d) PROVE UNCHANGED live
    BY <2>6 DEF SendRaises, Raise, wire
  <2>7. ASSUME NEW c \in Conns, Step(c) PROVE \A e \in Conns : Ordered(e)
    BY <2>2, <2>5, <2>6, <2>7 DEF Step, Snapshot, ReadHistory, Raise, Cleanup, wire
  <2>8. ASSUME NEW c \in Conns, Ask(c) PROVE \A e \in Conns : Ordered(e)
    BY <2>3, <2>4, <2>5, <2>8 DEF Ask, Logout, Public, PrivateRaises, Raise, Break, Join,
                                  CmdHistory, wire
  <2>9. CASE UNCHANGED vars
    BY <2>5, <2>9 DEF vars, wire
  <2> QED
    BY <1>1, <2>7, <2>8, <2>9 DEF Next, Rest
<1> QED
  BY <1>1, OwedInit, OwedStep, PTL DEF Spec, SenderOrder

-----------------------------------------------------------------------------
(* The history.                                                             *)

\* A set of numbers that is not empty has a least element.
LEMMA Least ==
  ASSUME NEW S \in SUBSET Nat, S # {}
  PROVE  \E k \in S : \A j \in S : j >= k
<1> DEFINE R == OpToRel(<, Nat)
<1>1. IsWellFoundedOn(R, Nat)
  BY NatLessThanWellFounded
<1>2. \A x, y \in Nat : y < x => <<y, x>> \in R
  BY DEF OpToRel
<1> HIDE DEF R
<1>3. PICK x \in S : \A y \in S : ~(<<y, x>> \in R)
  BY <1>1, WFMin
<1>4. ASSUME NEW y \in S PROVE y >= x
  <2>1. ~(y < x)
    BY <1>2, <1>3
  <2> QED
    BY <2>1
<1> QED
  BY <1>4

\* One with a bound has a greatest.
LEMMA Greatest ==
  ASSUME NEW n \in Nat, NEW S \in SUBSET (1..n), S # {}
  PROVE  \E k \in S : \A j \in S : j <= k
<1> DEFINE U == {k \in Nat : \A j \in S : j <= k}
<1>1. n \in U /\ U \in SUBSET Nat
  OBVIOUS
<1>2. PICK m \in U : \A k \in U : k >= m
  BY <1>1, Least
<1>3. m \in Nat /\ \A j \in S : j <= m
  BY <1>2
<1>4. ASSUME m \notin S PROVE FALSE
  <2>1. PICK j \in S : TRUE
    OBVIOUS
  <2>2. m - 1 \in Nat
    BY <1>3, <2>1
  <2>3. ASSUME NEW k \in S PROVE k <= m - 1
    BY <1>3, <1>4, <2>3
  <2>4. m - 1 \in U
    BY <2>2, <2>3
  <2> QED
    BY <1>2, <1>3, <2>4
<1> QED
  BY <1>3, <1>4

\* What ORDER BY id DESC LIMIT n leaves out of some rows has n newer ones in it.
LEMMA LatestCovers ==
  ASSUME NEW m \in Nat, NEW S \in SUBSET (1..m), NEW n \in Nat, NEW i \in S \ Latest(S, n)
  PROVE  Cardinality({j \in Latest(S, n) : j > i}) >= n
<1> DEFINE T == S \ Latest(S, n)
<1>1. T \in SUBSET (1..m) /\ T # {}
  OBVIOUS
<1>2. PICK k \in T : \A j \in T : j <= k
  BY <1>1, Greatest
<1> DEFINE A == {j \in S : j > k}
           B == {j \in Latest(S, n) : j > i}
<1>3. ~(Cardinality(A) < n)
  BY <1>2 DEF Latest
<1>4. A \subseteq B
  <2> SUFFICES ASSUME NEW j \in A PROVE j \in B
    OBVIOUS
  <2>1. j \in S /\ j > k /\ k \in 1..m /\ i \in 1..m /\ j \in 1..m
    BY <1>2
  <2>2. i <= k
    BY <1>2
  <2>3. j \notin T
    BY <1>2, <2>1
  <2> QED
    BY <2>1, <2>2, <2>3
<1>5. IsFiniteSet(B)
  <2>1. IsFiniteSet(1..m)
    BY FS_Interval
  <2>2. B \in SUBSET (1..m)
    BY DEF Latest
  <2> HIDE DEF B
  <2> QED
    BY <2>1, <2>2, FS_Subset
<1> HIDE DEF A, B
<1>6. Cardinality(A) <= Cardinality(B) /\ IsFiniteSet(A)
  BY <1>4, <1>5, FS_Subset
<1>7. Cardinality(A) \in Nat /\ Cardinality(B) \in Nat
  BY <1>5, <1>6, FS_CardinalityType
<1>8. Cardinality(B) >= n
  BY <1>3, <1>6, <1>7
<1> QED
  BY <1>8 DEF B

-----------------------------------------------------------------------------
(* Messages on their way.                                                   *)

\* A message on its way is the only thing its handler has left to do.
LEMMA ComingFrom ==
  ASSUME Owed, NEW e \in Conns, NEW i \in Nat, Coming(i, e)
  PROVE  /\ i \in Ids /\ said[i].on \in Conns
         /\ LET d == said[i].on
                t == job[d][1]
            IN  /\ Len(job[d]) = 1 /\ job[d] # <<>>
                /\ t.do \in {"tell", "write"} /\ t.item = Message(i)
                /\ t.do = "write" => e \in t.to
                /\ t.do = "tell" => t.room = said[i].to /\ t.but = None
<1>0. PICK d \in Conns :
        \E k \in DOMAIN job[d] :
          /\ job[d][k].do # "fetch" /\ job[d][k].item = Message(i)
          /\ job[d][k].do = "write" => e \in job[d][k].to
  BY DEF Coming
<1>1. PICK k \in DOMAIN job[d] :
        /\ job[d][k].do # "fetch" /\ job[d][k].item = Message(i)
        /\ job[d][k].do = "write" => e \in job[d][k].to
  BY <1>0
<1>2. job[d] \in Seq(Tasks) /\ k \in 1..Len(job[d]) /\ job[d][k] \in Tasks
  BY <1>1, ElementOfSeq DEF Owed, TypeOK
<1>3. OwedMessage(d, job[d][k])
  BY <1>2 DEF Owed, JobInv, InOrder
<1>4. job[d][k].item.kind = "message" /\ job[d][k].item.id = i
  BY <1>1 DEF Message
<1>5. /\ i \in Ids /\ Len(job[d]) = 1 /\ said[i].on = d
      /\ job[d][k].do = "tell" => job[d][k].room = said[i].to /\ job[d][k].but = None
  BY <1>1, <1>3, <1>4 DEF OwedMessage
<1>6. k = 1 /\ job[d] # <<>>
  BY <1>2, <1>5
<1>7. job[d][k].do \in {"tell", "write"}
  BY <1>1, <1>2, TaskParts
<1> QED
  BY <1>1, <1>5, <1>6, <1>7

\* A first task that has to do with a message brings it.
LEMMA ComingNow ==
  ASSUME TypeOK', NEW e \in Conns, NEW i \in Nat, NEW d \in Conns, Len(job'[d]) = 1,
         job'[d][1].do \in {"tell", "write"}, job'[d][1].item = Message(i),
         job'[d][1].do = "write" => e \in job'[d][1].to
  PROVE  Coming(i, e)'
<1>1. DOMAIN job'[d] = 1..Len(job'[d])
  BY DEF TypeOK
<1>2. 1 \in DOMAIN job'[d]
  BY <1>1
<1> QED
  BY <1>2 DEF Coming, Message

\* No message for the channel of e is lost in the step, unless its handler raises.
Progress(e) ==
  /\ Ids \subseteq Ids' /\ \A i \in Ids : said'[i] = said[i]
  /\ \A i \in Ids' \ Ids : said'[i].to = room[e] => Coming(i, e)'
  /\ \A i \in Ids : Coming(i, e) /\ said[i].to = room[e] =>
       Coming(i, e)' \/ i \in live'[e] \/ state'[said[i].on] \in {"cut", "crashed"}
  /\ \A d \in Conns : state[d] \in {"cut", "crashed"} => state'[d] \in {"cut", "crashed"}

\* So it is when one handler moves on and does not lose what it was to send.
LEMMA Progressing ==
  ASSUME Owed, TypeOK', NEW c \in Conns, NEW e \in Conns, said' = said,
         \A d \in Conns \ {c} : job'[d] = job[d],
         \A d \in Conns : state[d] \in {"cut", "crashed"} => state'[d] \in {"cut", "crashed"},
         \A i \in Ids : Coming(i, e) /\ said[i].to = room[e] /\ said[i].on = c =>
           Coming(i, e)' \/ i \in live'[e] \/ state'[c] \in {"cut", "crashed"}
  PROVE  Progress(e)
<1>1. Ids' = Ids
  BY DEF Ids
<1>2. ASSUME NEW i \in Ids, Coming(i, e), said[i].to = room[e]
      PROVE  Coming(i, e)' \/ i \in live'[e] \/ state'[said[i].on] \in {"cut", "crashed"}
  <2>0. i \in Nat
    BY DEF Ids
  <2>1. CASE said[i].on = c
    BY <1>2, <2>1
  <2>2. CASE said[i].on # c
    <3> DEFINE h == said[i].on
    <3>1. /\ h \in Conns \ {c} /\ Len(job[h]) = 1 /\ job[h][1].do \in {"tell", "write"}
          /\ job[h][1].item = Message(i)
          /\ job[h][1].do = "write" => e \in job[h][1].to
      BY <1>2, <2>0, <2>2, ComingFrom
    <3>2. job'[h] = job[h]
      BY <3>1
    <3> HIDE DEF h
    <3>3. Coming(i, e)'
      BY <2>0, <3>1, <3>2, ComingNow
    <3> QED
      BY <3>3
  <2> QED
    BY <2>1, <2>2
<1> QED
  BY <1>1, <1>2 DEF Progress

\* A handler that has nothing left to send loses nothing.
LEMMA NothingSent ==
  ASSUME Owed, NEW c \in Conns, NEW e \in Conns, NEW i \in Ids, Coming(i, e), said[i].on = c,
         job[c] = <<>> \/ job[c][1].do = "fetch"
  PROVE  FALSE
<1>1. i \in Nat
  BY DEF Ids
<1> QED
  BY <1>1, ComingFrom

\* In no step a message for a member that is there is lost.
LEMMA ProgressStep ==
  ASSUME Owed, TypeOK', [Next]_vars, NEW e \in Conns, Present(e)
  PROVE  Progress(e)
<1>1. TypeOK /\ UserInv /\ JobInv
  BY DEF Owed
<1>2. ASSUME NEW c \in Conns, Snapshot(c) PROVE Progress(e)
  <2> DEFINE t == job[c][1]
             D == Members(t.room, t.but)
  <2>1. job[c] # <<>> /\ Head(job[c]) = t /\ t \in Tasks /\ t.do = "tell" /\ t.item \in Items
    BY <1>1, <1>2, FirstTask, TaskParts DEF Snapshot, Doing
  <2>2. D \in SUBSET Conns
    BY DEF Members
  <2>3. Instead(c, Sends(D, t.item)) /\ said' = said /\ state' = state
    BY <1>2, <2>1 DEF Snapshot, session
  <2>4. ASSUME NEW i \in Ids, Coming(i, e), said[i].to = room[e], said[i].on = c
        PROVE  Coming(i, e)'
    <3>0. i \in Nat
      BY DEF Ids
    <3>1. /\ Len(job[c]) = 1 /\ t.item = Message(i) /\ t.room = room[e] /\ t.but = None
      BY <2>1, <2>4, <3>0, ComingFrom
    <3>2. e \in D
      BY <3>1 DEF Members, Present
    <3> HIDE DEF t, D
    <3>3. /\ Len(job'[c]) = 1
          /\ job'[c][1] = [do |-> "write", to |-> D, item |-> t.item]
      BY <1>1, <2>1, <2>2, <2>3, <3>1, <3>2, Replaced
    <3> QED
      BY <3>0, <3>1, <3>2, <3>3, ComingNow
  <2> HIDE DEF t, D
  <2>5. \A d \in Conns \ {c} : job'[d] = job[d]
    BY <1>1, <2>1, <2>2, <2>3, Replaced
  <2> QED
    BY <2>3, <2>4, <2>5, Progressing
<1>3. ASSUME NEW c \in Conns, NEW how \in {"error", "cut"}, Raise(c, how), job[c] # <<>>,
             job[c][1].do = "fetch" \/ how = "cut"
      PROVE  Progress(e)
  <2>1. /\ said' = said /\ \A d \in Conns \ {c} : job'[d] = job[d]
        /\ state[c] \in {"open", "closed", "crashed"}
        /\ state' = [state EXCEPT ![c] = IF @ = "open" THEN how ELSE "crashed"]
    BY <1>1, <1>3, AtWork DEF Raise, Owes, TypeOK
  <2>2. how = "cut" => state'[c] \in {"cut", "crashed"}
    BY <1>1, <2>1 DEF TypeOK
  <2>3. \A d \in Conns : state[d] \in {"cut", "crashed"} => state'[d] \in {"cut", "crashed"}
    BY <1>1, <2>1 DEF TypeOK
  <2>4. ASSUME NEW i \in Ids, Coming(i, e), said[i].to = room[e], said[i].on = c
        PROVE  state'[c] \in {"cut", "crashed"}
    BY <1>3, <2>2, <2>4, NothingSent
  <2> QED
    BY <2>1, <2>3, <2>4, Progressing
<1>4. ASSUME NEW c \in Conns, ReadHistory(c) PROVE Progress(e)
  <2> DEFINE t == job[c][1]
             ids == Latest(Rows(t.room), t.limit)
  <2>1. job[c] # <<>> /\ Head(job[c]) = t /\ t.do = "fetch"
    BY <1>1, <1>4, FirstTask DEF ReadHistory, Doing
  <2>2. History(ids) \in Items /\ {c} \in SUBSET Conns
    <3>1. ids \in SUBSET (1..MaxSaid)
      BY <1>1, BoundsAssumption DEF Latest, Rows, Ids, TypeOK
    <3> QED
      BY <3>1, ItemKinds
  <2>3. \/ Raise(c, "error")
        \/ Instead(c, Sends({c}, History(ids))) /\ said' = said /\ state' = state
    BY <1>4, <2>1 DEF ReadHistory, session
  <2>4. CASE Raise(c, "error")
    BY <1>3, <2>1, <2>4
  <2> HIDE DEF ids
  <2>5. CASE Instead(c, Sends({c}, History(ids))) /\ said' = said /\ state' = state
    <3>1. \A d \in Conns \ {c} : job'[d] = job[d]
      BY <1>1, <2>1, <2>2, <2>5, Replaced
    <3>2. ASSUME NEW i \in Ids, Coming(i, e), said[i].on = c PROVE FALSE
      BY <2>1, <3>2, NothingSent
    <3> QED
      BY <2>5, <3>1, <3>2, Progressing
  <2> QED
    BY <2>3, <2>4, <2>5
<1>5. ASSUME NEW c \in Conns, NEW f \in Conns, SendOne(c, f) PROVE Progress(e)
  <2> DEFINE t == Head(job[c])
             D == t.to \ {f}
  <2>1. /\ job[c] # <<>> /\ t = job[c][1] /\ D \in SUBSET Conns /\ t.item \in Items /\ t.do = "write"
    BY <1>5, FirstSend DEF SendOne, Doing
  <2>2. /\ Instead(c, Sends(D, t.item)) /\ said' = said /\ state' = state /\ Put(f, t.item)
    BY <1>5 DEF SendOne, session
  <2>3. ASSUME NEW i \in Ids, Coming(i, e), said[i].to = room[e], said[i].on = c
        PROVE  Coming(i, e)' \/ i \in live'[e]
    <3>0. i \in Nat
      BY DEF Ids
    <3>1. Len(job[c]) = 1 /\ t.item = Message(i) /\ e \in t.to
      BY <2>1, <2>3, <3>0, ComingFrom
    <3>2. CASE e = f
      <4>1. whole[f] /\ Open(f) /\ t.item.kind = "message" /\ t.item.id = i
        BY <3>1, <3>2 DEF Present, Open, Message
      <4>2. live' = [live EXCEPT ![f] = @ \cup {t.item.id}]
        BY <2>2, <4>1 DEF Put
      <4> QED
        BY <1>1, <3>2, <4>1, <4>2 DEF TypeOK
    <3>3. CASE e # f
      <4>1. e \in D
        BY <3>1, <3>3
      <4> HIDE DEF t, D
      <4>2. /\ Len(job'[c]) = 1
            /\ job'[c][1] = [do |-> "write", to |-> D, item |-> t.item]
        BY <1>1, <2>1, <2>2, <3>1, <4>1, Replaced
      <4> QED
        BY <3>0, <3>1, <4>1, <4>2, ComingNow
    <3> QED
      BY <3>2, <3>3
  <2> HIDE DEF t, D
  <2>4. \A h \in Conns \ {c} : job'[h] = job[h]
    BY <1>1, <2>1, <2>2, Replaced
  <2> QED
    BY <2>2, <2>3, <2>4, Progressing
<1>6. ASSUME NEW c \in Conns, NEW d \in Conns, SendRaises(c, d) PROVE Progress(e)
  BY <1>3, <1>6 DEF SendRaises, Doing
<1>i. ASSUME NEW c \in Conns, job[c] = <<>>, said' = said, \A d \in Conns \ {c} : job'[d] = job[d],
             \A d \in Conns : state[d] \in {"cut", "crashed"} => state'[d] \in {"cut", "crashed"}
      PROVE  Progress(e)
  <2>1. ASSUME NEW i \in Ids, Coming(i, e), said[i].on = c PROVE FALSE
    BY <1>i, <2>1, NothingSent
  <2> QED
    BY <1>i, <2>1, Progressing
<1>7. ASSUME NEW c \in Conns, Cleanup(c) PROVE Progress(e)
  <2>1. /\ job[c] = <<>> /\ said' = said /\ \A d \in Conns \ {c} : job'[d] = job[d]
    BY <1>1, <1>7 DEF Cleanup, Owes, UserInv, Idle, TypeOK
  <2>2. state' = [state EXCEPT ![c] = IF @ = "cut" THEN "crashed" ELSE "closed"]
        /\ state[c] # "crashed"
    BY <1>7 DEF Cleanup, Idle
  <2>3. \A d \in Conns : state[d] \in {"cut", "crashed"} => state'[d] \in {"cut", "crashed"}
    BY <1>1, <2>2 DEF TypeOK
  <2> QED
    BY <1>i, <2>1, <2>3
<1>o. ASSUME NEW c \in Conns, NEW q, Idle(c), Owes(c, q), said' = said, state' = state
      PROVE  Progress(e)
  BY <1>1, <1>i, <1>o DEF Idle, Owes, TypeOK
<1>8. ASSUME NEW c \in Conns, Logout(c) PROVE Progress(e)
  BY <1>8, <1>o DEF Logout
<1>9. ASSUME NEW c \in Conns, NEW to \in Rooms \cup Users, Says(c, to), state' = state,
             \A d \in Conns \ {c} : job'[d] = job[d],
             to \in Rooms => Len(job'[c]) = 1 /\ job'[c][1].do = "tell" /\ job'[c][1].item = Newest
      PROVE  Progress(e)
  <2>0. PICK n \in Nat : n = Len(said) + 1
    BY <1>1 DEF TypeOK
  <2>1. /\ n \in Nat /\ Ids' = Ids \cup {n} /\ n \notin Ids /\ job[c] = <<>>
        /\ said'[n].to = to /\ \A i \in Ids : said'[i] = said[i]
    <3>1. /\ Len(said) \in Nat /\ Ids' = Ids \cup {n} /\ n \notin Ids /\ job[c] = <<>>
          /\ said'[n] = [from |-> user[c], to |-> to, on |-> c]
          /\ \A i \in Ids : said'[i] = said[i]
      BY <1>9, <2>0, Said
    <3> QED
      BY <3>1
  <2>2. Newest = Message(n)
    BY <2>0 DEF Newest
  <2>3. ASSUME said'[n].to = room[e] PROVE Coming(n, e)'
    <3>1. to \in Rooms
      BY <1>1, <2>1, <2>3 DEF TypeOK
    <3>2. Len(job'[c]) = 1 /\ job'[c][1].do = "tell" /\ job'[c][1].item = Message(n)
      BY <1>9, <2>2, <3>1
    <3> QED
      BY <2>1, <3>2, ComingNow
  <2>4. ASSUME NEW i \in Ids, Coming(i, e) PROVE Coming(i, e)'
    <3> DEFINE h == said[i].on
    <3>0. i \in Nat
      BY DEF Ids
    <3>1. /\ h \in Conns /\ Len(job[h]) = 1 /\ job[h] # <<>>
          /\ job[h][1].do \in {"tell", "write"} /\ job[h][1].item = Message(i)
          /\ job[h][1].do = "write" => e \in job[h][1].to
      BY <2>4, <3>0, ComingFrom
    <3>2. job'[h] = job[h]
      BY <1>9, <2>1, <3>1
    <3> HIDE DEF h
    <3> QED
      BY <3>0, <3>1, <3>2, ComingNow
  <2>5. state' = state
    BY <1>9
  <2> QED
    BY <2>1, <2>3, <2>4, <2>5 DEF Progress
<1>10. ASSUME NEW c \in Conns, Public(c) PROVE Progress(e)
  <2> DEFINE q == Tell(room[c], Newest, None)
  <2>1. Newest \in Items /\ room[c] \in Rooms
    BY <1>1, <1>10, NewestItem DEF Public, Says, TypeOK
  <2>2. /\ q \in Seq(Tasks) /\ Len(q) = 1
        /\ q[1] = [do |-> "tell", room |-> room[c], item |-> Newest, but |-> None]
    BY <2>1, TellTask
  <2>3. Says(c, room[c]) /\ state' = state /\ Owes(c, q)
    BY <1>10 DEF Public
  <2> HIDE DEF q
  <2>4. job'[c] = q /\ \A d \in Conns \ {c} : job'[d] = job[d]
    BY <1>1, <2>2, <2>3, OwesTyped
  <2> QED
    BY <1>9, <2>1, <2>2, <2>3, <2>4
<1>11. ASSUME NEW c \in Conns, NEW u \in Users, Private(c, u) PROVE Progress(e)
  <2>1. u \notin Rooms
    BY KindsAssumption
  <2>2. Says(c, u) /\ state' = state /\ \A d \in Conns \ {c} : job'[d] = job[d]
    BY <1>1, <1>11 DEF Private, Owes, TypeOK
  <2> QED
    BY <1>9, <2>1, <2>2
<1>12. ASSUME NEW c \in Conns, NEW u \in Users, Login(c, u) PROVE Progress(e)
  BY <1>12, <1>o DEF Login
<1>13. ASSUME NEW c \in Conns, NEW r \in Rooms, Join(c, r) PROVE Progress(e)
  BY <1>13, <1>o DEF Join
<1>14. ASSUME NEW c \in Conns, NEW n \in {0, HistoryMax + 1}, CmdHistory(c, n) PROVE Progress(e)
  BY <1>14, <1>o DEF CmdHistory
<1>15. CASE UNCHANGED <<job, said, state>>
  <2>1. \A i \in Nat : Coming(i, e) => Coming(i, e)'
    BY <1>15 DEF Coming
  <2> QED
    BY <1>15, <2>1 DEF Progress, Ids
<1>16. ASSUME NEW c \in Conns, Break(c) PROVE Progress(e)
  BY <1>15, <1>16 DEF Break
<1>17. CASE UNCHANGED vars
  BY <1>15, <1>17 DEF vars
<1>18. ASSUME NEW c \in Conns, NEW u \in Users, PrivateRaises(c, u) PROVE Progress(e)
  <2>1. /\ job[c] = <<>> /\ job' = job /\ said' = said /\ state' = [state EXCEPT ![c] = "cut"]
    BY <1>1, <1>18, EchoLost
  <2>2. \A d \in Conns : state[d] \in {"cut", "crashed"} => state'[d] \in {"cut", "crashed"}
    BY <1>1, <2>1 DEF TypeOK
  <2> QED
    BY <1>i, <2>1, <2>2
<1> QED
  BY <1>2, <1>4, <1>5, <1>6, <1>7, <1>8, <1>10, <1>11, <1>12, <1>13, <1>14, <1>16, <1>17, <1>18
    DEF Next, Step, Ask, Rest

-----------------------------------------------------------------------------
(* Arrivals.                                                                *)

\* A client that is covered stays so while it is where it is.
LEMMA CoveredOn ==
  ASSUME Owed, NEW e \in Conns, NEW ids, Progress(e),
         room'[e] = room[e], live[e] \subseteq live'[e], Covered(e, ids)
  PROVE  Covered(e, ids)'
<1> SUFFICES ASSUME NEW i \in Ids', said'[i].to = room[e]
             PROVE  \/ i \in live'[e] \cup ids
                    \/ Cardinality({j \in ids : j > i}) >= Recent
                    \/ Coming(i, e)'
                    \/ state'[said'[i].on] \in {"cut", "crashed"}
  BY DEF Covered, Rows
<1>1. CASE i \notin Ids
  BY <1>1 DEF Progress
<1>2. CASE i \in Ids
  <2>1. said'[i] = said[i] /\ said[i].on \in Conns /\ i \in Rows(room[e])
    <3>1. said \in Seq([from : Users, to : Rooms \cup Users, on : Conns]) /\ i \in 1..Len(said)
      BY <1>2 DEF Owed, TypeOK, Ids
    <3>2. said[i] \in [from : Users, to : Rooms \cup Users, on : Conns]
      BY <3>1, ElementOfSeq
    <3>3. said'[i] = said[i]
      BY <1>2 DEF Progress
    <3> QED
      BY <1>2, <3>2, <3>3 DEF Rows
  <2>2. \/ i \in live[e] \cup ids
        \/ Cardinality({j \in ids : j > i}) >= Recent
        \/ Coming(i, e)
        \/ state[said[i].on] \in {"cut", "crashed"}
    BY <2>1 DEF Covered
  <2> QED
    BY <1>2, <2>1, <2>2 DEF Progress
<1> QED
  BY <1>1, <1>2

\* A client that has its history and is not told anew where it is, is at home
\* while it has one task at most.
LEMMA HomeKept ==
  ASSUME Owed, NEW e \in Conns, Progress(e), AtHome(e), room'[e] = room[e],
         frame'[e] = frame[e], live[e] \subseteq live'[e], Len(job'[e]) <= 1,
         Len(job'[e]) = 1 /\ job'[e][1].do # "fetch" => job'[e][1].item.kind # "you"
  PROVE  AtHome(e)'
<1>1. PICK ids : ids = frame[e]
  OBVIOUS
<1>2. Covered(e, ids)
  BY <1>1 DEF AtHome
<1>3. Covered(e, ids)'
  BY <1>2, CoveredOn
<1>4. Covered(e, frame[e])'
  BY <1>1, <1>3 DEF Covered
<1> QED
  BY <1>4 DEF AtHome

\* What another handler does leaves a client where it is.
Undisturbed(e) ==
  /\ user'[e] = user[e] /\ room'[e] = room[e] /\ job'[e] = job[e] /\ frame'[e] = frame[e]
  /\ whole'[e] => whole[e]
  /\ state'[e] = state[e] /\ live[e] \subseteq live'[e]

LEMMA StillPlaced ==
  ASSUME Owed, NEW e \in Conns, Placed(e), Undisturbed(e), Present(e) => Progress(e)
  PROVE  Placed(e)'
<1> SUFFICES ASSUME Present(e)'
             PROVE  (AtGreeting(e) \/ AtReading(e) \/ AtHistory(e) \/ AtHome(e))'
  BY DEF Placed
<1>1. Present(e) /\ Progress(e)
  BY DEF Present, Undisturbed
<1>2. CASE AtGreeting(e)
  BY <1>2 DEF AtGreeting, Undisturbed, Greeting, Reading, Telling
<1>3. CASE AtReading(e)
  BY <1>3 DEF AtReading, Undisturbed, Reading
<1>4. CASE AtHistory(e)
  <2>1. PICK ids : ids = job[e][1].item.ids
    OBVIOUS
  <2>2. Covered(e, ids)
    BY <1>4, <2>1 DEF AtHistory
  <2>3. Covered(e, ids)'
    BY <1>1, <2>2, CoveredOn DEF Undisturbed
  <2>4. job'[e] = job[e]
    BY DEF Undisturbed
  <2>5. Covered(e, job[e][1].item.ids)'
    BY <2>1, <2>3, <2>4 DEF Covered
  <2> QED
    BY <1>4, <2>5 DEF AtHistory, Undisturbed
<1>5. CASE AtHome(e)
  <2>1. Len(job'[e]) <= 1 /\ (Len(job'[e]) = 1 /\ job'[e][1].do # "fetch" => job'[e][1].item.kind # "you")
    BY <1>5 DEF AtHome, Undisturbed
  <2> QED
    BY <1>1, <1>5, <2>1, HomeKept DEF Undisturbed
<1> QED
  BY <1>1, <1>2, <1>3, <1>4, <1>5 DEF Placed

\* What is written to one client is not seen by another, and news take nothing
\* away.
LEMMA PutKeeps ==
  ASSUME TypeOK, NEW d \in Conns, NEW x \in Items, Put(d, x), NEW e \in Conns,
         e # d \/ IsNews(x)
  PROVE  frame'[e] = frame[e] /\ live[e] \subseteq live'[e]
BY DEF Put, TypeOK, wire, IsNews

\* A client that is still to be told where it is stays so while its handler tells
\* others.
LEMMA GreetingOn ==
  ASSUME Owed, NEW c \in Conns, job[c] # <<>>, AtGreeting(c), job[c][1].do # "fetch",
         IsNews(job[c][1].item), job[c][1].item \in Items, NEW D \in SUBSET Conns,
         Instead(c, Sends(D, job[c][1].item)), room'[c] = room[c], user'[c] = user[c]
  PROVE  AtGreeting(c)'
<1> DEFINE x == job[c][1].item
<1>0. PICK n \in Nat : n = Len(job[c])
  BY FirstTask DEF Owed
<1>1. TypeOK /\ n >= 3
  BY <1>0 DEF Owed, AtGreeting
<1>2. n # 3
  BY <1>0 DEF AtGreeting, Greeting, You, IsNews
<1>3. /\ job[c][n - 2] = Greeting(c) /\ job[c][n - 1] = Reading(c) /\ job[c][n] = Telling(c)
      /\ \A k \in 1..(n - 3) : job[c][k].do # "fetch" /\ IsNews(job[c][k].item)
  BY <1>0 DEF AtGreeting
<1>4. Greeting(c)' = Greeting(c) /\ Reading(c)' = Reading(c) /\ Telling(c)' = Telling(c)
  BY DEF Greeting, Reading, Telling
<1>5. CASE D = {}
  <2>1. Len(job'[c]) = n - 1 /\ \A k \in 1..(n - 1) : job'[c][k] = job[c][k + 1]
    BY <1>0, <1>1, <1>5, Replaced
  <2>0. /\ {n - 3, n - 2, n - 1} \subseteq 1..(n - 1)
        /\ (n - 3) + 1 = n - 2 /\ (n - 2) + 1 = n - 1 /\ (n - 1) + 1 = n
    BY <1>1, <1>2
  <2>2. /\ job'[c][n - 3] = job[c][n - 2] /\ job'[c][n - 2] = job[c][n - 1]
        /\ job'[c][n - 1] = job[c][n]
    BY <2>0, <2>1
  <2>3. ASSUME NEW k \in 1..(n - 4) PROVE job'[c][k].do # "fetch" /\ IsNews(job'[c][k].item)
    <3>1. k \in 1..(n - 1) /\ k + 1 \in 1..(n - 3)
      BY <1>1, <1>2, <2>3
    <3> QED
      BY <1>3, <2>1, <3>1
  <2>4. /\ Len(job'[c]) >= 3 /\ Len(job'[c]) - 2 = n - 3 /\ Len(job'[c]) - 1 = n - 2
        /\ Len(job'[c]) = n - 1 /\ Len(job'[c]) - 3 = n - 4
    BY <1>1, <1>2, <2>1
  <2> QED
    BY <1>3, <1>4, <2>2, <2>3, <2>4 DEF AtGreeting, IsNews
<1>6. CASE D # {}
  <2> DEFINE w == [do |-> "write", to |-> D, item |-> x]
  <2>1. /\ Len(job'[c]) = n /\ job'[c][1] = w
        /\ \A k \in 2..n : job'[c][k] = job[c][k]
    BY <1>0, <1>1, <1>6, Replaced
  <2>2. w.do # "fetch" /\ IsNews(w.item)
    OBVIOUS
  <2> HIDE DEF w
  <2>3. /\ job'[c][n - 2] = job[c][n - 2] /\ job'[c][n - 1] = job[c][n - 1]
        /\ job'[c][n] = job[c][n]
    <3>1. {n - 2, n - 1, n} \subseteq 2..n
      BY <1>1, <1>2
    <3> QED
      BY <2>1, <3>1
  <2>4. ASSUME NEW k \in 1..(n - 3) PROVE job'[c][k].do # "fetch" /\ IsNews(job'[c][k].item)
    <3>1. CASE k = 1
      BY <2>1, <2>2, <3>1
    <3>2. CASE k # 1
      <4>1. k \in 2..n
        BY <1>1, <2>4, <3>2
      <4> QED
        BY <1>3, <2>1, <2>4, <4>1
    <3> QED
      BY <3>1, <3>2
  <2> QED
    BY <1>1, <1>3, <1>4, <2>1, <2>3, <2>4 DEF AtGreeting, IsNews
<1> QED
  BY <1>5, <1>6

\* What the history leaves out is pushed out by newer messages.
LEMMA HistoryCovers ==
  ASSUME TypeOK, NEW c \in Conns, NEW ids, ids = Latest(Rows(room[c]), Recent)
  PROVE  Covered(c, ids)
<1> DEFINE S == Rows(room[c])
<1>1. S \in SUBSET (1..Len(said)) /\ Len(said) \in Nat /\ Recent \in Nat
  BY LimitsAssumption DEF TypeOK, Rows, Ids
<1> HIDE DEF S
<1>2. ASSUME NEW i \in S, i \notin ids PROVE Cardinality({j \in ids : j > i}) >= Recent
  <2>1. i \in S \ Latest(S, Recent)
    BY <1>2 DEF S
  <2>2. Cardinality({j \in Latest(S, Recent) : j > i}) >= Recent
    BY <1>1, <2>1, LatestCovers
  <2> QED
    BY <2>2 DEF S
<1> QED
  BY <1>2 DEF Covered, S

\* An idle client that is there is at home.
LEMMA IdleAtHome ==
  ASSUME Owed, NEW c \in Conns, Placed(c), Present(c), job[c] = <<>>
  PROVE  AtHome(c)
<1>1. Len(job[c]) = 0
  OBVIOUS
<1> QED
  BY <1>1 DEF Placed, AtGreeting, AtReading, AtHistory

\* One at home that is not idle has one task.
LEMMA OneTask ==
  ASSUME TypeOK, NEW c \in Conns, AtHome(c), job[c] # <<>>
  PROVE  Len(job[c]) = 1
<1>1. PICK n \in Nat \ {0} : n = Len(job[c])
  BY FirstTask
<1>2. n <= 1
  BY <1>1 DEF AtHome
<1>3. n = 1
  BY <1>2
<1> QED
  BY <1>1, <1>3

\* Before the word of where it is come at most some news.
LEMMA GreetingFirst ==
  ASSUME TypeOK, NEW c \in Conns, AtGreeting(c)
  PROVE  \/ Len(job[c]) = 3 /\ job[c][1] = Greeting(c)
         \/ job[c][1].do # "fetch" /\ IsNews(job[c][1].item)
<1>1. PICK n \in Nat : n = Len(job[c])
  BY DEF TypeOK
<1>2. n >= 3
  BY <1>1 DEF AtGreeting
<1>3. CASE n = 3
  BY <1>1, <1>3 DEF AtGreeting
<1>4. CASE n # 3
  <2>1. 1 \in 1..(n - 3)
    BY <1>2, <1>4
  <2> QED
    BY <1>1, <2>1 DEF AtGreeting
<1> QED
  BY <1>3, <1>4

\* Each client stays at a stage of its arrival, and goes on from one to the next.
LEMMA ArrivalStep ==
  ASSUME DInv, [Next]_vars
  PROVE  ArrivalInv'
<1>1. Owed /\ TypeOK /\ UserInv /\ JobInv
  BY DEF DInv, Owed
<1>2. TypeOK'
  BY <1>1, TypeStep
<1>p. ASSUME NEW e \in Conns PROVE Placed(e) /\ (Present(e) => Progress(e))
  BY <1>1, <1>2, ProgressStep DEF DInv, ArrivalInv
<1>u. ASSUME NEW e \in Conns, Undisturbed(e) PROVE Placed(e)'
  BY <1>1, <1>p, <1>u, StillPlaced
<1>o. ASSUME NEW c \in Conns, UNCHANGED wire, Placed(c)',
             \A e \in Conns \ {c} :
               /\ user'[e] = user[e] /\ room'[e] = room[e] /\ job'[e] = job[e]
               /\ whole'[e] => whole[e]
               /\ state'[e] = state[e]
      PROVE  ArrivalInv'
  <2>1. ASSUME NEW e \in Conns \ {c} PROVE Undisturbed(e)
    BY <1>o DEF Undisturbed, wire
  <2> QED
    BY <1>o, <1>u, <2>1 DEF ArrivalInv
<1>h. ASSUME NEW c \in Conns, Idle(c), Present(c), room'[c] = room[c],
             frame'[c] = frame[c], live[c] \subseteq live'[c], Len(job'[c]) = 1,
             job'[c][1].do # "fetch" => job'[c][1].item.kind # "you"
      PROVE  Placed(c)'
  <2>1. AtHome(c) /\ Progress(c)
    BY <1>1, <1>h, <1>p, IdleAtHome DEF Idle
  <2>2. Len(job'[c]) <= 1
    BY <1>h
  <2>3. AtHome(c)'
    BY <1>1, <1>h, <2>1, <2>2, HomeKept
  <2> QED
    BY <2>3 DEF Placed
<1>3. ASSUME NEW c \in Conns, Snapshot(c) PROVE ArrivalInv'
  <2> DEFINE t == job[c][1]
             D == Members(t.room, t.but)
  <2>1. /\ job[c] # <<>> /\ Head(job[c]) = t /\ t \in Tasks /\ t.do = "tell" /\ t.item \in Items
        /\ Len(job[c]) \in Nat \ {0}
    BY <1>1, <1>3, FirstTask, TaskParts DEF Snapshot, Doing
  <2>2. IsNews(t.item) /\ t.item.kind # "you"
    BY <1>1, <2>1 DEF JobInv, InOrder, OwedBy, IsNews
  <2>3. D \in SUBSET Conns
    BY DEF Members
  <2>4. Instead(c, Sends(D, t.item)) /\ UNCHANGED <<session, state, whole, said, wire, moves>>
    BY <1>3, <2>1 DEF Snapshot
  <2> HIDE DEF D
  <2>5. Placed(c)'
    <3> SUFFICES ASSUME Present(c)' PROVE (AtGreeting(c) \/ AtHome(c))'
      BY DEF Placed
    <3>1. /\ Present(c) /\ room'[c] = room[c] /\ user'[c] = user[c]
          /\ frame'[c] = frame[c] /\ live'[c] = live[c]
      BY <2>4 DEF Present, session, wire
    <3>2. CASE AtGreeting(c)
      BY <1>1, <2>1, <2>2, <2>3, <2>4, <3>1, <3>2, GreetingOn
    <3>3. ~AtReading(c) /\ ~AtHistory(c)
      BY <2>1 DEF AtReading, AtHistory, Reading
    <3>4. CASE AtHome(c)
      <4>1. Len(job[c]) = 1
        BY <1>1, <2>1, <3>4, OneTask
      <4>2. /\ D = {} => Len(job'[c]) = 0
            /\ D # {} => Len(job'[c]) = 1 /\ job'[c][1] = [do |-> "write", to |-> D, item |-> t.item]
        <5>1. /\ D = {} => Len(job'[c]) = Len(job[c]) - 1
              /\ D # {} => /\ Len(job'[c]) = Len(job[c])
                           /\ job'[c][1] = [do |-> "write", to |-> D, item |-> t.item]
          BY <1>1, <2>1, <2>3, <2>4, Replaced
        <5> QED
          BY <4>1, <5>1
      <4>3. /\ Len(job'[c]) <= 1
            /\ Len(job'[c]) = 1 /\ job'[c][1].do # "fetch" => job'[c][1].item.kind # "you"
        <5>1. CASE D = {}
          <6>1. Len(job'[c]) = 0
            BY <4>2, <5>1
          <6> QED
            BY <6>1
        <5>2. CASE D # {}
          <6>1. Len(job'[c]) = 1 /\ job'[c][1].item = t.item
            BY <4>2, <5>2
          <6> QED
            BY <2>2, <6>1
        <5> QED
          BY <5>1, <5>2
      <4> QED
        BY <1>1, <1>p, <3>1, <3>4, <4>3, HomeKept
    <3> QED
      BY <1>p, <3>1, <3>2, <3>3, <3>4 DEF Placed
  <2>6. \A e \in Conns \ {c} : job'[e] = job[e]
    BY <1>1, <2>1, <2>3, <2>4, Replaced
  <2> QED
    BY <1>o, <2>4, <2>5, <2>6 DEF session
<1>r. ASSUME NEW c \in Conns, NEW how \in {"error", "cut"}, Raise(c, how) PROVE ArrivalInv'
  <2>1. /\ \A e \in Conns \ {c} : job'[e] = job[e] /\ state'[e] = state[e]
        /\ state'[c] # "open" /\ UNCHANGED <<session, whole, wire>>
    BY <1>1, <1>r DEF Raise, Owes, TypeOK
  <2>2. Placed(c)'
    BY <2>1 DEF Placed, Present
  <2> QED
    BY <1>o, <2>1, <2>2 DEF session
<1>4. ASSUME NEW c \in Conns, ReadHistory(c) PROVE ArrivalInv'
  <2> DEFINE t == job[c][1]
             ids == Latest(Rows(t.room), t.limit)
  <2>1. job[c] # <<>> /\ Head(job[c]) = t /\ t.do = "fetch" /\ Len(job[c]) \in Nat \ {0}
    BY <1>1, <1>4, FirstTask DEF ReadHistory, Doing
  <2>2. History(ids) \in Items /\ {c} \in SUBSET Conns
    <3>1. ids \in SUBSET (1..MaxSaid)
      BY <1>1, BoundsAssumption DEF Latest, Rows, Ids, TypeOK
    <3> QED
      BY <3>1, ItemKinds
  <2>3. \/ Raise(c, "error")
        \/ /\ Instead(c, Sends({c}, History(ids)))
           /\ UNCHANGED <<session, state, whole, said, wire, moves>>
    BY <1>4, <2>1 DEF ReadHistory
  <2>4. CASE Raise(c, "error")
    BY <1>r, <2>4
  <2>5. CASE /\ Instead(c, Sends({c}, History(ids)))
             /\ UNCHANGED <<session, state, whole, said, wire, moves>>
    <3>0. PICK S : S = ids
      OBVIOUS
    <3> HIDE DEF ids
    <3>1. /\ \A e \in Conns \ {c} : job'[e] = job[e]
          /\ Len(job'[c]) = Len(job[c])
          /\ job'[c][1] = [do |-> "write", to |-> {c}, item |-> History(S)]
          /\ \A k \in 2..Len(job[c]) : job'[c][k] = job[c][k]
      BY <1>1, <2>1, <2>2, <2>5, <3>0, Replaced
    <3>2. Placed(c)'
      <4> SUFFICES ASSUME Present(c)' PROVE (AtHistory(c) \/ AtHome(c))'
        BY DEF Placed
      <4>1. /\ Present(c) /\ Progress(c)
            /\ room'[c] = room[c] /\ frame'[c] = frame[c] /\ live'[c] = live[c]
        BY <1>p, <2>5 DEF Present, session, wire
      <4>2. ~AtGreeting(c)
        <5>1. Greeting(c).do = "write"
          BY DEF Greeting
        <5>2. job[c][1].do = "fetch"
          BY <2>1
        <5>3. CASE AtGreeting(c)
          <6>1. job[c][1] = Greeting(c)
            BY <1>1, <5>2, <5>3, GreetingFirst
          <6> QED
            BY <5>1, <5>2, <6>1
        <5> QED
          BY <5>3
      <4>3. ~AtHistory(c)
        BY <2>1 DEF AtHistory
      <4>4. CASE AtReading(c)
        <5>1. t.room = room[c] /\ t.limit = Recent
          BY <4>4 DEF AtReading, Reading
        <5>2. S = Latest(Rows(room[c]), Recent)
          BY <3>0, <5>1 DEF ids
        <5>3. Covered(c, S)
          BY <1>1, <5>2, HistoryCovers
        <5>4. Covered(c, S)'
          BY <1>1, <4>1, <5>3, CoveredOn
        <5>5. /\ job'[c][1].do = "write" /\ job'[c][1].item.kind = "history"
              /\ job'[c][1].item.ids = S
          BY <3>1 DEF History
        <5>6. Covered(c, job[c][1].item.ids)'
          BY <5>4, <5>5 DEF Covered
        <5>7. frame'[c] = None /\ Len(job'[c]) = 2 /\ job'[c][2].do = "tell"
          BY <3>1, <4>1, <4>4 DEF AtReading
        <5> QED
          BY <5>5, <5>6, <5>7 DEF AtHistory
      <4>5. CASE AtHome(c)
        <5>1. job'[c][1].item.kind = "history" /\ Len(job'[c]) <= 1
          BY <3>1, <4>5 DEF History, AtHome
        <5> QED
          BY <1>1, <4>1, <4>5, <5>1, HomeKept
      <4> QED
        BY <1>p, <4>1, <4>2, <4>3, <4>4, <4>5 DEF Placed
    <3> QED
      BY <1>o, <2>5, <3>1, <3>2 DEF session
  <2> QED
    BY <2>3, <2>4, <2>5
<1>5. ASSUME NEW c \in Conns, NEW d \in Conns, SendOne(c, d) PROVE ArrivalInv'
  <2> DEFINE t == job[c][1]
             D == t.to \ {d}
  <2>1. /\ job[c] # <<>> /\ Head(job[c]) = t /\ D \in SUBSET Conns /\ t.item \in Items
        /\ t.do = "write" /\ OwedBy(c, t)
        /\ t.item.kind = "history" => t.item.ids \subseteq Ids
    BY <1>5, <1>1, FirstSend DEF SendOne, Doing
  <2>2. /\ Instead(c, Sends(D, t.item)) /\ Put(d, t.item) /\ d \in t.to
        /\ UNCHANGED <<session, state, whole, said, moves>>
    BY <1>5, <2>1 DEF SendOne
  <2>3. ~IsNews(t.item) => d = c /\ D = {}
    BY <2>1, <2>2 DEF OwedBy
  <2>4. Len(job[c]) \in Nat \ {0}
    BY <1>1, <2>1, FirstTask
  <2> HIDE DEF D
  <2>5. /\ \A e \in Conns \ {c} : job'[e] = job[e]
        /\ D = {} => /\ Len(job'[c]) = Len(job[c]) - 1
                     /\ \A k \in 1..(Len(job[c]) - 1) : job'[c][k] = job[c][k + 1]
        /\ D # {} => /\ Len(job'[c]) = Len(job[c])
                     /\ job'[c][1] = [do |-> "write", to |-> D, item |-> t.item]
    BY <1>1, <2>1, <2>2, Replaced
  <2>6. ASSUME NEW e \in Conns \ {c} PROVE Undisturbed(e)
    <3>1. e # d \/ IsNews(t.item)
      BY <2>3
    <3>2. frame'[e] = frame[e] /\ live[e] \subseteq live'[e]
      BY <1>1, <2>1, <2>2, <3>1, PutKeeps
    <3> QED
      BY <2>2, <2>5, <3>2 DEF Undisturbed, session
  <2>7. Placed(c)'
    <3> SUFFICES ASSUME Present(c)' PROVE (AtGreeting(c) \/ AtReading(c) \/ AtHome(c))'
      BY DEF Placed
    <3>1. /\ Present(c) /\ room'[c] = room[c] /\ user'[c] = user[c]
          /\ Progress(c) /\ whole[c] /\ Open(c)
      BY <1>p, <2>2 DEF Present, session, Open
    <3>2. CASE AtGreeting(c) /\ IsNews(t.item)
      BY <1>1, <2>1, <2>2, <3>1, <3>2, GreetingOn
    <3>3. CASE AtGreeting(c) /\ ~IsNews(t.item)
      <4>1. Len(job[c]) = 3
        BY <1>1, <3>3, GreetingFirst
      <4>2. t = Greeting(c) /\ job[c][2] = Reading(c) /\ job[c][3].do = "tell"
        BY <3>3, <4>1 DEF AtGreeting, Telling
      <4>3. d = c /\ t.item.kind = "you"
        BY <2>3, <3>3, <4>2 DEF Greeting, You
      <4>4. frame' = [frame EXCEPT ![c] = None]
        BY <2>2, <3>1, <4>3 DEF Put
      <4>5. frame'[c] = None
        BY <1>1, <4>4 DEF TypeOK
      <4>6. Len(job'[c]) = 2 /\ job'[c][1] = job[c][2] /\ job'[c][2] = job[c][3]
        BY <2>3, <2>5, <3>3, <4>1
      <4> QED
        BY <3>1, <4>2, <4>5, <4>6 DEF AtReading, Reading
    <3>4. ~AtReading(c)
      BY <2>1 DEF AtReading, Reading
    <3>5. CASE AtHistory(c)
      <4>0. PICK S : S = t.item.ids
        OBVIOUS
      <4>1. /\ t.item.kind = "history" /\ frame[c] = None /\ Len(job[c]) = 2
            /\ job[c][2].do = "tell" /\ Covered(c, S)
        BY <3>5, <4>0 DEF AtHistory
      <4>2. d = c /\ D = {}
        BY <2>3, <4>1 DEF IsNews
      <4>3. frame' = [frame EXCEPT ![c] = IF @ = None THEN t.item.ids ELSE @] /\ live' = live
        BY <2>2, <3>1, <4>1, <4>2 DEF Put
      <4>4. frame'[c] = S /\ live'[c] = live[c]
        BY <1>1, <4>0, <4>1, <4>3 DEF TypeOK
      <4>5. S # None
        <5>1. S \in SUBSET (1..MaxSaid)
          BY <2>1, <4>0, <4>1, ItemParts
        <5> QED
          BY <5>1, NoneAssumption
      <4>6. Covered(c, S)'
        BY <1>1, <3>1, <4>1, <4>4, CoveredOn
      <4>7. Covered(c, frame[c])'
        BY <4>4, <4>6 DEF Covered
      <4>8. Len(job'[c]) = 1 /\ job'[c][1] = job[c][2]
        BY <2>5, <4>1, <4>2
      <4>9. job[c][2].item.kind # "you"
        BY <1>1, <4>1 DEF JobInv, InOrder, OwedBy, IsNews
      <4> QED
        BY <4>4, <4>5, <4>7, <4>8, <4>9 DEF AtHome
    <3>6. CASE AtHome(c)
      <4>0. Len(job[c]) = 1
        BY <1>1, <2>1, <3>6, OneTask
      <4>1. Len(job[c]) = 1 /\ t.item.kind # "you" /\ frame[c] # None
        BY <2>1, <3>6, <4>0 DEF AtHome
      <4>2. frame'[c] = frame[c] /\ live[c] \subseteq live'[c]
        <5>1. CASE d = c /\ t.item.kind = "history"
          <6>1. frame' = [frame EXCEPT ![c] = IF @ = None THEN t.item.ids ELSE @] /\ live' = live
            BY <2>2, <3>1, <5>1 DEF Put
          <6> QED
            BY <1>1, <4>1, <6>1 DEF TypeOK
        <5>2. CASE d # c \/ t.item.kind # "history"
          <6>1. c # d \/ IsNews(t.item)
            BY <2>1, <4>1, <5>2, ItemParts DEF IsNews
          <6> QED
            BY <1>1, <2>1, <2>2, <6>1, PutKeeps
        <5> QED
          BY <5>1, <5>2
      <4>3. /\ Len(job'[c]) <= 1
            /\ Len(job'[c]) = 1 /\ job'[c][1].do # "fetch" => job'[c][1].item.kind # "you"
        <5>1. CASE D = {}
          <6>1. Len(job'[c]) = 0
            BY <2>5, <4>1, <5>1
          <6> QED
            BY <6>1
        <5>2. CASE D # {}
          <6>1. Len(job'[c]) = 1 /\ job'[c][1].item = t.item
            BY <2>5, <4>1, <5>2
          <6> QED
            BY <4>1, <6>1
        <5> QED
          BY <5>1, <5>2
      <4> QED
        BY <1>1, <3>1, <3>6, <4>2, <4>3, HomeKept
    <3> QED
      BY <1>p, <3>1, <3>2, <3>3, <3>4, <3>5, <3>6 DEF Placed
  <2> QED
    BY <1>u, <2>6, <2>7 DEF ArrivalInv
<1>6. ASSUME NEW c \in Conns, NEW d \in Conns, SendRaises(c, d) PROVE ArrivalInv'
  BY <1>r, <1>6 DEF SendRaises
<1>7. ASSUME NEW c \in Conns, Cleanup(c) PROVE ArrivalInv'
  <2>1. /\ \A e \in Conns \ {c} : job'[e] = job[e] /\ state'[e] = state[e] /\ user'[e] = user[e]
        /\ state'[c] # "open" /\ UNCHANGED <<room, whole, wire>>
    BY <1>1, <1>7 DEF Cleanup, Owes, TypeOK
  <2>2. Placed(c)'
    BY <2>1 DEF Placed, Present
  <2> QED
    BY <1>o, <2>1, <2>2
<1>8. ASSUME NEW c \in Conns, Logout(c) PROVE ArrivalInv'
  <2>1. /\ \A e \in Conns \ {c} : job'[e] = job[e] /\ room'[e] = room[e] /\ user'[e] = user[e]
        /\ user'[c] = None /\ UNCHANGED <<state, whole, wire>>
    BY <1>1, <1>8 DEF Logout, Owes, TypeOK
  <2>2. Placed(c)'
    BY <2>1 DEF Placed, Present
  <2> QED
    BY <1>o, <2>1, <2>2
<1>9. ASSUME NEW c \in Conns, Public(c) PROVE ArrivalInv'
  <2> DEFINE q == Tell(room[c], Newest, None)
  <2>1. Newest \in Items /\ room[c] \in Rooms /\ Newest.kind = "message"
    BY <1>1, <1>9, NewestItem DEF Public, Says, TypeOK
  <2>2. /\ q \in Seq(Tasks) /\ Len(q) = 1
        /\ q[1] = [do |-> "tell", room |-> room[c], item |-> Newest, but |-> None]
    BY <2>1, TellTask
  <2>3. Idle(c) /\ Owes(c, q) /\ UNCHANGED <<session, state, whole, wire>>
    BY <1>9 DEF Public, Says
  <2> HIDE DEF q
  <2>4. job'[c] = q /\ \A d \in Conns \ {c} : job'[d] = job[d]
    BY <1>1, <2>2, <2>3, OwesTyped
  <2>5. Placed(c)'
    <3> SUFFICES ASSUME Present(c)' PROVE Placed(c)'
      BY DEF Placed
    <3>1. Present(c) /\ room'[c] = room[c] /\ frame'[c] = frame[c] /\ live[c] \subseteq live'[c]
      BY <2>3 DEF Present, session, wire
    <3>2. Len(job'[c]) = 1 /\ job'[c][1].item.kind # "you"
      BY <2>1, <2>2, <2>4
    <3> QED
      BY <1>h, <2>3, <3>1, <3>2
  <2> QED
    BY <1>o, <2>3, <2>4, <2>5 DEF session
<1>10. ASSUME NEW c \in Conns, Break(c) PROVE ArrivalInv'
  <2>1. /\ \A e \in Conns \ {c} : whole'[e] = whole[e]
        /\ whole'[c] = FALSE /\ UNCHANGED <<session, state, job, wire>>
    BY <1>1, <1>10 DEF Break, TypeOK
  <2>2. Placed(c)'
    BY <2>1 DEF Placed, Present
  <2> QED
    BY <1>o, <2>1, <2>2 DEF session
<1>11. ASSUME NEW c \in Conns, NEW u \in Users, Login(c, u) PROVE ArrivalInv'
  <2> DEFINE q == Arrival(u, General)
  <2>1. /\ q \in Seq(Tasks) /\ Len(q) = 2
        /\ q[1] = [do |-> "fetch", room |-> General, limit |-> Recent]
        /\ q[2] = [do |-> "tell", room |-> General, item |-> Joined(u, General), but |-> u]
    BY ArrivalTasks, GeneralAssumption
  <2>2. Owes(c, q) /\ Put(c, You(General)) /\ UNCHANGED <<state, whole, said>> /\ state[c] = "open"
    BY <1>11 DEF Login, Idle
  <2> HIDE DEF q
  <2>3. job'[c] = q /\ \A d \in Conns \ {c} : job'[d] = job[d]
    BY <1>1, <2>1, <2>2, OwesTyped
  <2>4. /\ room'[c] = General
        /\ \A e \in Conns \ {c} : user'[e] = user[e] /\ room'[e] = room[e]
    BY <1>1, <1>11 DEF Login, TypeOK
  <2>5. You(General) \in Items /\ You(General).kind = "you"
    BY ItemKinds, GeneralAssumption DEF You
  <2>6. ASSUME NEW e \in Conns \ {c} PROVE Undisturbed(e)
    <3>1. frame'[e] = frame[e] /\ live[e] \subseteq live'[e]
      BY <1>1, <2>2, <2>5, PutKeeps
    <3> QED
      BY <2>2, <2>3, <2>4, <3>1 DEF Undisturbed
  <2>7. Placed(c)'
    <3> SUFFICES ASSUME Present(c)' PROVE AtReading(c)'
      BY DEF Placed
    <3>1. whole[c] /\ Open(c)
      BY <2>2 DEF Present, Open
    <3>2. frame' = [frame EXCEPT ![c] = None]
      BY <2>2, <2>5, <3>1 DEF Put
    <3>3. frame'[c] = None
      BY <1>1, <3>2 DEF TypeOK
    <3> QED
      BY <2>1, <2>3, <2>4, <3>3 DEF AtReading, Reading
  <2> QED
    BY <1>u, <2>6, <2>7 DEF ArrivalInv
<1>12. ASSUME NEW c \in Conns, NEW u \in Users, Private(c, u) PROVE ArrivalInv'
  <2> DEFINE q == Sends({c}, Newest)
  <2>1. Newest \in Items /\ Newest.kind = "message"
    BY <1>1, <1>12, NewestItem DEF Private, Says
  <2>2. /\ q \in Seq(Tasks) /\ Len(q) = 1
        /\ q[1] = [do |-> "write", to |-> {c}, item |-> Newest]
    BY <2>1, SendTask
  <2>3. Idle(c) /\ Owes(c, q) /\ UNCHANGED <<session, state, whole>>
    BY <1>12 DEF Private, Says
  <2> HIDE DEF q
  <2>4. job'[c] = q /\ \A d \in Conns \ {c} : job'[d] = job[d]
    BY <1>1, <2>2, <2>3, OwesTyped
  <2>5. ASSUME NEW e \in Conns PROVE frame'[e] = frame[e] /\ live[e] \subseteq live'[e]
    BY <1>1, <1>12, <2>1, PutKeeps DEF Private, IsNews
  <2>6. ASSUME NEW e \in Conns \ {c} PROVE Undisturbed(e)
    BY <2>3, <2>4, <2>5 DEF Undisturbed, session
  <2>7. Placed(c)'
    <3> SUFFICES ASSUME Present(c)' PROVE Placed(c)'
      BY DEF Placed
    <3>1. Present(c) /\ room'[c] = room[c]
      BY <2>3 DEF Present, session
    <3>2. Len(job'[c]) = 1 /\ job'[c][1].item.kind # "you"
      BY <2>1, <2>2, <2>4
    <3> QED
      BY <1>h, <2>3, <2>5, <3>1, <3>2
  <2> QED
    BY <1>u, <2>6, <2>7 DEF ArrivalInv
<1>13. ASSUME NEW c \in Conns, NEW r \in Rooms, Join(c, r) PROVE ArrivalInv'
  <2> DEFINE q == MoveJob(c, user[c], room[c], r)
  <2>1. user[c] \in Users /\ room[c] \in Rooms
    BY <1>1, <1>13 DEF Join, TypeOK
  <2>2. /\ q \in Seq(Tasks) /\ Len(q) = 4
        /\ q[1] = [do |-> "tell", room |-> room[c], item |-> Left(user[c], room[c]), but |-> user[c]]
        /\ q[2] = [do |-> "write", to |-> {c}, item |-> You(r)]
        /\ q[3] = [do |-> "fetch", room |-> r, limit |-> Recent]
        /\ q[4] = [do |-> "tell", room |-> r, item |-> Joined(user[c], r), but |-> user[c]]
    BY <2>1, MoveTasks
  <2>3. Owes(c, q) /\ UNCHANGED <<user, state, whole, wire>>
    BY <1>13 DEF Join, MoveJob
  <2> HIDE DEF q
  <2>4. job'[c] = q /\ \A d \in Conns \ {c} : job'[d] = job[d]
    BY <1>1, <2>2, <2>3, OwesTyped
  <2>5. room'[c] = r /\ \A e \in Conns \ {c} : room'[e] = room[e]
    BY <1>1, <1>13 DEF Join, TypeOK
  <2>6. /\ Len(job'[c]) = 4 /\ job'[c][1].do = "tell" /\ IsNews(job'[c][1].item)
        /\ job'[c][2] = Greeting(c)' /\ job'[c][3] = Reading(c)' /\ job'[c][4] = Telling(c)'
    BY <2>2, <2>3, <2>4, <2>5 DEF Greeting, Reading, Telling, Left, IsNews
  <2>7. ASSUME NEW k \in 1..(Len(job'[c]) - 3) PROVE k = 1
    BY <2>6, <2>7
  <2>8. AtGreeting(c)'
    BY <2>6, <2>7 DEF AtGreeting, IsNews
  <2>9. Placed(c)'
    BY <2>8 DEF Placed
  <2> QED
    BY <1>o, <2>3, <2>4, <2>5, <2>9
<1>14. ASSUME NEW c \in Conns, NEW n \in {0, HistoryMax + 1}, CmdHistory(c, n) PROVE ArrivalInv'
  <2> DEFINE k == IF n < 1 THEN 1 ELSE IF n > HistoryMax THEN HistoryMax ELSE n
             q == Fetch(room[c], k)
  <2>1. k \in Nat
    BY LimitsAssumption
  <2>2. Idle(c) /\ Owes(c, q) /\ UNCHANGED <<session, state, whole, wire>>
    BY <1>14 DEF CmdHistory
  <2> HIDE DEF k
  <2>3. /\ q \in Seq(Tasks) /\ Len(q) = 1
        /\ q[1] = [do |-> "fetch", room |-> room[c], limit |-> k]
    BY <1>1, <2>1, FetchTask DEF TypeOK
  <2> HIDE DEF q
  <2>4. job'[c] = q /\ \A d \in Conns \ {c} : job'[d] = job[d]
    BY <1>1, <2>2, <2>3, OwesTyped
  <2>5. Placed(c)'
    <3> SUFFICES ASSUME Present(c)' PROVE Placed(c)'
      BY DEF Placed
    <3>1. Present(c) /\ room'[c] = room[c] /\ frame'[c] = frame[c] /\ live[c] \subseteq live'[c]
      BY <2>2 DEF Present, session, wire
    <3>2. Len(job'[c]) = 1 /\ job'[c][1].do = "fetch"
      BY <2>3, <2>4
    <3> QED
      BY <1>h, <2>2, <3>1, <3>2
  <2> QED
    BY <1>o, <2>2, <2>4, <2>5 DEF session
<1>15. CASE UNCHANGED vars
  <2>1. ASSUME NEW e \in Conns PROVE Undisturbed(e)
    BY <1>15 DEF vars, session, wire, Undisturbed
  <2> QED
    BY <1>u, <2>1 DEF ArrivalInv
<1>16. ASSUME NEW c \in Conns, NEW u \in Users, PrivateRaises(c, u) PROVE ArrivalInv'
  BY <1>r, <1>16 DEF PrivateRaises
<1> QED
  BY <1>3, <1>4, <1>5, <1>6, <1>7, <1>8, <1>9, <1>10, <1>11, <1>12, <1>13, <1>14, <1>15, <1>16
    DEF DInv, Next, Step, Ask, Rest

\* Whatever the order in which messages are saved and broadcast and newcomers are
\* told, read their history and are sent it, a user at rest in a channel has, or
\* is about to get, every message of it but those that newer ones push out of the
\* history (server.py:422-434, 587-624).
THEOREM NothingMissed == Spec => []NoGap
<1>1. Init => DInv
  <2> SUFFICES ASSUME Init PROVE ArrivalInv
    BY OwedInit DEF DInv
  <2> QED
    BY DEF Init, ArrivalInv, Placed, Present
<1>2. DInv /\ [Next]_vars => DInv'
  BY OwedStep, ArrivalStep DEF DInv
<1>3. DInv => NoGap
  <2> SUFFICES ASSUME DInv, NEW c \in Conns, Settled(c), NEW i \in Rows(room[c])
               PROVE  \/ i \in live[c] \cup frame[c]
                      \/ Cardinality({j \in frame[c] : j > i}) >= Recent
                      \/ Coming(i, c)
                      \/ state[said[i].on] \in {"cut", "crashed"}
    BY DEF NoGap
  <2>1. Present(c) /\ job[c] = <<>> /\ Placed(c)
    BY DEF Settled, Idle, Present, DInv, ArrivalInv
  <2>2. AtHome(c)
    BY <2>1, IdleAtHome DEF DInv
  <2> QED
    BY <2>2 DEF AtHome, Covered
<1> QED
  BY <1>1, <1>2, <1>3, PTL DEF Spec

-----------------------------------------------------------------------------
(* Notices.                                                                 *)

\* The notice x was given to d.
Noted(d, x) == \E k \in DOMAIN notices[d] : notices[d][k] = x

\* A client that is told anew where it is has yet to tell its channel.
LEMMA ToldWhere ==
  ASSUME DInv, NEW d \in Conns, Present(d), NEW h \in Conns, SendOne(h, d),
         Head(job[h]).item.kind = "you"
  PROVE  h = d /\ AtGreeting(d) /\ ToTell(d)' /\ AtReading(d)'
<1> DEFINE t == job[d][1]
<1>1. Owed /\ TypeOK
  BY DEF DInv, Owed
<1>2. /\ Head(job[h]) = job[h][1] /\ OwedBy(h, job[h][1]) /\ d \in job[h][1].to
      /\ job[h][1].do = "write" /\ Doing(h, "write") /\ job[h] # <<>>
  BY <1>1, FirstSend DEF SendOne, Doing
<1>3. h = d /\ t.to = {d} /\ t.do = "write" /\ t.item.kind = "you"
  BY <1>2 DEF OwedBy, IsNews
<1>4. AtGreeting(d)
  <2>1. ~AtReading(d) /\ ~AtHistory(d)
    BY <1>3 DEF AtReading, AtHistory, Reading
  <2>2. ~AtHome(d)
    <3> SUFFICES ASSUME AtHome(d) PROVE FALSE
      OBVIOUS
    <3>1. Len(job[d]) = 1
      BY <1>1, <1>2, <1>3, OneTask
    <3> QED
      BY <1>3, <3>1 DEF AtHome
  <2> QED
    BY <2>1, <2>2 DEF DInv, ArrivalInv, Placed
<1>5. Len(job[d]) = 3 /\ t = Greeting(d)
  BY <1>1, <1>3, <1>4, GreetingFirst DEF IsNews
<1>6. job[d][2] = Reading(d) /\ job[d][3] = Telling(d)
  BY <1>4, <1>5 DEF AtGreeting
<1>7. /\ Instead(d, Sends({}, t.item)) /\ Put(d, t.item)
      /\ UNCHANGED <<user, room, state, whole>>
  <2>1. t.to \ {d} = {}
    BY <1>3
  <2> QED
    BY <1>2, <1>3, <2>1 DEF SendOne, session
<1>8. t.item \in Items
  BY <1>1, <1>2, <1>3, FirstSend
<1> HIDE DEF t
<1>9. Len(job'[d]) = 2 /\ job'[d][1] = job[d][2] /\ job'[d][2] = job[d][3]
  <2>1. Len(job'[d]) = Len(job[d]) - 1 /\ \A k \in 1..(Len(job[d]) - 1) : job'[d][k] = job[d][k + 1]
    BY <1>1, <1>2, <1>3, <1>7, <1>8, Replaced
  <2> QED
    BY <1>5, <2>1
<1>10. frame'[d] = None
  <2>1. whole[d] /\ Open(d)
    BY DEF Present, Open
  <2>2. frame' = [frame EXCEPT ![d] = None]
    BY <1>3, <1>7, <2>1 DEF Put
  <2> QED
    BY <1>1, <2>2 DEF TypeOK
<1>11. ToTell(d)'
  <2>1. 2 \in 1..Len(job'[d]) /\ job'[d][2] = Telling(d)'
    BY <1>6, <1>7, <1>9 DEF Telling
  <2> QED
    BY <2>1 DEF ToTell
<1>12. AtReading(d)'
  BY <1>6, <1>7, <1>9, <1>10 DEF AtReading, Reading, Telling
<1> QED
  BY <1>3, <1>4, <1>11, <1>12

\* What a step does to the notices of a client that is there.
LEMMA NoticesStep ==
  ASSUME DInv, [Next]_vars, NEW d \in Conns, Present(d)
  PROVE  \/ notices'[d] = notices[d]
         \/ \E h \in Conns : SendOne(h, d) /\ Head(job[h]).item \in Notices
                             /\ notices'[d] = Append(notices[d], Head(job[h]).item)
         \/ AtGreeting(d) /\ ToTell(d)' /\ AtReading(d)'
<1>1. Owed /\ TypeOK /\ UserInv
  BY DEF DInv, Owed
<1>2. ASSUME NEW h \in Conns, NEW e \in Conns, SendOne(h, e)
      PROVE  \/ notices'[d] = notices[d]
             \/ e = d /\ Head(job[h]).item \in Notices /\ notices'[d] = Append(notices[d], Head(job[h]).item)
             \/ AtGreeting(d) /\ ToTell(d)' /\ AtReading(d)'
  <2> DEFINE x == Head(job[h]).item
  <2>1. x \in Items /\ Put(e, x)
    BY <1>1, <1>2, FirstSend DEF SendOne
  <2>2. CASE e = d /\ x.kind = "you"
    BY <1>2, <2>2, ToldWhere
  <2>3. CASE e = d /\ x.kind \in {"joined", "left"}
    <3>1. x \in Notices
      BY <2>1, <2>3, ItemParts
    <3>2. whole[d] /\ Open(d)
      BY DEF Present, Open
    <3> HIDE DEF x
    <3>3. notices' = [notices EXCEPT ![d] = Append(@, x)]
      BY <2>1, <2>3, <3>2 DEF Put
    <3>4. notices'[d] = Append(notices[d], x)
      BY <1>1, <3>3 DEF TypeOK
    <3> QED
      BY <2>3, <3>1, <3>4 DEF x
  <2>4. CASE e # d \/ x.kind \in {"message", "history"}
    <3> HIDE DEF x
    <3> QED
      BY <1>1, <2>1, <2>4 DEF Put, TypeOK, wire
  <2> QED
    BY <2>1, <2>2, <2>3, <2>4, ItemParts
<1>3. ASSUME NEW h \in Conns, NEW u \in Users, Login(h, u) PROVE notices'[d] = notices[d]
  <2>1. h # d
    BY <1>3 DEF Login, Present
  <2> QED
    BY <1>1, <1>3, <2>1 DEF Login, Put, TypeOK, wire
<1>4. ASSUME NEW h \in Conns, NEW u \in Users, Private(h, u) PROVE notices'[d] = notices[d]
  <2>1. PICK e \in Conns : Put(e, Newest)
    BY <1>4 DEF Private
  <2> QED
    BY <1>1, <2>1 DEF Put, Newest, Message, wire
<1>5. CASE UNCHANGED notices
  BY <1>5
<1>6. ASSUME NEW h \in Conns, NEW e \in Conns, SendRaises(h, e) PROVE UNCHANGED notices
  BY <1>6 DEF SendRaises, Raise, wire
<1>7. ASSUME NEW h \in Conns,
             Snapshot(h) \/ ReadHistory(h) \/ Cleanup(h) \/ Logout(h) \/ Public(h) \/ Break(h)
      PROVE  UNCHANGED notices
  BY <1>7 DEF Snapshot, ReadHistory, Raise, Cleanup, Logout, Public, Break, wire
<1>8. ASSUME NEW h \in Conns, (\E r \in Rooms : Join(h, r)) \/ (\E n \in {0, HistoryMax + 1} : CmdHistory(h, n))
      PROVE  UNCHANGED notices
  BY <1>8 DEF Join, CmdHistory, wire
<1>9. CASE UNCHANGED vars
  BY <1>9 DEF vars, wire
<1>10. ASSUME NEW h \in Conns, NEW u \in Users, PrivateRaises(h, u) PROVE UNCHANGED notices
  BY <1>10 DEF PrivateRaises, Raise, wire
<1> QED
  BY <1>2, <1>3, <1>4, <1>5, <1>6, <1>7, <1>8, <1>9, <1>10 DEF Next, Step, Ask, Rest

\* What was noted stays so, unless the client is told anew where it is.
LEMMA NotedOn ==
  ASSUME DInv, [Next]_vars, NEW d \in Conns, Present(d), NEW x, Noted(d, x)
  PROVE  Noted(d, x)' \/ ToTell(d)'
<1>1. notices[d] \in Seq(Notices)
  BY DEF DInv, Owed, TypeOK
<1>2. CASE notices'[d] = notices[d]
  BY <1>2 DEF Noted
<1>3. ASSUME NEW y \in Notices, notices'[d] = Append(notices[d], y) PROVE Noted(d, x)'
  <2>1. PICK k \in DOMAIN notices[d] : notices[d][k] = x
    BY DEF Noted
  <2>2. k \in DOMAIN notices'[d] /\ notices'[d][k] = x
    BY <1>1, <1>3, <2>1
  <2> QED
    BY <2>2 DEF Noted
<1> QED
  BY <1>2, <1>3, NoticesStep

\* c stays logged in, or out, where it is.
Remains(c) == user'[c] = user[c] /\ room'[c] = room[c]

\* The handler of c moves on by one part: it lists the members to tell, reads the
\* history, or writes to one of those it still has to write to.
Going(c) ==
  \E D \in SUBSET Conns, x \in Items :
    /\ Instead(c, Sends(D, x)) /\ UNCHANGED <<user, room, state>>
    /\ LET t == job[c][1] IN
       \/ t.do = "tell" /\ x = t.item /\ D = Members(t.room, t.but)
       \/ t.do = "fetch"
       \/ t.do = "write" /\ x = t.item /\ \E d \in t.to : D = t.to \ {d} /\ Put(d, x)

\* It raises, out of a send or over its own history.
Failing(c) ==
  /\ user[c] # None => user'[c] = user[c]
  /\ state'[c] # "open"
  /\ state'[c] \in {"cut", "crashed"} \/ job[c][1].do = "fetch"

\* What a step does to a handler at work.
LEMMA WorkStep ==
  ASSUME Owed, [Next]_vars, NEW c \in Conns, job[c] # <<>>
  PROVE  \/ job'[c] = job[c] /\ user'[c] = user[c] /\ room'[c] = room[c]
         \/ Going(c)
         \/ Failing(c)
<1>1. TypeOK /\ UserInv /\ job[c] \in Seq(Tasks)
  BY DEF Owed, TypeOK
<1>f. /\ Head(job[c]) = job[c][1] /\ job[c][1] \in Tasks
  BY <1>1, FirstTask
<1> DEFINE t == job[c][1]
           Same == job'[c] = job[c] /\ user'[c] = user[c] /\ room'[c] = room[c]
<1>2. ASSUME Snapshot(c) PROVE Going(c)
  <2>1. t.do = "tell" /\ t.item \in Items
    BY <1>2, <1>f, TaskParts DEF Snapshot, Doing
  <2>2. Members(t.room, t.but) \in SUBSET Conns
    BY DEF Members
  <2>3. Instead(c, Sends(Members(t.room, t.but), t.item)) /\ UNCHANGED <<user, room, state>>
    BY <1>2, <1>f DEF Snapshot, session
  <2> QED
    BY <2>1, <2>2, <2>3 DEF Going
<1>3. ASSUME ReadHistory(c) PROVE Going(c) \/ Failing(c)
  <2> DEFINE ids == Latest(Rows(t.room), t.limit)
  <2>1. t.do = "fetch"
    BY <1>3, <1>f DEF ReadHistory, Doing
  <2>2. ids \in SUBSET (1..MaxSaid)
    BY <1>1, BoundsAssumption DEF Latest, Rows, Ids, TypeOK
  <2>3. History(ids) \in Items /\ {c} \in SUBSET Conns
    BY <2>2, ItemKinds
  <2>4. \/ Raise(c, "error")
        \/ Instead(c, Sends({c}, History(ids))) /\ UNCHANGED <<user, room, state>>
    BY <1>3, <1>f DEF ReadHistory, session
  <2> HIDE DEF ids
  <2>5. CASE Raise(c, "error")
    BY <1>1, <2>1, <2>5 DEF Raise, Failing, session, TypeOK
  <2>6. CASE Instead(c, Sends({c}, History(ids))) /\ UNCHANGED <<user, room, state>>
    BY <2>1, <2>3, <2>6 DEF Going
  <2> QED
    BY <2>4, <2>5, <2>6
<1>4. ASSUME NEW d \in Conns, SendOne(c, d) PROVE Going(c)
  <2>1. /\ t.do = "write" /\ t.to \in SUBSET Conns /\ t.item \in Items /\ d \in t.to
        /\ t.to \ {d} \in SUBSET Conns
    BY <1>4, <1>f, TaskParts DEF SendOne, Doing
  <2>2. /\ Instead(c, Sends(t.to \ {d}, t.item)) /\ Put(d, t.item)
        /\ UNCHANGED <<user, room, state>>
    BY <1>4, <1>f DEF SendOne, session
  <2> QED
    BY <2>1, <2>2 DEF Going
<1>5. ASSUME NEW d \in Conns, SendRaises(c, d) PROVE Failing(c)
  BY <1>1, <1>5 DEF SendRaises, Raise, Failing, session, TypeOK
<1>6. ~Idle(c) /\ ~Cleanup(c)
  BY <1>1 DEF Idle, Cleanup, UserInv
<1>7. ASSUME NEW e \in Conns, e # c, Step(e) PROVE Same
  <2>1. ASSUME NEW tasks, Owes(e, tasks) PROVE job'[c] = job[c]
    BY <1>1, <1>7, <2>1 DEF Owes, TypeOK
  <2>2. CASE Snapshot(e) \/ ReadHistory(e) \/ \E d \in Conns : SendOne(e, d) \/ SendRaises(e, d)
    BY <2>1, <2>2 DEF Snapshot, ReadHistory, SendOne, SendRaises, Raise, Instead, session
  <2>3. CASE Cleanup(e)
    BY <1>1, <1>7, <2>1, <2>3 DEF Cleanup, TypeOK
  <2> QED
    BY <1>7, <2>2, <2>3 DEF Step
<1>8. ASSUME NEW e \in Conns, e # c, Ask(e) PROVE Same
  <2>1. ASSUME NEW tasks, Owes(e, tasks) PROVE job'[c] = job[c]
    BY <1>1, <1>8, <2>1 DEF Owes, TypeOK
  <2>2. CASE Logout(e) \/ Public(e) \/ Break(e)
    BY <1>1, <1>8, <2>1, <2>2 DEF Logout, Public, Break, TypeOK, session
  <2>3. ASSUME NEW u \in Users, Login(e, u) \/ Private(e, u) PROVE Same
    BY <1>1, <1>8, <2>1, <2>3 DEF Login, Private, TypeOK, session
  <2>4. ASSUME NEW r \in Rooms, Join(e, r) PROVE Same
    BY <1>1, <1>8, <2>1, <2>4 DEF Join, TypeOK, session
  <2>5. ASSUME NEW n \in {0, HistoryMax + 1}, CmdHistory(e, n) PROVE Same
    BY <1>1, <1>8, <2>1, <2>5 DEF CmdHistory, TypeOK, session
  <2>6. ASSUME NEW u \in Users, PrivateRaises(e, u) PROVE Same
    BY <1>1, <2>6, EchoLost
  <2> QED
    BY <1>8, <2>2, <2>3, <2>4, <2>5, <2>6 DEF Ask
<1>9. ASSUME Ask(c) PROVE Same
  <2>1. Break(c)
    BY <1>6, <1>9 DEF Ask, Logout, Public, Says, Login, Private, PrivateRaises, Join, CmdHistory
  <2> QED
    BY <2>1 DEF Break, session
<1>10. CASE UNCHANGED vars
  BY <1>10 DEF vars, session
<1> QED
  BY <1>2, <1>3, <1>4, <1>5, <1>6, <1>7, <1>8, <1>9, <1>10 DEF Next, Step, Rest

\* How the job of a handler goes on: each task moves up, or stays where it is.
LEMMA GoingOn ==
  ASSUME Owed, NEW c \in Conns, job[c] # <<>>, Going(c), NEW k \in 2..Len(job[c])
  PROVE  \E i \in 1..Len(job'[c]) : job'[c][i] = job[c][k]
<1>1. PICK D \in SUBSET Conns : \E x \in Items : Instead(c, Sends(D, x))
  BY DEF Going
<1>2. PICK x \in Items : Instead(c, Sends(D, x))
  BY <1>1
<1>3. PICK n \in Nat : n = Len(job[c])
  BY FirstTask DEF Owed
<1>4. CASE D = {}
  <2>1. Len(job'[c]) = n - 1 /\ \A i \in 1..(n - 1) : job'[c][i] = job[c][i + 1]
    BY <1>2, <1>3, <1>4, Replaced DEF Owed
  <2>2. k - 1 \in 1..(n - 1) /\ (k - 1) + 1 = k
    BY <1>3
  <2> QED
    BY <2>1, <2>2
<1>5. CASE D # {}
  <2>1. Len(job'[c]) = n /\ \A i \in 2..n : job'[c][i] = job[c][i]
    BY <1>2, <1>3, <1>5, Replaced DEF Owed
  <2>2. k \in 1..n /\ k \in 2..n
    BY <1>3
  <2> QED
    BY <2>1, <2>2
<1> QED
  BY <1>4, <1>5

\* What comes of the first: the members are to be written to, or all but one.
LEMMA GoingFirst ==
  ASSUME Owed, NEW c \in Conns, job[c] # <<>>, Going(c), job[c][1].do # "fetch",
         NEW d \in Conns,
         job[c][1].do = "tell" => d \in Members(job[c][1].room, job[c][1].but),
         job[c][1].do = "write" => d \in job[c][1].to
  PROVE  \/ \E i \in 1..Len(job'[c]) :
              job'[c][i].do = "write" /\ job'[c][i].item = job[c][1].item /\ d \in job'[c][i].to
         \/ job[c][1].do = "write" /\ Put(d, job[c][1].item)
<1> DEFINE t == job[c][1]
<1>1. PICK D \in SUBSET Conns :
        \E x \in Items :
          /\ Instead(c, Sends(D, x))
          /\ \/ t.do = "tell" /\ x = t.item /\ D = Members(t.room, t.but)
             \/ t.do = "fetch"
             \/ t.do = "write" /\ x = t.item /\ \E e \in t.to : D = t.to \ {e} /\ Put(e, x)
  BY DEF Going
<1>2. /\ Instead(c, Sends(D, t.item)) /\ t.item \in Items
      /\ \/ t.do = "tell" /\ D = Members(t.room, t.but)
         \/ t.do = "write" /\ \E e \in t.to : D = t.to \ {e} /\ Put(e, t.item)
  BY <1>1
<1>3. CASE d \in D
  <2>1. Len(job'[c]) = Len(job[c]) /\ job'[c][1] = [do |-> "write", to |-> D, item |-> t.item]
    BY <1>2, <1>3, Replaced DEF Owed
  <2>2. 1 \in 1..Len(job'[c])
    BY <2>1, FirstTask DEF Owed
  <2> QED
    BY <1>3, <2>1, <2>2
<1>4. CASE d \notin D
  BY <1>2, <1>4
<1> QED
  BY <1>3, <1>4

\* c is logged in, and the step leaves it where it is.
Stays(c) == Present(c) /\ Present(c)' /\ user'[c] = user[c] /\ room'[c] = room[c]

\* Who is there after a step was there before, or has just come and has yet to
\* tell its channel.
LEMMA Newcomer ==
  ASSUME Owed, [Next]_vars, NEW c \in Conns, Present(c)'
  PROVE  Stays(c) \/ (ToTell(c)' /\ (AtGreeting(c)' \/ notices'[c] = <<>>))
<1>1. TypeOK /\ UserInv
  BY DEF Owed
<1>2. (whole'[c] => whole[c]) /\ (state'[c] = "open" => state[c] = "open")
  <2>1. ASSUME NEW h \in Conns, Cleanup(h)
        PROVE  (whole'[c] => whole[c]) /\ (state'[c] = "open" => state[c] = "open")
    BY <1>1, <2>1 DEF Cleanup, TypeOK
  <2>2. ASSUME NEW h \in Conns, NEW how \in {"error", "cut"}, Raise(h, how)
        PROVE  (whole'[c] => whole[c]) /\ (state'[c] = "open" => state[c] = "open")
    BY <1>1, <2>2 DEF Raise, TypeOK
  <2>3. ASSUME NEW h \in Conns, Break(h)
        PROVE  (whole'[c] => whole[c]) /\ (state'[c] = "open" => state[c] = "open")
    BY <1>1, <2>3 DEF Break, TypeOK
  <2>4. ASSUME NEW h \in Conns, Step(h), ~Cleanup(h)
        PROVE  (whole'[c] => whole[c]) /\ (state'[c] = "open" => state[c] = "open")
    BY <2>2, <2>4 DEF Step, Snapshot, ReadHistory, SendOne, SendRaises
  <2>5. ASSUME NEW h \in Conns, Ask(h), ~Break(h)
        PROVE  (whole'[c] => whole[c]) /\ (state'[c] = "open" => state[c] = "open")
    <3>1. CASE \E u \in Users : PrivateRaises(h, u)
      BY <2>2, <3>1 DEF PrivateRaises
    <3>2. CASE ~\E u \in Users : PrivateRaises(h, u)
      <4>1. UNCHANGED <<whole, state>>
        BY <2>5, <3>2 DEF Ask, Logout, Public, Login, Private, Join, CmdHistory
      <4> QED
        BY <4>1
    <3> QED
      BY <3>1, <3>2
  <2>6. CASE UNCHANGED vars
    BY <2>6 DEF vars
  <2> QED
    BY <2>1, <2>3, <2>4, <2>5, <2>6 DEF Next, Rest
<1>3. ASSUME user'[c] = user[c], room'[c] = room[c] PROVE Stays(c)
  BY <1>2, <1>3 DEF Stays, Present
<1>4. ASSUME NEW h \in Conns, Step(h) PROVE Stays(c)
  <2>1. CASE Cleanup(h)
    <3>1. h # c
      BY <1>1, <2>1 DEF Cleanup, Present, TypeOK
    <3> QED
      BY <1>1, <1>3, <2>1, <3>1 DEF Cleanup, TypeOK
  <2>2. CASE ~Cleanup(h)
    <3>1. UNCHANGED session
      BY <1>4, <2>2 DEF Step, Snapshot, ReadHistory, SendOne, SendRaises, Raise
    <3> QED
      BY <1>3, <3>1 DEF session
  <2> QED
    BY <2>1, <2>2
<1>5. ASSUME NEW h \in Conns, Logout(h) PROVE Stays(c)
  <2>1. h # c
    BY <1>1, <1>5 DEF Logout, Present, TypeOK
  <2> QED
    BY <1>1, <1>3, <1>5, <2>1 DEF Logout, TypeOK
<1>6. ASSUME NEW h \in Conns,
             \/ Public(h) \/ Break(h) \/ \E n \in {0, HistoryMax + 1} : CmdHistory(h, n)
             \/ \E u \in Users : Private(h, u) \/ PrivateRaises(h, u)
      PROVE  Stays(c)
  <2>1. UNCHANGED session
    BY <1>6 DEF Public, Break, Private, PrivateRaises, Raise, CmdHistory
  <2> QED
    BY <1>3, <2>1 DEF session
<1>7. ASSUME NEW h \in Conns, NEW u \in Users, Login(h, u)
      PROVE  Stays(c) \/ (ToTell(c)' /\ notices'[c] = <<>>)
  <2>1. CASE h # c
    BY <1>1, <1>3, <1>7, <2>1 DEF Login, TypeOK
  <2>2. CASE h = c
    <3> DEFINE q == Arrival(u, General)
    <3>1. /\ q \in Seq(Tasks) /\ Len(q) = 2
          /\ q[2] = [do |-> "tell", room |-> General, item |-> Joined(u, General), but |-> u]
      BY ArrivalTasks, GeneralAssumption
    <3>2. Owes(c, q) /\ Put(c, You(General)) /\ state[c] = "open" /\ UNCHANGED whole
      BY <1>7, <2>2 DEF Login, Idle
    <3>3. user'[c] = u /\ room'[c] = General
      BY <1>1, <1>7, <2>2 DEF Login, TypeOK
    <3> HIDE DEF q
    <3>4. job'[c] = q
      BY <1>1, <3>1, <3>2, OwesTyped
    <3>5. ToTell(c)'
      <4>1. Len(job'[c]) = 2 /\ job'[c][2] = q[2]
        BY <3>1, <3>4
      <4>2. q[2] = Telling(c)'
        BY <3>1, <3>3 DEF Telling
      <4>3. 2 \in 1..Len(job'[c]) /\ job'[c][2] = Telling(c)'
        BY <4>1, <4>2
      <4> QED
        BY <4>3 DEF ToTell
    <3>6. You(General).kind = "you" /\ whole[c] /\ Open(c)
      BY <3>2 DEF You, Present, Open
    <3>7. notices' = [notices EXCEPT ![c] = <<>>]
      BY <3>2, <3>6 DEF Put
    <3> QED
      BY <1>1, <3>5, <3>7 DEF TypeOK
  <2> QED
    BY <2>1, <2>2
<1>8. ASSUME NEW h \in Conns, NEW r \in Rooms, Join(h, r)
      PROVE  Stays(c) \/ (ToTell(c)' /\ AtGreeting(c)')
  <2>1. CASE h # c
    BY <1>1, <1>3, <1>8, <2>1 DEF Join, TypeOK
  <2>2. CASE h = c
    <3> DEFINE q == MoveJob(c, user[c], room[c], r)
    <3>1. user[c] \in Users /\ room[c] \in Rooms
      BY <1>1, <1>8, <2>2 DEF Join, TypeOK
    <3>2. /\ q \in Seq(Tasks) /\ Len(q) = 4
          /\ q[1] = [do |-> "tell", room |-> room[c], item |-> Left(user[c], room[c]), but |-> user[c]]
          /\ q[2] = [do |-> "write", to |-> {c}, item |-> You(r)]
          /\ q[3] = [do |-> "fetch", room |-> r, limit |-> Recent]
          /\ q[4] = [do |-> "tell", room |-> r, item |-> Joined(user[c], r), but |-> user[c]]
      BY <3>1, MoveTasks
    <3>3. Owes(c, q) /\ UNCHANGED user
      BY <1>8, <2>2 DEF Join, MoveJob
    <3> HIDE DEF q
    <3>4. job'[c] = q
      BY <1>1, <3>2, <3>3, OwesTyped
    <3>5. room'[c] = r
      BY <1>1, <1>8, <2>2 DEF Join, TypeOK
    <3>6. /\ Len(job'[c]) = 4 /\ job'[c][1].do = "tell" /\ IsNews(job'[c][1].item)
          /\ job'[c][2] = Greeting(c)' /\ job'[c][3] = Reading(c)' /\ job'[c][4] = Telling(c)'
      BY <3>2, <3>3, <3>4, <3>5 DEF Greeting, Reading, Telling, Left, IsNews
    <3>7. ASSUME NEW k \in 1..(Len(job'[c]) - 3) PROVE k = 1
      BY <3>6, <3>7
    <3>8. AtGreeting(c)'
      BY <3>6, <3>7 DEF AtGreeting, IsNews
    <3>9. ToTell(c)'
      <4>1. 4 \in 1..Len(job'[c])
        BY <3>6
      <4> QED
        BY <3>6, <4>1 DEF ToTell
    <3> QED
      BY <3>8, <3>9
  <2> QED
    BY <2>1, <2>2
<1>9. CASE UNCHANGED vars
  BY <1>3, <1>9 DEF vars, session
<1> QED
  BY <1>4, <1>5, <1>6, <1>7, <1>8, <1>9 DEF Next, Ask, Rest

\* A client that has yet to tell its channel that it came still has to, or tells
\* the others there one by one.
LEMMA TellOn ==
  ASSUME DInv, [Next]_vars, NEW c \in Conns, NEW d \in Conns, c # d, Stays(c), Stays(d),
         room[c] = room[d], ToTell(c)
  PROVE  ToTell(c)' \/ Hears(d, c)'
<1>1. Owed /\ TypeOK /\ UserInv
  BY DEF DInv, Owed
<1>2. PICK k \in 1..Len(job[c]) : job[c][k] = Telling(c)
  BY DEF ToTell
<1>3. job[c] # <<>> /\ Telling(c)' = Telling(c)
  BY <1>2 DEF Stays, Telling
<1>4. CASE job'[c] = job[c]
  BY <1>2, <1>3, <1>4 DEF ToTell
<1>5. CASE Going(c)
  <2>1. CASE k # 1
    <3>1. k \in 2..Len(job[c])
      BY <1>2, <2>1
    <3>2. \E i \in 1..Len(job'[c]) : job'[c][i] = job[c][k]
      BY <1>1, <1>3, <1>5, <3>1, GoingOn
    <3> QED
      BY <1>2, <1>3, <3>2 DEF ToTell
  <2>2. CASE k = 1
    <3>1. job[c][1] = Telling(c)
      BY <1>2, <2>2
    <3>2. d \in Members(room[c], user[c])
      BY <1>1 DEF Members, Stays, Present, UserInv
    <3>3. PICK i \in 1..Len(job'[c]) :
            job'[c][i].do = "write" /\ job'[c][i].item = Joined(user[c], room[c]) /\ d \in job'[c][i].to
      BY <1>1, <1>3, <1>5, <3>1, <3>2, GoingFirst DEF Telling
    <3>4. Joined(user[c], room[c])' = Joined(user[c], room[c])
      BY DEF Stays, Joined
    <3> QED
      BY <3>3, <3>4 DEF Hears, Stays
  <2> QED
    BY <2>1, <2>2
<1>6. ~Failing(c)
  BY DEF Failing, Stays, Present
<1> QED
  BY <1>1, <1>3, <1>4, <1>5, <1>6, WorkStep

\* Who was told, or is about to be, that another came has been told, unless it
\* starts anew itself.
LEMMA HearOn ==
  ASSUME DInv, [Next]_vars, NEW c \in Conns, NEW d \in Conns, Stays(c), Stays(d), Hears(d, c)
  PROVE  Hears(d, c)' \/ ToTell(d)'
<1>x. PICK x : x = Joined(user[c], room[c])
  OBVIOUS
<1>1. Owed /\ TypeOK
  BY DEF DInv, Owed
<1>2. Joined(user[c], room[c])' = x /\ x.kind = "joined"
  BY <1>x DEF Stays, Joined
<1>3. CASE Noted(d, x)
  <2>1. Noted(d, x)' \/ ToTell(d)'
    BY <1>3, NotedOn DEF Stays
  <2> QED
    BY <1>2, <2>1 DEF Noted, Hears
<1>4. ASSUME NEW k \in 1..Len(job[c]),
             job[c][k].do = "write", job[c][k].item = x, d \in job[c][k].to
      PROVE  Hears(d, c)'
  <2>1. job[c] # <<>>
    OBVIOUS
  <2>2. ASSUME NEW i \in 1..Len(job'[c]),
               job'[c][i].do = "write", job'[c][i].item = x, d \in job'[c][i].to
        PROVE  Hears(d, c)'
    BY <1>2, <2>2 DEF Hears, Stays
  <2>3. CASE job'[c] = job[c]
    BY <1>4, <2>2, <2>3
  <2>4. CASE Going(c)
    <3>1. CASE k # 1
      <4>1. k \in 2..Len(job[c])
        BY <1>4, <3>1
      <4>2. \E i \in 1..Len(job'[c]) : job'[c][i] = job[c][k]
        BY <1>1, <2>1, <2>4, <4>1, GoingOn
      <4> QED
        BY <1>4, <2>2, <4>2
    <3>2. CASE k = 1
      <4>1. \/ \E i \in 1..Len(job'[c]) :
                 job'[c][i].do = "write" /\ job'[c][i].item = x /\ d \in job'[c][i].to
            \/ Put(d, x)
        BY <1>1, <1>4, <2>1, <2>4, <3>2, GoingFirst
      <4>2. ASSUME Put(d, x) PROVE Hears(d, c)'
        <5>1. whole[d] /\ Open(d)
          BY DEF Stays, Present, Open
        <5>2. notices' = [notices EXCEPT ![d] = Append(@, x)]
          BY <1>2, <4>2, <5>1 DEF Put
        <5>3. notices[d] \in Seq(Notices) /\ notices'[d] = Append(notices[d], x)
          BY <1>1, <5>2 DEF TypeOK
        <5>4. Len(notices[d]) + 1 \in DOMAIN notices'[d] /\ notices'[d][Len(notices[d]) + 1] = x
          BY <5>3
        <5> QED
          BY <1>2, <5>4 DEF Hears, Stays
      <4> QED
        BY <2>2, <4>1, <4>2
    <3> QED
      BY <3>1, <3>2
  <2>5. ~Failing(c)
    BY DEF Failing, Stays, Present
  <2> QED
    BY <1>1, <2>1, <2>3, <2>4, <2>5, WorkStep
<1> QED
  BY <1>x, <1>3, <1>4 DEF Hears, Noted

\* Of two users in a channel one hears of the other.
LEMMA MeetStep ==
  ASSUME DInv, MeetInv, [Next]_vars
  PROVE  MeetInv'
<1> SUFFICES ASSUME NEW c \in Conns, NEW d \in Conns, c # d, Present(c)', Present(d)',
                    room'[c] = room'[d]
             PROVE  (ToTell(c) \/ ToTell(d) \/ Hears(c, d) \/ Hears(d, c))'
  BY DEF MeetInv
<1>1. CASE ~Stays(c)
  BY <1>1, Newcomer DEF DInv
<1>2. CASE ~Stays(d)
  BY <1>2, Newcomer DEF DInv
<1>3. CASE Stays(c) /\ Stays(d)
  <2>1. room[c] = room[d]
    BY <1>3 DEF Stays
  <2>2. ToTell(c) \/ ToTell(d) \/ Hears(c, d) \/ Hears(d, c)
    BY <1>3, <2>1 DEF MeetInv, Stays
  <2> QED
    BY <1>3, <2>1, <2>2, TellOn, HearOn
<1> QED
  BY <1>1, <1>2, <1>3

\* The first thing the handler of d has to do is to tell the channel that it left.
Farewells(d) ==
  1 \in 1..Len(job'[d]) /\ job'[d][1].do = "tell" /\ job'[d][1].item = Left(user[d], room[d])

\* Who leaves a channel has that to tell, first of all.
LEMMA Leaver ==
  ASSUME Owed, [Next]_vars, NEW d \in Conns, user[d] # None
  PROVE  Remains(d) \/ Farewells(d)
<1>1. TypeOK /\ UserInv
  BY DEF Owed
<1>t. ASSUME NEW q \in Seq(Tasks), job'[d] = q, Len(q) \in {1, 4}, q[1].do = "tell",
             q[1].item = Left(user[d], room[d])
      PROVE  Farewells(d)
  <2>1. 1 \in 1..Len(q)
    BY <1>t
  <2> QED
    BY <1>t, <2>1 DEF Farewells
<1>2. ASSUME NEW b \in {user[d], None}, Owes(d, Tell(room[d], Left(user[d], room[d]), b))
      PROVE  Farewells(d)
  <2> DEFINE q == Tell(room[d], Left(user[d], room[d]), b)
  <2>1. /\ q \in Seq(Tasks) /\ Len(q) = 1
        /\ q[1] = [do |-> "tell", room |-> room[d], item |-> Left(user[d], room[d]), but |-> b]
    BY <1>1, <1>2, Farewell
  <2>2. Owes(d, q)
    BY <1>2
  <2> HIDE DEF q
  <2>3. job'[d] = q
    BY <1>1, <2>1, <2>2, OwesTyped
  <2>4. Len(q) \in {1, 4} /\ q[1].do = "tell" /\ q[1].item = Left(user[d], room[d])
    BY <2>1
  <2> QED
    BY <1>t, <2>1, <2>3, <2>4
<1>3. ASSUME NEW h \in Conns, Cleanup(h) PROVE Remains(d) \/ Farewells(d)
  <2>1. CASE h = d
    BY <1>2, <1>3, <2>1 DEF Cleanup
  <2>2. CASE h # d
    BY <1>1, <1>3, <2>2 DEF Cleanup, TypeOK, Remains
  <2> QED
    BY <2>1, <2>2
<1>4. ASSUME NEW h \in Conns, Logout(h) PROVE Remains(d) \/ Farewells(d)
  <2>1. CASE h = d
    BY <1>2, <1>4, <2>1 DEF Logout
  <2>2. CASE h # d
    BY <1>1, <1>4, <2>2 DEF Logout, TypeOK, Remains
  <2> QED
    BY <2>1, <2>2
<1>5. ASSUME NEW h \in Conns, NEW r \in Rooms, Join(h, r) PROVE Remains(d) \/ Farewells(d)
  <2>1. CASE h = d
    <3> DEFINE q == MoveJob(d, user[d], room[d], r)
    <3>1. user[d] \in Users /\ room[d] \in Rooms
      BY <1>1 DEF TypeOK
    <3>2. /\ q \in Seq(Tasks) /\ Len(q) = 4
          /\ q[1] = [do |-> "tell", room |-> room[d], item |-> Left(user[d], room[d]), but |-> user[d]]
          /\ q[2] = [do |-> "write", to |-> {d}, item |-> You(r)]
          /\ q[3] = [do |-> "fetch", room |-> r, limit |-> Recent]
          /\ q[4] = [do |-> "tell", room |-> r, item |-> Joined(user[d], r), but |-> user[d]]
      BY <3>1, MoveTasks
    <3>3. Owes(d, q)
      BY <1>5, <2>1 DEF Join, MoveJob
    <3> HIDE DEF q
    <3>4. job'[d] = q
      BY <1>1, <3>2, <3>3, OwesTyped
    <3>5. Len(q) \in {1, 4} /\ q[1].do = "tell" /\ q[1].item = Left(user[d], room[d])
      BY <3>2
    <3> QED
      BY <1>t, <3>2, <3>4, <3>5
  <2>2. CASE h # d
    BY <1>1, <1>5, <2>2 DEF Join, TypeOK, Remains
  <2> QED
    BY <2>1, <2>2
<1>6. ASSUME NEW h \in Conns, NEW u \in Users, Login(h, u) PROVE Remains(d)
  <2>1. h # d
    BY <1>6 DEF Login
  <2> QED
    BY <1>1, <1>6, <2>1 DEF Login, TypeOK, Remains
<1>7. ASSUME NEW h \in Conns, Step(h), ~Cleanup(h) PROVE Remains(d)
  BY <1>7 DEF Step, Snapshot, ReadHistory, SendOne, SendRaises, Raise, session, Remains
<1>8. ASSUME NEW h \in Conns,
             \/ Public(h) \/ Break(h) \/ \E n \in {0, HistoryMax + 1} : CmdHistory(h, n)
             \/ \E u \in Users : Private(h, u) \/ PrivateRaises(h, u)
      PROVE  Remains(d)
  BY <1>8 DEF Public, Break, Private, PrivateRaises, Raise, CmdHistory, session, Remains
<1>9. CASE UNCHANGED vars
  BY <1>9 DEF vars, session, Remains
<1>10. ASSUME NEW h \in Conns, Step(h) PROVE Remains(d) \/ Farewells(d)
  BY <1>3, <1>7, <1>10
<1>11. ASSUME NEW h \in Conns, Ask(h) PROVE Remains(d) \/ Farewells(d)
  BY <1>4, <1>5, <1>6, <1>8, <1>11 DEF Ask
<1> QED
  BY <1>9, <1>10, <1>11 DEF Next, Rest

\* A handler that was ended by a send to another client stays so.
LEMMA CutStays ==
  ASSUME TypeOK, [Next]_vars, SomeCut
  PROVE  SomeCut'
<1>1. PICK d \in Conns : state[d] \in {"cut", "crashed"}
  BY DEF SomeCut
<1>2. ASSUME NEW h \in Conns, NEW how \in {"error", "cut"}, Raise(h, how)
      PROVE  state'[d] \in {"cut", "crashed"}
  <2>1. state' = [state EXCEPT ![h] = IF @ = "open" THEN how ELSE "crashed"]
    BY <1>2 DEF Raise
  <2>2. CASE h = d
    BY <1>1, <2>1, <2>2 DEF TypeOK
  <2>3. CASE h # d
    BY <1>1, <2>1, <2>3 DEF TypeOK
  <2> QED
    BY <2>2, <2>3
<1>3. ASSUME NEW h \in Conns, Cleanup(h) PROVE state'[d] \in {"cut", "crashed"}
  <2>1. state' = [state EXCEPT ![h] = IF @ = "cut" THEN "crashed" ELSE "closed"]
    BY <1>3 DEF Cleanup
  <2>2. CASE h = d /\ state[d] = "cut"
    BY <1>1, <2>1, <2>2 DEF TypeOK
  <2>3. CASE h = d /\ state[d] # "cut"
    BY <1>1, <1>3, <2>3 DEF Cleanup, Idle
  <2>4. CASE h # d
    BY <1>1, <2>1, <2>4 DEF TypeOK
  <2> QED
    BY <2>2, <2>3, <2>4
<1>4. ASSUME NEW h \in Conns, Step(h) PROVE state'[d] \in {"cut", "crashed"}
  BY <1>1, <1>2, <1>3, <1>4 DEF Step, Snapshot, ReadHistory, SendOne, SendRaises
<1>5. ASSUME NEW h \in Conns, Ask(h), state' # state PROVE state'[d] \in {"cut", "crashed"}
  <2>1. \E u \in Users : PrivateRaises(h, u)
    BY <1>5 DEF Ask, Logout, Public, Break, Login, Private, Join, CmdHistory
  <2> QED
    BY <1>2, <2>1 DEF PrivateRaises
<1> QED
  BY <1>1, <1>4, <1>5 DEF Next, Rest, vars, SomeCut

\* A user that is there, or whose going c is about to hear of, is so after the
\* step, unless c has just heard of it.
LEMMA GoneStep ==
  ASSUME Owed, [Next]_vars, NEW c \in Conns, Stays(c), NEW u \in Users, NEW r, r = room[c],
         Here(u, r) \/ LeftComing(u, r, c) \/ SomeCut
  PROVE  \/ (Here(u, r) \/ LeftComing(u, r, c) \/ SomeCut)'
         \/ notices'[c] = Append(notices[c], Left(u, r))
<1>1. TypeOK /\ UserInv /\ JobInv
  BY DEF Owed
<1>2. ASSUME NEW d \in Conns, NEW k \in 1..Len(job'[d]), job'[d][k].do # "fetch",
             job'[d][k].item = Left(u, r), job'[d][k].do = "write" => c \in job'[d][k].to
      PROVE  LeftComing(u, r, c)'
  BY <1>2 DEF LeftComing
<1>3. CASE SomeCut
  BY <1>1, <1>3, CutStays
<1>4. ASSUME NEW d \in Conns, user[d] = u, room[d] = r
      PROVE  Here(u, r)' \/ LeftComing(u, r, c)'
  <2>1. user[d] # None
    BY <1>4, NoneAssumption
  <2>2. CASE Remains(d)
    BY <1>4, <2>2 DEF Here, Remains
  <2>3. CASE Farewells(d)
    BY <1>2, <1>4, <2>3 DEF Farewells
  <2> QED
    BY <2>1, <2>2, <2>3, Leaver
<1>5. ASSUME NEW d \in Conns, NEW k \in 1..Len(job[d]), job[d][k].do # "fetch",
             job[d][k].item = Left(u, r), job[d][k].do = "write" => c \in job[d][k].to
      PROVE  \/ (Here(u, r) \/ LeftComing(u, r, c) \/ SomeCut)'
             \/ notices'[c] = Append(notices[c], Left(u, r))
  <2>1. job[d] # <<>> /\ Left(u, r).kind = "left" /\ Left(u, r).room = r /\ Left(u, r).who = u
    BY DEF Left
  <2>2. OwedNotice(d, k, job[d][k])
    BY <1>1 DEF JobInv, InOrder
  <2>3. /\ k = 1
        /\ job[d][1].do = "tell" => job[d][1].room = r /\ job[d][1].but \in {u, None}
    BY <1>5, <2>1, <2>2 DEF OwedNotice
  <2>4. job[d][1] \in Tasks
    BY <1>1, <2>1, FirstTask
  <2>5. CASE job'[d] = job[d]
    BY <1>2, <1>5, <2>5
  <2>6. CASE Failing(d)
    BY <1>5, <2>3, <2>6 DEF Failing, SomeCut
  <2>7. CASE Going(d)
    <3>1. CASE job[d][1].do = "tell" /\ c \notin Members(job[d][1].room, job[d][1].but)
      <4>1. user[c] = u
        BY <2>3, <3>1 DEF Members, Stays, Present
      <4> QED
        BY <1>4, <4>1
    <3>2. CASE job[d][1].do = "tell" => c \in Members(job[d][1].room, job[d][1].but)
      <4>1. job[d][1].do = "write" => c \in job[d][1].to
        BY <1>5, <2>3
      <4>2. \/ \E i \in 1..Len(job'[d]) :
                 job'[d][i].do = "write" /\ job'[d][i].item = job[d][1].item /\ c \in job'[d][i].to
            \/ Put(c, job[d][1].item)
        BY <1>5, <2>1, <2>3, <2>7, <3>2, <4>1, GoingFirst
      <4>3. ASSUME Put(c, Left(u, r)) PROVE notices'[c] = Append(notices[c], Left(u, r))
        <5>1. whole[c] /\ Open(c)
          BY DEF Stays, Present, Open
        <5>2. notices' = [notices EXCEPT ![c] = Append(@, Left(u, r))]
          BY <2>1, <4>3, <5>1 DEF Put
        <5> QED
          BY <1>1, <5>2 DEF TypeOK
      <4>4. job[d][1].item = Left(u, r)
        BY <1>5, <2>3
      <4>5. ASSUME NEW i \in 1..Len(job'[d]),
                   job'[d][i].do = "write", job'[d][i].item = Left(u, r), c \in job'[d][i].to
            PROVE  LeftComing(u, r, c)'
        BY <1>2, <4>5
      <4> QED
        BY <4>2, <4>3, <4>4, <4>5
    <3> QED
      BY <3>1, <3>2
  <2> QED
    BY <2>1, <2>5, <2>6, <2>7, WorkStep
<1>6. CASE Here(u, r)
  BY <1>4, <1>6 DEF Here
<1>7. CASE LeftComing(u, r, c)
  <2>1. PICK d \in Conns : \E k \in 1..Len(job[d]) :
          /\ job[d][k].do # "fetch" /\ job[d][k].item = Left(u, r)
          /\ job[d][k].do = "write" => c \in job[d][k].to
    BY <1>7 DEF LeftComing
  <2> QED
    BY <1>5, <2>1
<1> QED
  BY <1>3, <1>6, <1>7

\* A client that is told where it is has no notices yet.
LEMMA GreetedAnew ==
  ASSUME DInv, [Next]_vars, NEW c \in Conns, Stays(c), AtGreeting(c), ~AtGreeting(c)'
  PROVE  notices'[c] = <<>>
<1>1. Owed /\ TypeOK
  BY DEF DInv, Owed
<1>2. job[c] # <<>>
  BY <1>1 DEF AtGreeting
<1>3. job'[c] # job[c]
  <2>1. Greeting(c)' = Greeting(c) /\ Reading(c)' = Reading(c) /\ Telling(c)' = Telling(c)
    BY DEF Stays, Greeting, Reading, Telling
  <2> QED
    BY <2>1 DEF AtGreeting, IsNews
<1>4. ~Failing(c)
  BY DEF Failing, Stays, Present
<1>5. Going(c)
  BY <1>1, <1>2, <1>3, <1>4, WorkStep
<1> DEFINE t == job[c][1]
<1>6. t \in Tasks
  BY <1>1, <1>2, FirstTask
<1>7. PICK D \in SUBSET Conns :
        \E x \in Items :
          /\ Instead(c, Sends(D, x))
          /\ \/ t.do = "tell" /\ x = t.item
             \/ t.do = "fetch"
             \/ t.do = "write" /\ x = t.item /\ \E d \in t.to : Put(d, x)
  BY <1>5 DEF Going
<1>8. ASSUME t.do # "fetch", IsNews(t.item) PROVE FALSE
  <2>1. Instead(c, Sends(D, t.item)) /\ t.item \in Items
    BY <1>7, <1>8
  <2> QED
    BY <1>1, <1>2, <1>8, <2>1, GreetingOn DEF Stays
<1>9. t = Greeting(c)
  BY <1>1, <1>8, GreetingFirst
<1>10. Put(c, You(room[c]))
  BY <1>7, <1>9 DEF Greeting
<1>11. whole[c] /\ Open(c) /\ You(room[c]).kind = "you"
  BY DEF Stays, Present, Open, You
<1>12. notices' = [notices EXCEPT ![c] = <<>>]
  BY <1>10, <1>11 DEF Put
<1> QED
  BY <1>1, <1>12 DEF TypeOK

\* Whose "joined" was the last a client heard of them is there, or it is about to
\* hear more.
LEMMA SeenStep ==
  ASSUME DInv, SeenInv, [Next]_vars
  PROVE  SeenInv'
<1>1. Owed /\ TypeOK /\ TypeOK' /\ JobInv
  BY TypeStep DEF DInv, Owed
<1> SUFFICES ASSUME NEW c \in Conns, Present(c)', ~AtGreeting(c)',
                    NEW k \in DOMAIN notices'[c], LastAbout(c, k)',
                    notices'[c][k].kind = "joined"
             PROVE  (\/ Here(notices[c][k].who, room[c])
                     \/ LeftComing(notices[c][k].who, room[c], c)
                     \/ SomeCut)'
  BY DEF SeenInv
<1>2. notices[c] \in Seq(Notices) /\ notices'[c] \in Seq(Notices)
  BY <1>1 DEF TypeOK
<1>3. Stays(c)
  BY <1>1, Newcomer
<1>4. ~AtGreeting(c)
  BY <1>3, GreetedAnew
<1>5. room'[c] = room[c] /\ Present(c)
  BY <1>3 DEF Stays
<1>6. PICK u, r : u = notices'[c][k].who /\ r = room[c]
  OBVIOUS
<1>7. u \in Users
  <2>1. k \in 1..Len(notices'[c])
    BY <1>2
  <2>2. notices'[c][k] \in Notices
    BY <1>2, <2>1, ElementOfSeq
  <2> QED
    BY <1>6, <2>2 DEF Notices
<1>8. ASSUME k \in DOMAIN notices[c], notices[c][k] = notices'[c][k],
             \A j \in DOMAIN notices[c] : j \in DOMAIN notices'[c] /\ notices'[c][j] = notices[c][j],
             notices'[c] # Append(notices[c], Left(u, r))
      PROVE  Here(u, r)' \/ LeftComing(u, r, c)' \/ SomeCut'
  <2>1. LastAbout(c, k)
    BY <1>5, <1>8 DEF LastAbout
  <2>2. Here(u, r) \/ LeftComing(u, r, c) \/ SomeCut
    BY <1>4, <1>5, <1>6, <1>8, <2>1 DEF SeenInv
  <2> QED
    BY <1>1, <1>3, <1>6, <1>7, <1>8, <2>2, GoneStep
<1>9. CASE notices'[c] = notices[c]
  <2>1. Len(Append(notices[c], Left(u, r))) # Len(notices[c])
    BY <1>2
  <2>2. Here(u, r)' \/ LeftComing(u, r, c)' \/ SomeCut'
    BY <1>8, <1>9, <2>1
  <2> QED
    BY <1>5, <1>6, <2>2
<1>10. ASSUME NEW h \in Conns, SendOne(h, c), Head(job[h]).item \in Notices,
              notices'[c] = Append(notices[c], Head(job[h]).item)
       PROVE  Here(u, r)' \/ LeftComing(u, r, c)' \/ SomeCut'
  <2> DEFINE x == Head(job[h]).item
             n == Len(notices[c])
  <2>1. n \in Nat /\ DOMAIN notices[c] = 1..n /\ DOMAIN notices'[c] = 1..(n + 1)
    BY <1>2, <1>10
  <2>2. notices'[c][n + 1] = x /\ \A j \in 1..n : notices'[c][j] = notices[c][j]
    BY <1>2, <1>10
  <2>3. CASE k = n + 1
    <3>1. x.kind = "joined" /\ x.who = u
      BY <1>6, <2>2, <2>3
    <3>2. x.room = room[c]
      BY <1>5, <2>2, <2>3 DEF LastAbout
    <3>3. Doing(h, "write") /\ OwedNotice(h, 1, Head(job[h])) /\ Head(job[h]).do = "write"
      BY <1>1, <1>10, FirstSend DEF SendOne, Doing
    <3>4. x = Joined(user[h], room[h])
      BY <3>1, <3>3 DEF OwedNotice
    <3>5. user[h] = u /\ room[h] = r
      BY <1>6, <3>1, <3>2, <3>4 DEF Joined
    <3>6. user' = user /\ room' = room
      BY <1>10 DEF SendOne, session
    <3> QED
      BY <3>5, <3>6 DEF Here
  <2>4. CASE k # n + 1
    <3>1. k \in 1..n
      BY <2>1, <2>4
    <3>2. ASSUME notices'[c] = Append(notices[c], Left(u, r)) PROVE FALSE
      <4>1. notices'[c][n + 1] = Left(u, r)
        BY <1>2, <3>2
      <4>2. n + 1 \in DOMAIN notices'[c] /\ n + 1 > k
        BY <2>1, <3>1
      <4>3. notices'[c][n + 1].who # u \/ notices'[c][n + 1].room # r
        BY <1>5, <1>6, <4>2 DEF LastAbout
      <4> QED
        BY <4>1, <4>3 DEF Left
    <3>3. \A j \in DOMAIN notices[c] : j \in DOMAIN notices'[c] /\ notices'[c][j] = notices[c][j]
      BY <2>1, <2>2
    <3> QED
      BY <1>8, <2>1, <2>2, <3>1, <3>2, <3>3
  <2> QED
    BY <2>3, <2>4
<1> QED
  <2>1. CASE \E h \in Conns : SendOne(h, c) /\ Head(job[h]).item \in Notices
                              /\ notices'[c] = Append(notices[c], Head(job[h]).item)
    <3>1. Here(u, r)' \/ LeftComing(u, r, c)' \/ SomeCut'
      BY <1>10, <2>1
    <3> QED
      BY <1>5, <1>6, <3>1
  <2> QED
    BY <1>4, <1>5, <1>9, <2>1, NoticesStep

\* However logins, moves, logouts and lost connections overlap, of two users at
\* rest in a channel one was told that the other joined, and when all is done
\* nobody whose "joined" was the last a member heard of them is gone
\* (server.py:238-247, 365-391, 524-546, 602-624).
THEOREM NoticesCorrect == Spec => []NoticesTrue
<1> DEFINE GInv == DInv /\ MeetInv /\ SeenInv
<1>1. Init => GInv
  <2> SUFFICES ASSUME Init PROVE ArrivalInv /\ MeetInv /\ SeenInv
    BY OwedInit DEF DInv
  <2> QED
    BY DEF Init, ArrivalInv, MeetInv, SeenInv, Placed, Present
<1>2. GInv /\ [Next]_vars => GInv'
  BY OwedStep, ArrivalStep, MeetStep, SeenStep DEF DInv
<1>3. GInv => NoticesTrue
  <2> SUFFICES ASSUME GInv PROVE ArrivalTold /\ NoGhost
    BY DEF NoticesTrue
  <2>0. ASSUME NEW c \in Conns, job[c] = <<>>
        PROVE  /\ ~ToTell(c) /\ ~AtGreeting(c)
               /\ \A k \in 1..Len(job[c]) : FALSE
    BY <2>0 DEF ToTell, AtGreeting
  <2>1. ArrivalTold
    <3> SUFFICES ASSUME NEW c \in Conns, NEW d \in Conns, c # d, Settled(c), Settled(d),
                        room[c] = room[d]
                 PROVE  \/ \E k \in DOMAIN notices[c] : notices[c][k] = Joined(user[d], room[c])
                        \/ \E k \in DOMAIN notices[d] : notices[d][k] = Joined(user[c], room[c])
      BY DEF ArrivalTold
    <3>1. Present(c) /\ Present(d) /\ job[c] = <<>> /\ job[d] = <<>>
      BY DEF Settled, Idle, Present
    <3>2. Hears(c, d) \/ Hears(d, c)
      BY <2>0, <3>1 DEF MeetInv
    <3> QED
      BY <2>0, <3>1, <3>2 DEF Hears
  <2>2. NoGhost
    <3> SUFFICES ASSUME Calm, NEW c \in Conns, Settled(c), NEW k \in DOMAIN notices[c],
                        LastAbout(c, k), notices[c][k].kind = "joined"
                 PROVE  Here(notices[c][k].who, room[c])
      BY DEF NoGhost, Here
    <3>1. \A d \in Conns : job[d] = <<>> /\ state[d] \in {"open", "closed"}
      BY DEF Calm
    <3>2. Present(c) /\ ~AtGreeting(c)
      BY <2>0, <3>1 DEF Settled, Idle, Present
    <3>3. ~SomeCut
      BY <3>1 DEF SomeCut
    <3>4. ~LeftComing(notices[c][k].who, room[c], c)
      BY <2>0, <3>1 DEF LeftComing
    <3> QED
      BY <3>2, <3>3, <3>4 DEF SeenInv
  <2> QED
    BY <2>1, <2>2
<1> QED
  BY <1>1, <1>2, <1>3, PTL DEF Spec
=============================================================================
