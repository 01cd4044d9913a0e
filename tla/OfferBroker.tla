----------------------------- MODULE OfferBroker -----------------------------
(* The file-offer broker of server.py, on top of the session registry.  The *)
(* server relays no file: it keeps the pending offers, tells the recipient, *)
(* and hands the sender the recipient's address.  A handler reads and       *)
(* writes self.offers and looks sessions up in separate critical sections   *)
(* of the one lock, and the heartbeat task expires old offers.              *)
EXTENDS ChatServer, LockQueue

CONSTANTS
  Ids,         \* transfer ids; a client draws a new one for each offer
  MaxPending,  \* config.MAX_PENDING_OFFERS_PER_USER
  Beat,        \* the heartbeat task
  Flaky        \* the connections a send to which may raise an OSError other
               \* than ConnectionError (ETIMEDOUT), which _send lets through

ASSUME MaxPendingAssumption == MaxPending \in Nat \ {0}
ASSUME BeatAssumption == Beat \notin Conns \cup {Main}

VARIABLES
  offers, \* self.offers; None stands for an absent key (an offer also has,
          \* for the properties, the connections it was made from and for)
  fate,   \* "pending" while the id is in self.offers, then how it ended
  ask,    \* the request in a handler's locals: the name typed and the id
  dest,   \* the session it has looked up
  todo,   \* the messages a task has still to send
  told,   \* the messages about each id written so far, and to whom
  lost,   \* the messages never sent, because an earlier one raised
  beat    \* the heartbeat task: "sleep", "expire", "tell", then "dead" (it
          \* raised), "raised" (out of shutdown() too) or "off" (cancelled)

broker == <<offers, fate, ask, dest, todo, told, lost, beat>>
allVars == <<vars, broker>>

Fates == {"unused", "pending", "accepted", "declined", "left", "expired", "void"}
Kinds == {"offered", "accepted", "declined", "left", "expired"}

\* A FILE_ACCEPT or FILE_DECLINE on its way to whoever is online as "to".
Notice == [to : Names, id : Ids, kind : Kinds]

Offer == [sender : Names, recipient : Names \cup {None}, from : Conns, via : Conns]

\* What a handler's locals hold about a request.
Request == [to : Names \cup {None}, id : Ids]

\* Python's None is no offer and no request.
ASSUME RecordAssumption == None \notin Offer \cup Request

BrokerLabels == Labels \cup {"seek", "put", "answer", "tell", "reply"}

BrokerTypeOK ==
  /\ offers \in [Ids -> Offer \cup {None}]
  /\ fate \in [Ids -> Fates]
  /\ ask \in [Conns -> Request \cup {None}]
  /\ dest \in [Conns -> Conns \cup {None}]
  /\ todo \in [Conns \cup {Beat} -> SUBSET Notice]
  /\ told \in [Ids -> SUBSET (Conns \X Kinds)]
  /\ lost \subseteq Notice
  /\ beat \in {"sleep", "expire", "tell", "dead", "raised", "off"}
  /\ pc \in [Conns -> BrokerLabels]
  /\ queue \in Seq(Conns \cup {Main, Beat})

BrokerInit ==
  /\ Init
  /\ offers = [i \in Ids |-> None]
  /\ fate = [i \in Ids |-> "unused"]
  /\ ask = [s \in Conns |-> None]
  /\ dest = [s \in Conns |-> None]
  /\ todo = [t \in Conns \cup {Beat} |-> {}]
  /\ told = [i \in Ids |-> {}]
  /\ lost = {}
  /\ beat = "sleep"

-----------------------------------------------------------------------------
\* self.offers, and the offers in it that u is a party to.
Pending == {i \in Ids : offers[i] # None}
Made(u) == {i \in Pending : offers[i].sender = u}
PartyTo(u) == {i \in Pending : u \in {offers[i].sender, offers[i].recipient}}

\* _find_session: the exact name, else one that differs in case only.
Found(v) == {sessions[u] : u \in Stored(Names, v)} \ {None}

Finish(s) ==
  /\ ask' = [ask EXCEPT ![s] = None]
  /\ dest' = [dest EXCEPT ![s] = None]

\* n is written to the session found, if any.
Deliver(n) == told' = [told EXCEPT ![n.id] = @ \cup (Found(n.to) \X {n.kind})]

\* One message of kind k about each id in gone, to each of its parties; a
\* recipient of None is not looked up at all.
Notices(gone, parties, k) ==
  {n \in [to : Names, id : gone, kind : {k}] : n.to \in parties[n.id]}

\* Mutant: the offers are read, and stay in self.offers.
PopNothing(gone, f) ==
  /\ offers' = offers
  /\ fate' = [i \in Ids |-> IF i \in gone THEN f ELSE fate[i]]

\* The offers in gone leave self.offers, and meet fate f.
Pop(gone, f) ==
  /\ offers' = [i \in Ids |-> IF i \in gone THEN None ELSE offers[i]]
  /\ fate' = [i \in Ids |-> IF i \in gone THEN f ELSE fate[i]]

-----------------------------------------------------------------------------
(* Making an offer                                                          *)

FreshId(i) ==
  /\ fate[i] = "unused"
  /\ \A s \in Conns : ask[s] # None => ask[s].id # i

SendOffer(s, v, i) ==
  /\ Serving(s)
  /\ username[s] # None
  /\ FreshId(i)
  /\ ask' = [ask EXCEPT ![s] = [to |-> v, id |-> i]]
  /\ Wait(s, "seek")
  /\ UNCHANGED <<tables, registry, arg, phase, offers, fate, dest, todo, told, lost, beat>>

\* Mutant: the lock is kept from the lookup to the insert.
SeekHeld(s) ==
  /\ Turn(s, "seek")
  /\ \E d \in Found(ask[s].to) : dest' = [dest EXCEPT ![s] = d]
  /\ Move(s, "put")
  /\ UNCHANGED <<tables, registry, arg, queue, phase, offers, fate, ask, todo, told, lost, beat>>

Seek(s) ==
  /\ Turn(s, "seek")
  /\ \E d \in Found(ask[s].to) : dest' = [dest EXCEPT ![s] = d]
  /\ Again(s, "put")
  /\ UNCHANGED <<tables, registry, arg, phase, offers, fate, ask, todo, told, lost, beat>>

\* Mutant: the early return keeps the lock.
SeekFailsLocked(s) ==
  /\ Turn(s, "seek")
  /\ Found(ask[s].to) = {}
  /\ Finish(s)
  /\ Move(s, "read")
  /\ UNCHANGED <<tables, registry, arg, queue, phase, offers, fate, todo, told, lost, beat>>

SeekFails(s) ==
  /\ Turn(s, "seek")
  /\ Found(ask[s].to) = {}
  /\ Finish(s)
  /\ Release(s, "read")
  /\ UNCHANGED <<tables, registry, arg, phase, offers, fate, todo, told, lost, beat>>

\* Mutant: off by one.
MayPutOneMore(s) ==
  /\ ask[s].id \notin Pending
  /\ Cardinality(Made(username[s])) <= MaxPending

MayPut(s) ==
  /\ ask[s].id \notin Pending
  /\ Cardinality(Made(username[s])) < MaxPending

\* dest was found one section ago; its user name is read only now.
Put(s) ==
  LET i == ask[s].id
      d == dest[s] IN
  /\ Turn(s, "put")
  /\ MayPut(s)
  /\ offers' = [offers EXCEPT ![i] = [sender |-> username[s], recipient |-> username[d],
                                  from |-> s, via |-> d]]
  /\ fate' = [fate EXCEPT ![i] = "pending"]
  /\ told' = [told EXCEPT ![i] = @ \cup {<<d, "offered">>}]
  /\ Finish(s)
  /\ Release(s, "read")
  /\ UNCHANGED <<tables, registry, arg, phase, todo, lost, beat>>

PutRefused(s) ==
  /\ Turn(s, "put")
  /\ ~MayPut(s)
  /\ Finish(s)
  /\ Move(s, "hold")
  /\ UNCHANGED <<tables, registry, arg, queue, phase, offers, fate, todo, told, lost, beat>>

-----------------------------------------------------------------------------
(* Answering one                                                            *)

\* The client of s was offered i; nothing stops it from answering twice, or late.
SendAnswer(s, i) ==
  /\ Serving(s)
  /\ username[s] # None
  /\ <<s, "offered">> \in told[i]
  /\ ask' = [ask EXCEPT ![s] = [to |-> None, id |-> i]]
  /\ Wait(s, "answer")
  /\ UNCHANGED <<tables, registry, arg, phase, offers, fate, dest, todo, told, lost, beat>>

IsRecipient(s, i) == i \in Pending /\ offers[i].recipient = username[s]

Take(s, f) ==
  LET i == ask[s].id IN
  /\ Turn(s, "answer")
  /\ IsRecipient(s, i)
  /\ Pop({i}, f)
  /\ todo' = [todo EXCEPT ![s] = {[to |-> offers[i].sender, id |-> i, kind |-> f]}]
  /\ Again(s, "reply")
  /\ UNCHANGED <<tables, registry, arg, phase, ask, dest, told, lost, beat>>

\* An acceptance with no usable port or token: the offer is gone, and only
\* the recipient hears of it.
TakeVoid(s) ==
  LET i == ask[s].id IN
  /\ Turn(s, "answer")
  /\ IsRecipient(s, i)
  /\ Pop({i}, "void")
  /\ Finish(s)
  /\ Release(s, "read")
  /\ UNCHANGED <<tables, registry, arg, phase, todo, told, lost, beat>>

TakeFails(s) ==
  /\ Turn(s, "answer")
  /\ ~IsRecipient(s, ask[s].id)
  /\ Finish(s)
  /\ Release(s, "read")
  /\ UNCHANGED <<tables, registry, arg, phase, offers, fate, todo, told, lost, beat>>

Reply(s) ==
  /\ Turn(s, "reply")
  /\ \E n \in todo[s] : Deliver(n)
  /\ todo' = [todo EXCEPT ![s] = {}]
  /\ Finish(s)
  /\ Release(s, "read")
  /\ UNCHANGED <<tables, registry, arg, phase, offers, fate, lost, beat>>

-----------------------------------------------------------------------------
(* A party goes offline                                                     *)

AfterTold(left) == IF left = {} THEN "farewell" ELSE "tell"

\* Mutant: only the offers the leaver made are dropped.
CancelMade(s) ==
  LET u == arg[s]
      other == [i \in Made(u) |-> {offers[i].recipient}]
      new == Notices(Made(u), other, "left") IN
  /\ Turn(s, "drop")
  /\ Pop(Made(u), "left")
  /\ todo' = [todo EXCEPT ![s] = new]
  /\ Again(s, AfterTold(new))
  /\ UNCHANGED <<tables, registry, arg, phase, ask, dest, told, lost, beat>>

\* _cancel_offers_for(arg[s]), first part: drop the offers.
Cancel(s) ==
  LET u == arg[s]
      other == [i \in PartyTo(u) |->
                  {IF offers[i].sender = u THEN offers[i].recipient ELSE offers[i].sender}]
      new == Notices(PartyTo(u), other, "left") IN
  /\ Turn(s, "drop")
  /\ Pop(PartyTo(u), "left")
  /\ todo' = [todo EXCEPT ![s] = new]
  /\ Again(s, AfterTold(new))
  /\ UNCHANGED <<tables, registry, arg, phase, ask, dest, told, lost, beat>>

\* Mutant: only the first of the other parties is told.
TellFirst(s) ==
  /\ Turn(s, "tell")
  /\ \E n \in todo[s] : Deliver(n)
  /\ todo' = [todo EXCEPT ![s] = {}]
  /\ Again(s, "farewell")
  /\ UNCHANGED <<tables, registry, arg, phase, offers, fate, ask, dest, lost, beat>>

\* Second part: look up one other party and tell it.
Tell(s) ==
  /\ Turn(s, "tell")
  /\ \E n \in todo[s] :
       /\ Deliver(n)
       /\ todo' = [todo EXCEPT ![s] = @ \ {n}]
       /\ Again(s, AfterTold(todo[s] \ {n}))
  /\ UNCHANGED <<tables, registry, arg, phase, offers, fate, ask, dest, lost, beat>>

\* The send raises: the other parties are not told, and s cleans up or ends.
TellRaises(s) ==
  /\ Turn(s, "tell")
  /\ \E n \in todo[s] : Found(n.to) \cap Flaky # {}
  /\ lost' = lost \cup todo[s]
  /\ todo' = [todo EXCEPT ![s] = {}]
  /\ IF s \in connections THEN Again(s, "clean") ELSE Release(s, "closed")
  /\ arg' = [arg EXCEPT ![s] = None]
  /\ UNCHANGED <<tables, registry, phase, offers, fate, ask, dest, told, beat>>

-----------------------------------------------------------------------------
(* The heartbeat task's _expire_offers                                      *)

BeatTurn(l) == beat = l /\ queue # <<>> /\ Head(queue) = Beat

BeatWakes ==
  /\ beat = "sleep"
  /\ beat' = "expire"
  /\ queue' = Append(queue, Beat)
  /\ UNCHANGED <<tables, registry, pc, arg, phase, offers, fate, ask, dest, todo, told, lost>>

\* On to the next message, or asleep when there is none left.
BeatGoes(left) ==
  /\ todo' = [todo EXCEPT ![Beat] = left]
  /\ beat' = IF left = {} THEN "sleep" ELSE "tell"
  /\ queue' = IF left = {} THEN Tail(queue) ELSE Append(Tail(queue), Beat)

\* Mutant: the comparison with the cutoff is the wrong way round.
ExpireYoung(old) ==
  LET young == Pending \ old
      both == [i \in young |-> {offers[i].sender, offers[i].recipient}] IN
  /\ BeatTurn("expire")
  /\ Pop(young, "expired")
  /\ BeatGoes(Notices(young, both, "expired"))
  /\ UNCHANGED <<tables, registry, pc, arg, phase, ask, dest, told, lost>>

\* old is what was made before the cutoff.
Expire(old) ==
  LET both == [i \in old |-> {offers[i].sender, offers[i].recipient}] IN
  /\ BeatTurn("expire")
  /\ Pop(old, "expired")
  /\ BeatGoes(Notices(old, both, "expired"))
  /\ UNCHANGED <<tables, registry, pc, arg, phase, ask, dest, told, lost>>

BeatTells ==
  /\ BeatTurn("tell")
  /\ \E n \in todo[Beat] : Deliver(n) /\ BeatGoes(todo[Beat] \ {n})
  /\ UNCHANGED <<tables, registry, pc, arg, phase, offers, fate, ask, dest, lost>>

\* The send raises out of _heartbeat_loop, and the task ends.
BeatDies ==
  /\ BeatTurn("tell")
  /\ \E n \in todo[Beat] : Found(n.to) \cap Flaky # {}
  /\ lost' = lost \cup todo[Beat]
  /\ todo' = [todo EXCEPT ![Beat] = {}]
  /\ beat' = "dead"
  /\ queue' = Tail(queue)
  /\ UNCHANGED <<tables, registry, pc, arg, phase, offers, fate, ask, dest, told>>

\* shutdown() cancels the heartbeat task before it asks for the lock.
WithoutBeat == Without(queue, Beat)

BrokerShutdown ==
  /\ phase = "stopping"
  /\ beat \in {"sleep", "expire", "tell"}
  /\ lost' = lost \cup todo[Beat]
  /\ todo' = [todo EXCEPT ![Beat] = {}]
  /\ beat' = "off"
  /\ queue' = Append(WithoutBeat, Main)
  /\ UNCHANGED <<tables, registry, pc, arg, phase, offers, fate, ask, dest, told>>

\* Awaiting a heartbeat that has died raises its error again, which shutdown()
\* does not catch: the tables are not cleared, and main() ends.
ShutdownRaises ==
  /\ phase = "stopping"
  /\ beat = "dead"
  /\ beat' = "raised"
  /\ UNCHANGED <<vars, offers, fate, ask, dest, todo, told, lost>>

\* The server has ended that way and no handler is left.
Aborted ==
  /\ beat = "raised"
  /\ \A s \in Conns : pc[s] \in {"absent", "closed"}
  /\ UNCHANGED allVars

-----------------------------------------------------------------------------
Broke(s) ==
  \/ Seek(s) \/ SeekFails(s) \/ Put(s) \/ PutRefused(s)
  \/ Take(s, "accepted") \/ Take(s, "declined") \/ TakeVoid(s) \/ TakeFails(s)
  \/ Reply(s)
  \/ Cancel(s) \/ Tell(s) \/ TellRaises(s)

Heartbeat == BeatWakes \/ BeatTells \/ BeatDies \/ \E old \in SUBSET Pending : Expire(old)

BrokerNext ==
  \/ \E s \in Conns : (Ask(s) \/ Serve(s)) /\ UNCHANGED broker
  \/ \E s \in Conns, i \in Ids : SendAnswer(s, i) \/ \E v \in Names : SendOffer(s, v, i)
  \/ \E s \in Conns : Broke(s)
  \/ Heartbeat
  \/ (Stop \/ Clear \/ Done) /\ UNCHANGED broker
  \/ BrokerShutdown \/ ShutdownRaises \/ Aborted

BrokerSpec == BrokerInit /\ [][BrokerNext]_allVars

\* As for ChatServer; and the clock passes the cutoff of every offer.
BrokerFairness ==
  /\ \A s \in Conns : WF_allVars(Ready(s) /\ (Broke(s) \/ (Serve(s) /\ UNCHANGED broker)))
  /\ WF_allVars(Heartbeat)
  /\ SF_allVars(Pending # {} /\ Expire(Pending))
  /\ WF_allVars(Clear /\ UNCHANGED broker)

BrokerFairSpec == BrokerSpec /\ BrokerFairness

-----------------------------------------------------------------------------
(* Properties                                                               *)

\* Some handler is about to cancel the offers of u.
Leaving(u) == \E s \in Conns : pc[s] = "drop" /\ arg[s] = u

Present(u) == (u \in Names /\ sessions[u] # None) \/ Leaving(u)

\* "Drop every offer this user is a party to and tell the other side"
\* (server.py:969): every user a pending offer names is online, or is leaving
\* with its cancellation still to come.  (An offer whose recipient logged out
\* while it was being made, server.py:759-799, names None, and expires.)
NamedPartiesPresent ==
  phase # "cleared" =>
    \A i \in Pending :
      /\ Present(offers[i].sender)
      /\ offers[i].recipient # None => Present(offers[i].recipient)

\* The offers are well formed, and a user never has more than MaxPending of them
\* pending, however the requests and answers interleave (server.py:776-799).
PendingBound ==
  /\ BrokerTypeOK
  /\ \A u \in Names : Cardinality(Made(u)) <= MaxPending

\* No two messages about an offer disagree, and none comes of an offer that
\* is still pending: who answers, leaves or expires it first decides, and the
\* others find it gone (server.py:834-841, 971-977, 996-999).
OneFate ==
  /\ \A i \in Ids, s \in Conns, k \in Kinds :
       <<s, k>> \in told[i] => k \in {"offered", fate[i]}
  /\ \A t \in Conns \cup {Beat} : \A n \in todo[t] : n.kind = fate[n.id]

\* A logout or disconnection cancels only offers made from or for that very
\* connection, never one of a newer login of the same user (server.py:970-977).
\* The cancellation acquires the lock once more after the entry is gone, so a
\* newer login can come first; that no offer of it does is owed to the fair
\* lock and to the two sections an offer takes (server.py:759, 768).
OwnOffersOnly ==
  [][ \A s \in Conns, i \in Pending :
        /\ phase # "cleared"
        /\ Cancel(s)
        /\ fate'[i] = "left"
        => s \in {offers[i].from, offers[i].via} ]_allVars

\* Every registry step of the broker is one ChatServer allows: the offers
\* traffic looks to the registry like lookups, and the heartbeat like nothing.
CorePc == [s \in Conns |-> IF pc[s] \in {"seek", "put", "answer", "reply"} THEN "peek"
                           ELSE IF pc[s] = "tell" THEN "drop" ELSE pc[s]]

Core == INSTANCE ChatServer WITH pc <- CorePc, queue <- WithoutBeat

CoreSpec == Core!Spec

\* "Time out offers nobody answered, so ids and memory are not leaked."
\* (server.py:993): each offer is answered, cancelled or expired, unless the
\* server stops first.
OffersEnd ==
  Drained => \A i \in Ids : fate[i] = "pending" ~> fate[i] # "pending" \/ phase # "up"

\* The same as long as no send has ended the heartbeat task (server.py:1074).
OffersEndWhileAlive ==
  Drained => \A i \in Ids :
    fate[i] = "pending" ~> fate[i] # "pending" \/ phase # "up" \/ beat = "dead"

\* "Drop every offer this user is a party to and tell the other side"
\* (server.py:969): when a party to a pending offer leaves, the connection of the
\* one that stays is told how the offer ended, whoever else there is to tell,
\* unless it answers the offer or leaves itself, or the server stops; or a send
\* raised before its turn (981-990 has no handler): its message is then lost.
StaysOn(s, i) ==
  /\ s \in connections /\ username[s] # None
  /\ \/ s = offers[i].from /\ username[s] = offers[i].sender
     \/ s = offers[i].via /\ username[s] = offers[i].recipient
  /\ \E v \in Names \ {username[s]} : i \in PartyTo(v) /\ Leaving(v)

Told(s, i) == \E k \in Kinds \ {"offered"} : <<s, k>> \in told[i]
Skipped(s, i) == \E n \in lost : n.id = i /\ n.to = username[s]

OtherTold ==
  Drained => \A i \in Ids, s \in Conns :
    i \in Pending /\ StaysOn(s, i)
    ~> \/ Told(s, i)
       \/ Skipped(s, i)
       \/ pc[s] \in {"logout", "clean"}
       \/ fate[i] \in {"accepted", "declined", "void"}
       \/ phase = "cleared" \/ beat = "raised"
-----------------------------------------------------------------------------
(* What makes the properties above inductive.                               *)

\* Each task is in the lock's queue at most once, and is in it exactly while
\* its next section waits for the lock or runs.
BrokerQueued == Queued \cup {"seek", "put", "answer", "reply", "tell"}

LockExact ==
  /\ NoTwice(queue)
  /\ \A s \in Conns : In(queue, s) <=> pc[s] \in BrokerQueued
  /\ In(queue, Beat) <=> beat \in {"expire", "tell"}
  /\ In(queue, Main) => beat = "off"

\* What a handler's locals hold between the sections of a request.
AskInv(s) ==
  /\ pc[s] \in {"seek", "put"} =>
       /\ ask[s] # None /\ ask[s].to \in Names
       /\ username[s] # None
       /\ fate[ask[s].id] = "unused"
  /\ pc[s] \in {"answer", "reply"} => ask[s] # None
  /\ pc[s] = "put" => dest[s] \in Conns
  /\ pc[s] = "drop" => arg[s] \in Names

\* Two offers on their way have different ids; a message about an id only once
\* it is used; and an offer is in self.offers exactly while it is pending.
FateInv ==
  /\ \A s, t \in Conns :
       pc[s] \in {"seek", "put"} /\ pc[t] \in {"seek", "put"} /\ s # t => ask[s].id # ask[t].id
  /\ \A i \in Ids : fate[i] = "unused" => told[i] = {}
  /\ \A i \in Ids : fate[i] = "pending" <=> offers[i] # None

BoundInv == \A u \in Names : IsFiniteSet(Made(u)) /\ Cardinality(Made(u)) <= MaxPending

OfferInv ==
  /\ BrokerTypeOK
  /\ \A s \in Conns : AskInv(s)
  /\ FateInv
  /\ OneFate
  /\ BoundInv

\* s is about to cancel the offers of u.
Drops(s, u) == pc[s] = "drop" /\ arg[s] = u

\* s is the connection of u, or of a u that is leaving.
Holds(s, u) == sessions[u] = s \/ Drops(s, u)

\* Whom a pending offer names, the connection it was made from or for holds.
PartiesHeld ==
  \A i \in Pending :
    /\ Holds(offers[i].from, offers[i].sender)
    /\ offers[i].recipient # None => Holds(offers[i].via, offers[i].recipient)

\* A user that logs in while an earlier connection of theirs has still to
\* cancel waits behind it, and so does every offer made by or for the newer
\* login; two connections never cancel for one user.
DropInv(s, u) ==
  /\ \A i \in Pending :
       /\ offers[i].sender = u => offers[i].from = s
       /\ offers[i].recipient = u => offers[i].via = s
  /\ sessions[u] # s
  /\ sessions[u] # None => ~Ahead(queue, sessions[u], s)
  /\ \A t \in Conns : Drops(t, u) => t = s

\* The recipient found is still online, and those that cancel for an earlier
\* login of it go before the insert; or it has left, and cancels after it.
PutInv(s) ==
  LET d == dest[s] IN
  \/ /\ username[d] # None
     /\ sessions[username[d]] = d
     /\ \A t \in Conns \ {d} : Drops(t, username[d]) => Ahead(queue, t, s)
  \/ /\ pc[d] = "drop"
     /\ username[d] \in {None, arg[d]}
     /\ Ahead(queue, s, d)

\* The order of cancellations, logins and inserts in the lock's queue.
OrderInv ==
  phase # "cleared" =>
    /\ PartiesHeld
    /\ \A s \in Conns, u \in Names : Drops(s, u) => DropInv(s, u)
    /\ \A s \in Conns : pc[s] = "put" => PutInv(s)

BrokerIInv == Core!IInv /\ LockExact /\ OfferInv /\ OrderInv

=============================================================================
