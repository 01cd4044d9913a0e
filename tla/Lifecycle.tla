------------------------------ MODULE Lifecycle ------------------------------
(* How connections and the server come to an end: the heartbeat of          *)
(* server.py, clients that stop reading or vanish, and the shutdown.        *)
(*                                                                          *)
(* Every send ends in "await writer.drain()", which waits while the         *)
(* transport holds more bytes than its high-water mark.  So a client that   *)
(* does not read may stop whoever writes to it: the handler of another      *)
(* connection, the heartbeat, or shutdown().  A step runs up to the next    *)
(* such wait.                                                               *)
(*                                                                          *)
(* Time goes in ticks of HEARTBEAT_INTERVAL.  All users are logged in, in   *)
(* one channel; who they are, what they say and their file offers are left  *)
(* to the other modules.                                                    *)
EXTENDS Naturals, FiniteSets

CONSTANTS
  Conns,    \* the connections, each with a user logged in
  Frail,    \* bound: those that may stand still or vanish
  Timeout,  \* config.HEARTBEAT_TIMEOUT, in ticks
  None      \* nobody

ASSUME TimeoutAssumption == Timeout \in Nat \ {0}
ASSUME FrailAssumption == Frail \subseteq Conns /\ None \notin Conns

VARIABLES
  waits,    \* Server.wait_closed waits for the connections (Python >= 3.12.1)
  client,   \* client[c]: "well", "still" (does not read), "gone" (off the
            \* network, without a word) or "left"
  buffer,   \* buffer[c]: what its transport holds unsent: "empty", "some", or
            \* "full" (above the high-water mark)
  wire,     \* wire[c]: "open", "closing" (flushing first), "lost", or
            \* "timedout" (lost, and every later drain() raises TimeoutError)
  online,   \* those whose session is in self.sessions
  state,    \* the handler of c: "read", "bye" (in cleanup) or "done"
  at,       \* at[c]: the connection whose drain() it awaits,
  left,     \* and those it will write to then
  age,      \* age[c]: ticks since session.touch()
  pinged,   \* those with a PING or its PONG under way
  hindered, \* those that froze, waited or were not pinged in time since then
  beat,     \* the heartbeat: "sleep", "due" or "off"
  beatAt,   \* the connection whose drain() it awaits in mid-round,
  toPing,   \* those it will ping then,
  stale,    \* and those it will close at the end
  phase,    \* "up", "stopping", "goodbye" (in shutdown) or "stopped"
  mainAt,   \* the connection whose drain() shutdown() awaits,
  bid       \* and those it will say goodbye to then

peers    == <<client, buffer, wire>>
handlers == <<online, state, at, left>>
clocks   == <<age, pinged, hindered>>
heart    == <<beat, beatAt, toPing, stale>>
main     == <<phase, mainAt, bid>>
vars     == <<peers, handlers, clocks, heart, main>>

TypeOK ==
  /\ waits \in BOOLEAN
  /\ client \in [Conns -> {"well", "still", "gone", "left"}]
  /\ buffer \in [Conns -> {"empty", "some", "full"}]
  /\ wire \in [Conns -> {"open", "closing", "lost", "timedout"}]
  /\ state \in [Conns -> {"read", "bye", "done"}]
  /\ at \in [Conns -> Conns \cup {None}]
  /\ left \in [Conns -> SUBSET Conns]
  /\ age \in [Conns -> 0..(Timeout + 1)]
  /\ UNION {online, pinged, hindered, toPing, stale, bid} \subseteq Conns
  /\ beat \in {"sleep", "due", "off"}
  /\ {beatAt, mainAt} \subseteq Conns \cup {None}
  /\ phase \in {"up", "stopping", "goodbye", "stopped"}

Init ==
  /\ waits \in BOOLEAN
  /\ client = [c \in Conns |-> "well"]
  /\ buffer = [c \in Conns |-> "empty"]
  /\ wire = [c \in Conns |-> "open"]
  /\ online = Conns
  /\ state = [c \in Conns |-> "read"]
  /\ at = [c \in Conns |-> None]
  /\ left = [c \in Conns |-> {}]
  /\ age = [c \in Conns |-> 0]
  /\ pinged = {} /\ hindered = {}
  /\ beat = "sleep" /\ beatAt = None /\ toPing = {} /\ stale = {}
  /\ phase = "up" /\ mainAt = None /\ bid = {}

-----------------------------------------------------------------------------
(* Clients and transports                                                   *)

Up(c) == wire[c] \in {"open", "closing"}

\* drain() waits: whether the transport is closing makes no difference.
Blocking == {d \in Conns : buffer[d] = "full"}

\* Those whose transport a write may leave unsent.
Slow == {d \in Conns : client[d] \in {"still", "gone"} /\ Up(d)}

\* drain() raises.
TimedOut == {d \in Conns : wire[d] = "timedout"}

\* Something is written to D; of that, some stays unsent, and F are full then.
Fill(D, F) ==
  \E S \in SUBSET {d \in D \cap Slow : buffer[d] = "empty"} :
    buffer' = [d \in Conns |-> IF d \in F THEN "full"
                               ELSE IF d \in S THEN "some" ELSE buffer[d]]

\* close() ends at once only if nothing is unsent; else it flushes first, and the
\* reader sees the end only when that is done.
Close(D) ==
  wire' = [d \in Conns |-> IF d \in D /\ wire[d] = "open"
                           THEN IF buffer'[d] = "empty" THEN "lost" ELSE "closing"
                           ELSE wire[d]]

Freeze(c) ==
  /\ c \in Frail /\ client[c] = "well" /\ wire[c] = "open"
  /\ client' = [client EXCEPT ![c] = "still"]
  /\ hindered' = hindered \cup {c}
  /\ UNCHANGED <<buffer, wire, handlers, age, pinged, heart, main>>

\* The client reads again, and with it whatever was waiting for it.
Thaw(c) ==
  /\ client[c] = "still" /\ Up(c)
  /\ client' = [client EXCEPT ![c] = "well"]
  /\ buffer' = [buffer EXCEPT ![c] = "empty"]
  /\ wire' = [wire EXCEPT ![c] = IF @ = "closing" THEN "lost" ELSE @]
  /\ UNCHANGED <<handlers, clocks, heart, main>>

Vanish(c) ==
  /\ c \in Frail /\ client[c] \in {"well", "still"} /\ Up(c)
  /\ client' = [client EXCEPT ![c] = "gone"]
  /\ hindered' = hindered \cup {c}
  /\ UNCHANGED <<buffer, wire, handlers, age, pinged, heart, main>>

\* The kernel has sent the same bytes for too long, these or earlier ones.
GiveUp(c) ==
  /\ client[c] = "gone" /\ Up(c)
  /\ wire' = [wire EXCEPT ![c] = "timedout"]
  /\ buffer' = [buffer EXCEPT ![c] = "empty"]
  /\ UNCHANGED <<client, handlers, clocks, heart, main>>

\* A killed process that had not read everything leaves with a reset.
Leave(c) ==
  /\ client[c] \in {"well", "still"} /\ Up(c)
  /\ client' = [client EXCEPT ![c] = "left"]
  /\ wire' = [wire EXCEPT ![c] = IF client[c] = "well" THEN @ ELSE "lost"]
  /\ buffer' = [buffer EXCEPT ![c] = "empty"]
  /\ UNCHANGED <<handlers, clocks, heart, main>>

-----------------------------------------------------------------------------
(* Handlers                                                                 *)

\* A request or a PONG can be read.
CanRead(c) ==
  state[c] = "read" /\ at[c] = None /\ client[c] = "well" /\ wire[c] = "open"

\* The handler of c writes to D, and is then done with a request or with its
\* cleanup; or it has got as far as one of them, for which it has to wait, or
\* whose drain() raises, with the rest still to come.
Writes(c, D, end) ==
  \/ /\ D \cap (Blocking \cup TimedOut) = {}
     /\ at' = [at EXCEPT ![c] = None]
     /\ left' = [left EXCEPT ![c] = {}]
     /\ state' = [state EXCEPT ![c] = end]
     /\ Fill(D, {})
     /\ IF end = "done" THEN Close({c}) ELSE UNCHANGED wire
  \/ \E d \in D \cap (Slow \cup TimedOut) : \E rest \in SUBSET (D \ {d}) :
     /\ D \cap (Blocking \cup TimedOut) \subseteq rest \cup {d}
     /\ at' = [at EXCEPT ![c] = d]
     /\ left' = [left EXCEPT ![c] = rest]
     /\ state' = [state EXCEPT ![c] = IF end = "done" THEN "bye" ELSE "read"]
     /\ Fill(D \ rest, {d} \ TimedOut)
     /\ UNCHANGED wire

\* Mutant: a new session has no last_pong.
TouchNone(c) == age' = [age EXCEPT ![c] = None]

\* session.touch(), which the heartbeat sees only if it is not in mid-round.
Touch(c) == age' = [age EXCEPT ![c] = 0]

Unhindered(c) == IF beatAt = None THEN hindered \ {c} ELSE hindered

Say(c) ==
  /\ CanRead(c) /\ c \in online
  /\ Touch(c)
  /\ Writes(c, online, "read")
  /\ hindered' = IF at'[c] = None THEN Unhindered(c) ELSE hindered \cup {c}
  /\ UNCHANGED <<client, online, pinged, heart, main>>

\* Mutant: only requests count, not the PONGs.
PongIgnored(c) ==
  /\ CanRead(c) /\ c \in pinged
  /\ pinged' = pinged \ {c}
  /\ hindered' = Unhindered(c)
  /\ UNCHANGED <<peers, handlers, age, heart, main>>

Pong(c) ==
  /\ CanRead(c) /\ c \in pinged
  /\ Touch(c)
  /\ pinged' = pinged \ {c}
  /\ hindered' = Unhindered(c)
  /\ UNCHANGED <<peers, handlers, heart, main>>

\* The wait is over; _send drops a ConnectionError.
Resume(c) ==
  /\ at[c] # None /\ at[c] \notin Blocking \cup TimedOut
  /\ Writes(c, left[c], IF state[c] = "bye" THEN "done" ELSE "read")
  /\ UNCHANGED <<client, online, clocks, heart, main>>

\* The session is out of the tables and of no more concern to the heartbeat;
\* the others are told, and the connection is closed.
Cleans(c) ==
  /\ online' = online \ {c}
  /\ Writes(c, IF c \in online THEN online \ {c} ELSE {}, "done")
  /\ age' = [age EXCEPT ![c] = 0]
  /\ pinged' = pinged \ {c}
  /\ hindered' = hindered \ {c}
  /\ UNCHANGED <<client, heart, main>>

\* Mutant: a connection that the server has closed is not cleaned up.
CleanupOnLeave(c) ==
  /\ state[c] = "read" /\ at[c] = None
  /\ client[c] = "left"
  /\ Cleans(c)

\* The end of the stream.
Cleanup(c) ==
  /\ state[c] = "read" /\ at[c] = None
  /\ ~Up(c) \/ client[c] = "left"
  /\ Cleans(c)

\* A TimeoutError is no ConnectionError: the handler of c is ended for it.
Raises(c) == at[c] \in TimedOut

RaiseInRequest(c) == Raises(c) /\ state[c] = "read" /\ Cleans(c)

\* From Python 3.12 on, the connection of a task that fails is closed.
RaiseInCleanup(c) ==
  /\ Raises(c) /\ state[c] = "bye"
  /\ at' = [at EXCEPT ![c] = None]
  /\ left' = [left EXCEPT ![c] = {}]
  /\ state' = [state EXCEPT ![c] = "done"]
  /\ UNCHANGED buffer
  /\ IF waits THEN Close({c}) ELSE UNCHANGED wire
  /\ UNCHANGED <<client, online, clocks, heart, main>>

-----------------------------------------------------------------------------
(* The heartbeat                                                            *)

\* self.connections
Listed == {c \in Conns : state[c] = "read"}

\* The heartbeat pings D, and closes the stale connections in S; or it has to
\* wait for one of D, with the rest and the stale still to come.  (A ping that
\* fails makes d stale; its transport is lost already.)
Round(D, S) ==
  \/ /\ D \cap Blocking = {}
     /\ Fill(D, {})
     /\ Close(S)
     /\ pinged' = pinged \cup D
     /\ beatAt' = None /\ toPing' = {} /\ stale' = {}
     /\ UNCHANGED hindered
  \/ \E d \in D \cap Slow : \E rest \in SUBSET (D \ {d}) :
     /\ D \cap Blocking \subseteq rest \cup {d}
     /\ Fill(D \ rest, {d})
     /\ pinged' = pinged \cup (D \ rest)
     /\ beatAt' = d /\ toPing' = rest /\ stale' = S
     /\ hindered' = Conns
     /\ UNCHANGED wire

\* Mutant: nothing is ever stale.
WakeLenient ==
  /\ beat = "due"
  /\ beat' = "sleep"
  /\ Round(Listed, {})
  /\ UNCHANGED <<client, handlers, age, main>>

\* The sleep is not exact: one that is just at the limit may be over it.
Wake ==
  /\ beat = "due"
  /\ beat' = "sleep"
  /\ \E old \in SUBSET {c \in Listed : age[c] >= Timeout} :
       /\ {c \in Listed : age[c] > Timeout} \subseteq old
       /\ Round(Listed \ old, old)
  /\ UNCHANGED <<client, handlers, age, main>>

PingResumes ==
  /\ beatAt # None /\ beatAt \notin Blocking
  /\ Round(toPing, stale)
  /\ UNCHANGED <<client, handlers, age, beat, main>>

-----------------------------------------------------------------------------
(* The end of the server                                                    *)

\* A signal.  main() cancels serve_forever, which closes the listener; a second
\* signal changes nothing.
Stop ==
  /\ phase = "up"
  /\ phase' = "stopping"
  /\ UNCHANGED <<peers, handlers, clocks, heart, mainAt, bid>>

\* serve_forever is through with wait_closed.
Unheld == waits => \A c \in Conns : ~Up(c)

\* shutdown() says goodbye to D and closes them; then main() ends, and
\* asyncio.run() with it.  Those in A have been told already.
Goodbyes(A, D) ==
  \/ /\ D \cap Blocking = {}
     /\ Fill(D, {})
     /\ Close(A \cup D)
     /\ mainAt' = None /\ bid' = {} /\ phase' = "stopped"
  \/ \E d \in D \cap Slow : \E rest \in SUBSET (D \ {d}) :
     /\ D \cap Blocking \subseteq rest \cup {d}
     /\ Fill(D \ rest, {d})
     /\ Close((A \cup D) \ (rest \cup {d}))
     /\ mainAt' = d /\ bid' = rest /\ phase' = "goodbye"

\* Mutant: shutdown() waits for the handlers to end of themselves.
ShutdownWaits ==
  /\ phase = "stopping" /\ \A c \in Conns : state[c] = "done"
  /\ beat' = "off" /\ beatAt' = None /\ toPing' = {} /\ stale' = {}
  /\ online' = {}
  /\ Goodbyes({}, online)
  /\ UNCHANGED <<client, state, at, left, clocks>>

\* The heartbeat is cancelled, the tables are emptied.
Shutdown ==
  /\ phase = "stopping" /\ Unheld
  /\ beat' = "off" /\ beatAt' = None /\ toPing' = {} /\ stale' = {}
  /\ online' = {}
  /\ Goodbyes({}, online)
  /\ UNCHANGED <<client, state, at, left, clocks>>

GoodbyeResumes ==
  /\ mainAt # None /\ mainAt \notin Blocking
  /\ Goodbyes({mainAt}, bid)
  /\ UNCHANGED <<client, handlers, clocks, heart>>

-----------------------------------------------------------------------------
Handle(c) ==
  Pong(c) \/ Resume(c) \/ Cleanup(c) \/ RaiseInRequest(c) \/ RaiseInCleanup(c)

Heartbeat == Wake \/ PingResumes

Main == Shutdown \/ GoodbyeResumes

\* The handler of c has something to do now.
Ready(c) ==
  \/ at[c] # None /\ at[c] \notin Blocking
  \/ state[c] = "read" /\ at[c] = None /\ (~Up(c) \/ client[c] = "left")
  \/ CanRead(c) /\ c \in pinged

\* Against a tick of half a minute everything else is prompt.
Tick ==
  /\ phase \in {"up", "stopping"}
  /\ \A c \in Conns : ~Ready(c)
  /\ beat # "due" /\ (beatAt # None => beatAt \in Blocking)
  /\ age' = [c \in Conns |->
               IF c \in Listed /\ age[c] <= Timeout THEN age[c] + 1 ELSE age[c]]
  /\ beat' = IF beatAt = None THEN "due" ELSE beat
  /\ UNCHANGED <<peers, handlers, pinged, hindered, beatAt, toPing, stale, main>>

Chance(c) == Freeze(c) \/ Thaw(c) \/ Vanish(c) \/ Leave(c) \/ Say(c)

Stopped == phase = "stopped" /\ UNCHANGED vars

Next ==
  /\ \/ /\ phase # "stopped"
        /\ \/ \E c \in Conns : Handle(c) \/ GiveUp(c) \/ Chance(c)
           \/ Heartbeat \/ Main \/ Stop \/ Tick
     \/ Stopped
  /\ UNCHANGED waits

Spec == Init /\ [][Next]_<<vars, waits>>

\* The event loop runs every task that is ready, time goes on whatever the
\* clients ask for, and the kernel gives up on sending to a peer that is gone.
Fairness ==
  /\ \A c \in Conns : WF_vars(Handle(c)) /\ WF_vars(buffer[c] # "empty" /\ GiveUp(c))
  /\ WF_vars(Heartbeat) /\ WF_vars(Main)
  /\ SF_vars(Tick)

FairSpec == Spec /\ Fairness

-----------------------------------------------------------------------------
(* Properties                                                               *)

\* The heartbeat closes a client that reads and answers only if, since it last
\* heard of it, that client stood still, or its handler or the heartbeat itself
\* had to wait for another client that does (server.py:1077-1095).
NoFalseTimeout ==
  [][ \A c \in Conns :
        /\ wire[c] = "open" /\ wire'[c] # "open" /\ client[c] = "well"
        /\ state'[c] = "read" /\ phase' \in {"up", "stopping"}
        => c \in hindered ]_vars

\* A client does not read, and whoever writes to it waits.
Stuck == \E d \in Blocking : client[d] = "still"

\* c does not read what the server holds for it.
Unread(c) == client[c] = "still" /\ buffer[c] # "empty"

\* "Disconnect if no pong within this time" (README.md:272): a client that
\* vanishes or stands still is logged out in the end, unless it comes back, so
\* that its name is free again.  (But not if the server holds bytes, however few,
\* for a client that does not read: close() never gets to its end; nor while the
\* heartbeat, or the handler, waits for another such client.)
SilentDropped ==
  (<>[]~Stuck) =>
    \A c \in Conns :
      (<>[]~Unread(c)) =>
        (c \in online /\ client[c] \in {"still", "gone"}
           ~> c \notin online \/ client[c] = "well")

\* A handler gets through with its sends, even to clients that have vanished, and
\* through its cleanup, when its own connection is lost.
Served ==
  (<>[]~Stuck) =>
    \A c \in Conns :
      at[c] # None \/ (~Up(c) /\ state[c] # "done")
        ~> (at[c] = None /\ Up(c)) \/ state[c] = "done" \/ phase = "stopped"

\* "Graceful shutdown" (README.md:15): a signal ends the server, once nobody leaves
\* it waiting, and, where wait_closed waits for them, once everybody is gone:
\* nothing closes the connections before shutdown() does (server.py:1130-1136).
StopEnds ==
  (<>[]~Stuck) /\ (<>[]Unheld) => (phase = "stopping" ~> phase = "stopped")
=============================================================================
