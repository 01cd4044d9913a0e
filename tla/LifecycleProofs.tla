--------------------------- MODULE LifecycleProofs ---------------------------
(* Proofs about Lifecycle for any connections, of which any may stand still *)
(* or vanish, and for either Python.                                        *)
EXTENDS Lifecycle, TLAPS

-----------------------------------------------------------------------------
(* The inductive invariant.                                                 *)

\* Whatever keeps the heartbeat from hearing of a client is remembered.
Remembered(c) ==
  beatAt # None \/ at[c] # None \/ client[c] \in {"still", "gone"} => c \in hindered

\* A client that nothing hinders is never a whole tick behind: either it has
\* been heard of since the last tick, or the heartbeat is about to ping it, or
\* its PONG is under way.
InTime(c) ==
  wire[c] = "open" /\ client[c] = "well" /\ c \notin hindered =>
    age[c] = 0 \/ (age[c] = 1 /\ (beat = "due" \/ c \in pinged))

\* A handler that has come to its end waits for nobody.
ClockInv ==
  /\ \A c \in Conns : state[c] = "done" => at[c] = None
  /\ phase \in {"up", "stopping"} =>
       \A c \in Conns : state[c] = "read" => Remembered(c) /\ InTime(c)

-----------------------------------------------------------------------------
(* Types.                                                                   *)

Wires == {"open", "closing", "lost", "timedout"}
Buffers == [Conns -> {"empty", "some", "full"}]

\* TypeOK, spelt out.
Types ==
  /\ waits \in BOOLEAN
  /\ client \in [Conns -> {"well", "still", "gone", "left"}]
  /\ wire \in [Conns -> Wires]
  /\ state \in [Conns -> {"read", "bye", "done"}]
  /\ at \in [Conns -> Conns \cup {None}]
  /\ left \in [Conns -> SUBSET Conns]
  /\ age \in [Conns -> 0..(Timeout + 1)]
  /\ buffer \in Buffers
  /\ online \subseteq Conns /\ pinged \subseteq Conns
  /\ hindered \subseteq Conns /\ toPing \subseteq Conns /\ stale \subseteq Conns
  /\ bid \subseteq Conns
  /\ beat \in {"sleep", "due", "off"}
  /\ beatAt \in Conns \cup {None} /\ mainAt \in Conns \cup {None}
  /\ phase \in {"up", "stopping", "goodbye", "stopped"}

\* Transports are written to, and closed.
LEMMA FillType ==
  ASSUME Types, NEW D, NEW F, Fill(D, F)
  PROVE  buffer' \in Buffers
BY DEF Types, Fill, Buffers

LEMMA CloseType ==
  ASSUME Types, NEW D, Close(D)
  PROVE  /\ wire' \in [Conns -> Wires]
         /\ \A d \in Conns : d \notin D => wire'[d] = wire[d]
         /\ \A d \in Conns : wire'[d] = "open" => wire[d] = "open"
BY DEF Types, Close, Wires

\* A handler writes.
LEMMA WritesType ==
  ASSUME Types, NEW c \in Conns, NEW D \in SUBSET Conns, NEW end \in {"read", "done"},
         Writes(c, D, end)
  PROVE  /\ at' \in [Conns -> Conns \cup {None}]
         /\ left' \in [Conns -> SUBSET Conns]
         /\ state' \in [Conns -> {"read", "bye", "done"}]
         /\ wire' \in [Conns -> Wires]
         /\ buffer' \in Buffers
<1>1. /\ at \in [Conns -> Conns \cup {None}] /\ left \in [Conns -> SUBSET Conns]
      /\ state \in [Conns -> {"read", "bye", "done"}]
      /\ wire \in [Conns -> Wires]
  BY DEF Types
<1>2. CASE /\ at' = [at EXCEPT ![c] = None] /\ left' = [left EXCEPT ![c] = {}]
           /\ state' = [state EXCEPT ![c] = end]
           /\ Fill(D, {}) /\ IF end = "done" THEN Close({c}) ELSE UNCHANGED wire
  <2>1. buffer' \in Buffers
    BY <1>2, FillType
  <2>2. wire' \in [Conns -> Wires]
    BY <1>1, <1>2, CloseType
  <2> QED
    BY <1>1, <1>2, <2>1, <2>2
<1>3. ASSUME NEW d \in D, NEW rest \in SUBSET (D \ {d}),
             at' = [at EXCEPT ![c] = d], left' = [left EXCEPT ![c] = rest],
             state' = [state EXCEPT ![c] = IF end = "done" THEN "bye" ELSE "read"],
             Fill(D \ rest, {d} \ TimedOut), UNCHANGED wire
      PROVE  /\ at' \in [Conns -> Conns \cup {None}]
             /\ left' \in [Conns -> SUBSET Conns]
             /\ state' \in [Conns -> {"read", "bye", "done"}]
             /\ wire' \in [Conns -> Wires]
             /\ buffer' \in Buffers
  <2>1. d \in Conns /\ rest \in SUBSET Conns
    OBVIOUS
  <2>2. buffer' \in Buffers
    BY <1>3, FillType
  <2> QED
    BY <1>1, <1>3, <2>1, <2>2
<1> QED
  BY <1>2, <1>3 DEF Writes

\* What clients and transports do by themselves.
LEMMA TypePeers ==
  ASSUME Types, UNCHANGED waits, NEW c \in Conns
  PROVE  Freeze(c) \/ Thaw(c) \/ Vanish(c) \/ GiveUp(c) \/ Leave(c) => Types'
<1> USE DEF Types, Wires, Buffers, handlers, clocks, heart, main
<1>1. Freeze(c) => Types'
  BY DEF Freeze
<1>2. Thaw(c) => Types'
  BY DEF Thaw
<1>3. Vanish(c) => Types'
  BY DEF Vanish
<1>4. GiveUp(c) => Types'
  BY DEF GiveUp
<1>5. Leave(c) => Types'
  BY DEF Leave
<1> QED
  BY <1>1, <1>2, <1>3, <1>4, <1>5

\* The handlers.
LEMMA TypeHandlers ==
  ASSUME Types, UNCHANGED waits, NEW c \in Conns
  PROVE  Handle(c) \/ Say(c) => Types'
<1> USE DEF heart, main, clocks
<1>0. 0 \in 0..(Timeout + 1) /\ online \subseteq Conns /\ left[c] \in SUBSET Conns
      /\ age \in [Conns -> 0..(Timeout + 1)]
  BY TimeoutAssumption DEF Types
<1>1. Say(c) => Types'
  <2>1. Say(c) => age' \in [Conns -> 0..(Timeout + 1)] /\ hindered' \subseteq Conns
    BY <1>0 DEF Types, Say, Touch, Unhindered
  <2>2. ASSUME Say(c)
        PROVE  /\ at' \in [Conns -> Conns \cup {None}] /\ left' \in [Conns -> SUBSET Conns]
               /\ state' \in [Conns -> {"read", "bye", "done"}]
               /\ wire' \in [Conns -> Wires] /\ buffer' \in Buffers
    BY <1>0, <2>2, WritesType DEF Say
  <2> QED
    BY <2>1, <2>2 DEF Types, Say
<1>2. Pong(c) => Types'
  BY <1>0 DEF Types, Pong, Touch, Unhindered, peers, handlers
<1>3. ASSUME Resume(c) PROVE Types'
  <2>1. /\ at' \in [Conns -> Conns \cup {None}] /\ left' \in [Conns -> SUBSET Conns]
        /\ state' \in [Conns -> {"read", "bye", "done"}]
        /\ wire' \in [Conns -> Wires] /\ buffer' \in Buffers
    BY <1>0, <1>3, WritesType DEF Resume
  <2> QED
    BY <1>3, <2>1 DEF Types, Resume
<1>4. ASSUME Cleans(c) PROVE Types'
  <2>1. /\ at' \in [Conns -> Conns \cup {None}] /\ left' \in [Conns -> SUBSET Conns]
        /\ state' \in [Conns -> {"read", "bye", "done"}]
        /\ wire' \in [Conns -> Wires] /\ buffer' \in Buffers
    <3>1. (IF c \in online THEN online \ {c} ELSE {}) \in SUBSET Conns
      BY <1>0
    <3> QED
      BY <1>4, <3>1, WritesType DEF Cleans
  <2>2. age' \in [Conns -> 0..(Timeout + 1)]
    BY <1>0, <1>4 DEF Cleans
  <2> QED
    BY <1>4, <2>1, <2>2 DEF Types, Cleans
<1>5. ASSUME RaiseInCleanup(c) PROVE Types'
  <2>1. wire' \in [Conns -> Wires]
    BY <1>5, CloseType DEF Types, RaiseInCleanup
  <2> QED
    BY <1>5, <2>1 DEF Types, RaiseInCleanup
<1> QED
  BY <1>1, <1>2, <1>3, <1>4, <1>5 DEF Handle, Cleanup, RaiseInRequest

\* The heartbeat.
LEMMA TypeHeart ==
  ASSUME Types, UNCHANGED waits
  PROVE  Heartbeat => Types'
<1>1. ASSUME NEW D \in SUBSET Conns, NEW S \in SUBSET Conns, Round(D, S)
      PROVE  /\ wire' \in [Conns -> Wires] /\ buffer' \in Buffers
             /\ pinged' \subseteq Conns /\ toPing' \subseteq Conns /\ stale' \subseteq Conns
             /\ hindered' \subseteq Conns /\ beatAt' \in Conns \cup {None}
  <2>1. buffer' \in Buffers
    BY <1>1, FillType DEF Round
  <2>2. wire' \in [Conns -> Wires]
    BY <1>1, CloseType DEF Round, Types
  <2> QED
    BY <1>1, <2>1, <2>2 DEF Types, Round
<1>2. ASSUME Wake PROVE Types'
  <2>1. PICK old \in SUBSET Listed : Round(Listed \ old, old)
    BY <1>2 DEF Wake
  <2>2. Listed \ old \in SUBSET Conns /\ old \in SUBSET Conns
    BY DEF Listed
  <2> QED
    BY <1>1, <1>2, <2>1, <2>2 DEF Types, Wake, handlers, main
<1>3. ASSUME PingResumes PROVE Types'
  BY <1>1, <1>3 DEF Types, PingResumes, handlers, main
<1> QED
  BY <1>2, <1>3 DEF Heartbeat

\* The shutdown, and the clock.
LEMMA TypeMain ==
  ASSUME Types, UNCHANGED waits
  PROVE  Main \/ Stop \/ Tick => Types'
<1>1. ASSUME NEW A \in SUBSET Conns, NEW D \in SUBSET Conns, Goodbyes(A, D)
      PROVE  /\ wire' \in [Conns -> Wires] /\ buffer' \in Buffers
             /\ bid' \subseteq Conns /\ mainAt' \in Conns \cup {None}
             /\ phase' \in {"goodbye", "stopped"}
  <2>1. wire' \in [Conns -> Wires] /\ buffer' \in Buffers
    BY <1>1, CloseType, FillType DEF Goodbyes
  <2>2. bid' \subseteq Conns /\ mainAt' \in Conns \cup {None}
    BY <1>1 DEF Goodbyes
  <2> QED
    BY <1>1, <2>1, <2>2 DEF Goodbyes
<1>2. ASSUME Shutdown PROVE Types'
  BY <1>1, <1>2 DEF Types, Shutdown, clocks
<1>3. ASSUME GoodbyeResumes PROVE Types'
  <2>1. {mainAt} \in SUBSET Conns /\ bid \in SUBSET Conns
    BY <1>3 DEF Types, GoodbyeResumes
  <2> QED
    BY <1>1, <1>3, <2>1 DEF Types, GoodbyeResumes, clocks, handlers, heart
<1>4. Stop => Types'
  BY DEF Types, Stop, peers, handlers, clocks, heart
<1>5. ASSUME Tick PROVE Types'
  <2>1. age' \in [Conns -> 0..(Timeout + 1)]
    BY <1>5, TimeoutAssumption DEF Types, Tick
  <2> QED
    BY <1>5, <2>1 DEF Types, Tick, peers, handlers, main
<1> QED
  BY <1>2, <1>3, <1>4, <1>5 DEF Main

\* Every step keeps the types,
LEMMA TypeNext == Types /\ [Next]_<<vars, waits>> => Types'
<1>1. Types /\ UNCHANGED <<vars, waits>> => Types'
  BY DEF Types, vars, peers, handlers, clocks, heart, main
<1> QED
  BY <1>1, TypePeers, TypeHandlers, TypeHeart, TypeMain DEF Next, Chance, Stopped

\* and they hold at the start.
LEMMA TypeInit == Init => Types
BY TimeoutAssumption DEF Types, Wires, Buffers, Init

\* Type correctness.
THEOREM TypeCorrect == Spec => []TypeOK
<1>1. Types => TypeOK
  BY DEF Types, TypeOK, Wires, Buffers
<1> QED
  BY <1>1, TypeInit, TypeNext, PTL DEF Spec

-----------------------------------------------------------------------------
(* The heartbeat.                                                           *)

\* The step closes nobody that reads and answers.
Spared ==
  \A c \in Conns :
    /\ wire[c] = "open" /\ wire'[c] # "open" /\ client[c] = "well"
    /\ state'[c] = "read" /\ phase' \in {"up", "stopping"}
    => c \in hindered

\* What a handler's writes do: they close no connection whose handler goes on, and
\* a handler that has to wait stays where it is, or is in its cleanup.
LEMMA WritesStep ==
  ASSUME Types, NEW c \in Conns, NEW D, NEW end \in {"read", "done"}, Writes(c, D, end)
  PROVE  /\ \A d \in Conns \ {c} : at'[d] = at[d] /\ state'[d] = state[d] /\ wire'[d] = wire[d]
         /\ end = "read" => wire' = wire /\ state'[c] = "read"
         /\ end = "done" => state'[c] # "read"
         /\ state'[c] = "done" => at'[c] = None
<1>1. /\ at \in [Conns -> Conns \cup {None}] /\ left \in [Conns -> SUBSET Conns]
      /\ state \in [Conns -> {"read", "bye", "done"}]
      /\ wire \in [Conns -> Wires]
  BY DEF Types
<1>2. CASE /\ at' = [at EXCEPT ![c] = None] /\ state' = [state EXCEPT ![c] = end]
           /\ IF end = "done" THEN Close({c}) ELSE UNCHANGED wire
  BY <1>1, <1>2, CloseType
<1>3. ASSUME NEW d, at' = [at EXCEPT ![c] = d], UNCHANGED wire,
             state' = [state EXCEPT ![c] = IF end = "done" THEN "bye" ELSE "read"]
      PROVE  /\ \A x \in Conns \ {c} : at'[x] = at[x] /\ state'[x] = state[x] /\ wire'[x] = wire[x]
             /\ end = "read" => wire' = wire /\ state'[c] = "read"
             /\ end = "done" => state'[c] # "read"
             /\ state'[c] = "done" => at'[c] = None
  BY <1>1, <1>3
<1> QED
  BY <1>2, <1>3 DEF Writes

\* Clients and transports: whoever stands still or vanishes is remembered.
LEMMA ClockPeers ==
  ASSUME Types, ClockInv, NEW c \in Conns
  PROVE  Freeze(c) \/ Thaw(c) \/ Vanish(c) \/ GiveUp(c) \/ Leave(c) => ClockInv' /\ Spared
<1> USE DEF Types, ClockInv, Remembered, InTime, Spared, handlers, clocks, heart, main
<1>1. Freeze(c) => ClockInv' /\ Spared
  BY DEF Freeze
<1>2. Thaw(c) => ClockInv' /\ Spared
  BY DEF Thaw
<1>3. Vanish(c) => ClockInv' /\ Spared
  BY DEF Vanish
<1>4. GiveUp(c) => ClockInv' /\ Spared
  BY DEF GiveUp
<1>5. Leave(c) => ClockInv' /\ Spared
  BY DEF Leave
<1> QED
  BY <1>1, <1>2, <1>3, <1>4, <1>5

\* Handlers: one that has to wait is remembered, and so is everybody while the
\* heartbeat waits.
LEMMA ClockHandlers ==
  ASSUME Types, ClockInv, NEW c \in Conns
  PROVE  Handle(c) \/ Say(c) => ClockInv' /\ Spared
<1> USE DEF ClockInv, Remembered, InTime, Spared, clocks, heart, main
<1>0. /\ at \in [Conns -> Conns \cup {None}] /\ state \in [Conns -> {"read", "bye", "done"}]
      /\ age \in [Conns -> 0..(Timeout + 1)]
      /\ wire \in [Conns -> Wires]
  BY DEF Types
<1>1. ASSUME Say(c) PROVE ClockInv' /\ Spared
  <2>1. /\ wire' = wire /\ state[c] = "read"
        /\ \A d \in Conns : state'[d] = state[d]
        /\ \A d \in Conns \ {c} : at'[d] = at[d] /\ age'[d] = age[d]
    BY <1>0, <1>1, WritesStep DEF Say, CanRead, Touch
  <2>2. age'[c] = 0
    BY <1>0, <1>1 DEF Say, Touch
  <2>3. hindered \ {c} \subseteq hindered'
        /\ (at'[c] # None \/ (beatAt # None /\ c \in hindered) => c \in hindered')
    BY <1>1 DEF Say, Unhindered
  <2>4. client[c] = "well" /\ UNCHANGED <<client, pinged, heart, phase>>
    BY <1>1 DEF Say, CanRead
  <2> QED
    BY <2>1, <2>2, <2>3, <2>4
<1>2. Pong(c) => ClockInv' /\ Spared
  BY <1>0 DEF Pong, Touch, Unhindered, CanRead, peers, handlers
<1>3. ASSUME Resume(c) PROVE ClockInv' /\ Spared
  <2>1. \A d \in Conns \ {c} : at'[d] = at[d] /\ state'[d] = state[d] /\ wire'[d] = wire[d]
    BY <1>3, WritesStep DEF Resume
  <2>2. state'[c] = "read" => state[c] = "read" /\ wire' = wire
    BY <1>0, <1>3, WritesStep DEF Resume
  <2>3. at[c] # None /\ UNCHANGED <<client, clocks, heart, phase>>
    BY <1>3 DEF Resume
  <2>4. state'[c] = "done" => at'[c] = None
    BY <1>3, WritesStep DEF Resume
  <2> QED
    BY <2>1, <2>2, <2>3, <2>4
<1>4. ASSUME Cleans(c) PROVE ClockInv' /\ Spared
  <2>1. /\ \A d \in Conns \ {c} : at'[d] = at[d] /\ state'[d] = state[d] /\ wire'[d] = wire[d]
        /\ state'[c] # "read" /\ (state'[c] = "done" => at'[c] = None)
    BY <1>4, WritesStep DEF Cleans
  <2>2. \A d \in Conns \ {c} : age'[d] = age[d]
    BY <1>0, <1>4 DEF Cleans
  <2> QED
    BY <1>4, <2>1, <2>2 DEF Cleans
<1>5. ASSUME RaiseInCleanup(c) PROVE ClockInv' /\ Spared
  <2>1. \A d \in Conns \ {c} : at'[d] = at[d] /\ state'[d] = state[d] /\ wire'[d] = wire[d]
    BY <1>0, <1>5, CloseType DEF RaiseInCleanup
  <2>2. state'[c] = "done" /\ at'[c] = None /\ UNCHANGED <<client, clocks, heart, phase>>
    BY <1>0, <1>5 DEF RaiseInCleanup
  <2> QED
    BY <2>1, <2>2
<1> QED
  BY <1>1, <1>2, <1>3, <1>4, <1>5 DEF Handle, Cleanup, RaiseInRequest

\* The heartbeat: with a timeout of two ticks or more, it finds nobody stale but
\* those that something hindered.
LEMMA ClockHeart ==
  ASSUME Types, ClockInv, Timeout >= 2
  PROVE  Heartbeat => ClockInv' /\ Spared
<1> USE DEF ClockInv, Remembered, InTime, Spared
<1>0. /\ wire \in [Conns -> Wires]
      /\ age \in [Conns -> 0..(Timeout + 1)] /\ hindered \subseteq Conns
  BY DEF Types
<1>1. ASSUME NEW D, NEW S, Round(D, S)
      PROVE  /\ \A c \in Conns : wire[c] = "open" /\ wire'[c] # "open" => c \in S
             /\ \A c \in Conns : wire'[c] = "open" => wire[c] = "open"
             /\ pinged \subseteq pinged' /\ hindered \subseteq hindered'
             /\ beatAt' # None => hindered' = Conns
             /\ beatAt' = None => D \subseteq pinged' /\ hindered' = hindered
  <2>1. CASE D \cap Blocking = {} /\ Close(S) /\ pinged' = pinged \cup D /\ beatAt' = None
             /\ UNCHANGED hindered
    BY <1>0, <2>1, CloseType
  <2>2. ASSUME NEW d \in D \cap Slow, NEW rest, pinged' = pinged \cup (D \ rest), beatAt' = d,
               hindered' = Conns, UNCHANGED wire
        PROVE  /\ wire' = wire /\ pinged \subseteq pinged' /\ hindered \subseteq hindered'
               /\ hindered' = Conns /\ beatAt' # None
    BY <1>0, <2>2, FrailAssumption DEF Slow
  <2> QED
    BY <1>1, <2>1, <2>2 DEF Round
<1>2. ASSUME Wake PROVE ClockInv' /\ Spared
  <2>1. PICK old \in SUBSET {c \in Listed : age[c] >= Timeout} : Round(Listed \ old, old)
    BY <1>2 DEF Wake
  <2>2. UNCHANGED <<client, state, at, age, phase>>
    BY <1>2 DEF Wake, handlers, main
  <2>3. phase \in {"up", "stopping"} =>
          \A c \in old : wire[c] = "open" /\ client[c] = "well" => c \in hindered
    BY <1>0, <2>1, TimeoutAssumption DEF Listed
  <2>4. Spared
    BY <1>1, <2>1, <2>2, <2>3
  <2>5. \A c \in Conns : state'[c] = "read" => c \in Listed
    BY <2>2 DEF Listed
  <2>6. ClockInv'
    BY <1>0, <1>1, <2>1, <2>2, <2>3, <2>5
  <2> QED
    BY <2>4, <2>6
<1>3. ASSUME PingResumes PROVE ClockInv' /\ Spared
  <2>1. UNCHANGED <<client, state, at, age, beat, phase>> /\ Round(toPing, stale) /\ beatAt # None
    BY <1>3 DEF PingResumes, handlers, main
  <2> QED
    BY <1>1, <2>1
<1> QED
  BY <1>2, <1>3 DEF Heartbeat

\* A tick comes only when everybody that can answer has answered.
LEMMA ClockMain ==
  ASSUME Types, ClockInv
  PROVE  Main \/ Stop \/ Tick => ClockInv' /\ Spared
<1> USE DEF ClockInv, Remembered, InTime, Spared
<1>1. Main => ClockInv' /\ Spared
  <2>1. Main => phase' \in {"goodbye", "stopped"} /\ UNCHANGED <<state, at>>
    BY DEF Main, Shutdown, GoodbyeResumes, Goodbyes, handlers
  <2> QED
    BY <2>1
<1>2. Stop => ClockInv' /\ Spared
  BY DEF Stop, peers, handlers, clocks, heart
<1>3. ASSUME Tick PROVE ClockInv' /\ Spared
  <2>1. UNCHANGED <<wire, client, state, at, pinged, hindered, beatAt, phase>>
    BY <1>3 DEF Tick, peers, handlers, main
  <2>2. ASSUME NEW c \in Conns, phase \in {"up", "stopping"}, state[c] = "read",
               wire[c] = "open", client[c] = "well", c \notin hindered
        PROVE  age'[c] = 1 /\ beat' = "due"
    <3>1. at[c] = None /\ beatAt = None
      BY <2>2
    <3>2. c \notin pinged
      BY <1>3, <2>2, <3>1 DEF Tick, Ready, CanRead
    <3>3. age[c] = 0
      BY <1>3, <2>2, <3>2 DEF Tick
    <3> QED
      BY <1>3, <2>2, <3>1, <3>3, TimeoutAssumption DEF Tick, Listed
  <2> QED
    BY <2>1, <2>2
<1> QED
  BY <1>1, <1>2, <1>3

\* Every step.
LEMMA ClockNext ==
  ASSUME Types, ClockInv, [Next]_<<vars, waits>>, Timeout >= 2
  PROVE  ClockInv' /\ [Spared]_vars
<1>1. CASE UNCHANGED vars
  BY <1>1 DEF vars, peers, handlers, clocks, heart, main, ClockInv, Remembered, InTime
<1> QED
  BY <1>1, ClockPeers, ClockHandlers, ClockHeart, ClockMain DEF Next, Chance, Stopped

\* The heartbeat closes no client that reads and answers, unless something kept
\* it from hearing of that client, if HEARTBEAT_TIMEOUT is twice the interval.
THEOREM NobodyDropped == ASSUME Timeout >= 2 PROVE Spec => NoFalseTimeout
<1>1. Init => ClockInv
  BY DEF Init, ClockInv, Remembered, InTime
<1>2. Types /\ ClockInv /\ [Next]_<<vars, waits>> => ClockInv' /\ [Spared]_vars
  BY ClockNext
<1> QED
  BY <1>1, <1>2, TypeInit, TypeNext, PTL DEF Spec, NoFalseTimeout, Spared

=============================================================================
