------------------------------ MODULE Presence ------------------------------
(* What the chat server promises about presence: at any moment each user is *)
(* in exactly one channel or offline, and goes from one to the next in a    *)
(* single step.  Once the server has shut down, nothing is promised.        *)
CONSTANTS Users, Rooms, General

VARIABLES
  present,  \* the pairs <<user, channel>> a membership query would list
  open      \* the server has not shut down

vars == <<present, open>>

In(u, c) == <<u, c>>

Offline(u) == \A c \in Rooms : In(u, c) \notin present

\* Everything the table says of users other than u.
Others(u) == {p \in present : p[1] # u}

Init == present = {} /\ open = TRUE

Arrive(u) ==
  /\ open /\ Offline(u)
  /\ present' = present \cup {In(u, General)}
  /\ UNCHANGED open

Leave(u) ==
  /\ open /\ ~Offline(u)
  /\ present' = Others(u)
  /\ UNCHANGED open

Switch(u, c) ==
  /\ open /\ ~Offline(u) /\ In(u, c) \notin present
  /\ present' = Others(u) \cup {In(u, c)}
  /\ UNCHANGED open

Close ==
  /\ open /\ open' = FALSE
  /\ present' = {}

Closed == ~open /\ UNCHANGED open /\ present' \subseteq Users \X Rooms

Next ==
  \/ \E u \in Users : Arrive(u) \/ Leave(u) \/ \E c \in Rooms : Switch(u, c)
  \/ Close \/ Closed

Spec == Init /\ [][Next]_vars
=============================================================================
