---------------------------- MODULE MCChatDelivery ----------------------------
(* Small instances of ChatDelivery for TLC.                                 *)
EXTENDS ChatDelivery, TLC

CONSTANTS c1, c2, c3

\* The handlers run the same code; c3 is the connection that breaks.
Interchangeable == Permutations({c1, c2}) \cup Permutations(Users)

\* Bound: two handlers are at work at a time, those that are to clean up included.
TwoAtOnce ==
  Cardinality({c \in Conns : job[c] # <<>> \/ state[c] \in {"error", "cut"}}) <= 2
=============================================================================
