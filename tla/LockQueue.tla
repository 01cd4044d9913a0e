------------------------------ MODULE LockQueue ------------------------------
(* A lock's queue: its holder, then the tasks that wait for it, in the      *)
(* order they asked.                                                        *)
EXTENDS Naturals, Sequences

In(q, t) == \E i \in 1..Len(q) : q[i] = t

NoTwice(q) == \A i, j \in 1..Len(q) : q[i] = q[j] => i = j

\* a runs before b.
Ahead(q, a, b) == \E i, j \in 1..Len(q) : i < j /\ q[i] = a /\ q[j] = b

Place(q, t) == CHOOSE i \in 1..Len(q) : q[i] = t

\* The queue when t gives up its place.
Without(q, t) ==
  IF In(q, t)
  THEN [i \in 1..(Len(q) - 1) |-> IF i < Place(q, t) THEN q[i] ELSE q[i + 1]]
  ELSE q
=============================================================================
