--------------------------- MODULE LockQueueProofs ---------------------------
(* Lemmas about a lock's queue, for every queue and every set of tasks.     *)
EXTENDS LockQueue, SequenceTheorems, TLAPS

\* A task that asks for the lock comes last.
LEMMA AppendFacts ==
  ASSUME NEW S, NEW q \in Seq(S), NEW t \in S
  PROVE  /\ Append(q, t) \in Seq(S)
         /\ \A x : In(Append(q, t), x) <=> In(q, x) \/ x = t
         /\ NoTwice(q) /\ ~In(q, t) => NoTwice(Append(q, t))
         /\ \A a, b : Ahead(Append(q, t), a, b) <=> Ahead(q, a, b) \/ (In(q, a) /\ b = t)
<1> DEFINE r == Append(q, t)
<1>1. r \in Seq(S) /\ Len(q) \in Nat /\ Len(r) = Len(q) + 1
  OBVIOUS
<1>2. r[Len(r)] = t /\ \A i \in 1..Len(q) : r[i] = q[i]
  OBVIOUS
<1> HIDE DEF r
<1>3. \A i : i \in 1..Len(r) <=> i \in 1..Len(q) \/ i = Len(r)
  BY <1>1
<1>4. \A x : In(r, x) <=> In(q, x) \/ x = t
  BY <1>1, <1>2, <1>3 DEF In
<1>5. NoTwice(q) /\ ~In(q, t) => NoTwice(r)
  BY <1>1, <1>2, <1>3 DEF In, NoTwice
<1>6. \A a, b : Ahead(r, a, b) <=> Ahead(q, a, b) \/ (In(q, a) /\ b = t)
  <2> SUFFICES ASSUME NEW a, NEW b
               PROVE  Ahead(r, a, b) <=> Ahead(q, a, b) \/ (In(q, a) /\ b = t)
    OBVIOUS
  <2>1. Ahead(r, a, b) => Ahead(q, a, b) \/ (In(q, a) /\ b = t)
    BY <1>1, <1>2, <1>3 DEF In, Ahead
  <2>2. Ahead(q, a, b) => Ahead(r, a, b)
    BY <1>1, <1>2, <1>3 DEF In, Ahead
  <2>3. In(q, a) /\ b = t => Ahead(r, a, b)
    BY <1>1, <1>2, <1>3 DEF In, Ahead
  <2> QED
    BY <2>1, <2>2, <2>3
<1> QED
  BY <1>1, <1>4, <1>5, <1>6 DEF r

\* The holder gives the lock up.
LEMMA TailFacts ==
  ASSUME NEW S, NEW q \in Seq(S), q # <<>>, NoTwice(q)
  PROVE  /\ Tail(q) \in Seq(S)
         /\ NoTwice(Tail(q))
         /\ \A x : In(Tail(q), x) <=> In(q, x) /\ x # Head(q)
         /\ \A a, b : Ahead(Tail(q), a, b) <=> Ahead(q, a, b) /\ a # Head(q)
<1> DEFINE r == Tail(q)
<1>1. r \in Seq(S) /\ Len(q) \in Nat /\ Len(r) = Len(q) - 1 /\ Len(q) >= 1
  OBVIOUS
<1>2. Head(q) = q[1] /\ \A i \in 1..Len(r) : r[i] = q[i + 1]
  OBVIOUS
<1> HIDE DEF r
<1>3. NoTwice(r)
  BY <1>1, <1>2 DEF NoTwice
<1>4. \A x : In(r, x) <=> In(q, x) /\ x # Head(q)
  <2> SUFFICES ASSUME NEW x PROVE In(r, x) <=> In(q, x) /\ x # Head(q)
    OBVIOUS
  <2>1. In(r, x) => In(q, x) /\ x # Head(q)
    BY <1>1, <1>2 DEF In, NoTwice
  <2>2. ASSUME In(q, x), x # Head(q) PROVE In(r, x)
    <3>1. PICK i \in 1..Len(q) : q[i] = x
      BY <2>2 DEF In
    <3>2. i - 1 \in 1..Len(r) /\ r[i - 1] = x
      BY <1>1, <1>2, <2>2, <3>1
    <3> QED
      BY <3>2 DEF In
  <2> QED
    BY <2>1, <2>2
<1>5. \A a, b : Ahead(r, a, b) <=> Ahead(q, a, b) /\ a # Head(q)
  <2> SUFFICES ASSUME NEW a, NEW b PROVE Ahead(r, a, b) <=> Ahead(q, a, b) /\ a # Head(q)
    OBVIOUS
  <2>1. ASSUME Ahead(r, a, b) PROVE Ahead(q, a, b) /\ a # Head(q)
    <3>1. PICK i \in 1..Len(r), j \in 1..Len(r) : i < j /\ r[i] = a /\ r[j] = b
      BY <2>1 DEF Ahead
    <3>2. i + 1 \in 1..Len(q) /\ j + 1 \in 1..Len(q) /\ i + 1 < j + 1
      BY <1>1, <3>1
    <3>3. q[i + 1] = a /\ q[j + 1] = b
      BY <1>2, <3>1
    <3> QED
      BY <1>1, <1>2, <3>2, <3>3 DEF Ahead, NoTwice
  <2>2. ASSUME Ahead(q, a, b), a # Head(q) PROVE Ahead(r, a, b)
    <3>1. PICK i \in 1..Len(q), j \in 1..Len(q) : i < j /\ q[i] = a /\ q[j] = b
      BY <2>2 DEF Ahead
    <3>2. i - 1 \in 1..Len(r) /\ j - 1 \in 1..Len(r) /\ i - 1 < j - 1
      BY <1>1, <1>2, <2>2, <3>1
    <3>3. r[i - 1] = a /\ r[j - 1] = b
      BY <1>1, <1>2, <3>1, <3>2
    <3> QED
      BY <3>2, <3>3 DEF Ahead
  <2> QED
    BY <2>1, <2>2
<1> QED
  BY <1>1, <1>3, <1>4, <1>5 DEF r

\* The holder is ahead of all others, and nobody is ahead of it.
LEMMA HeadFacts ==
  ASSUME NEW S, NEW q \in Seq(S), q # <<>>, NoTwice(q)
  PROVE  /\ In(q, Head(q)) /\ Head(q) \in S
         /\ \A x : In(q, x) /\ x # Head(q) => Ahead(q, Head(q), x)
         /\ \A x : ~Ahead(q, x, Head(q))
<1>1. Len(q) \in Nat /\ Len(q) >= 1 /\ Head(q) = q[1] /\ q[1] \in S
  OBVIOUS
<1> QED
  BY <1>1 DEF In, Ahead, NoTwice

\* The order is strict, and between tasks in the queue.
LEMMA AheadFacts ==
  ASSUME NEW S, NEW q \in Seq(S), NoTwice(q)
  PROVE  \A a, b : Ahead(q, a, b) => In(q, a) /\ In(q, b) /\ a # b /\ ~Ahead(q, b, a)
BY Len(q) \in Nat DEF In, Ahead, NoTwice

\* The holder queues up again, behind all others.
LEMMA AgainFacts ==
  ASSUME NEW S, NEW q \in Seq(S), q # <<>>, NoTwice(q)
  PROVE  LET h == Head(q)
             r == Append(Tail(q), h) IN
         /\ r \in Seq(S)
         /\ NoTwice(r)
         /\ \A x : In(r, x) <=> In(q, x)
         /\ \A a, b : Ahead(r, a, b) <=> /\ a # h
                                         /\ Ahead(q, a, b) \/ (In(q, a) /\ b = h)
<1>1. Head(q) \in S /\ In(q, Head(q))
  BY HeadFacts
<1>2. /\ Tail(q) \in Seq(S) /\ NoTwice(Tail(q)) 
      /\ \A x : In(Tail(q), x) <=> In(q, x) /\ x # Head(q)
      /\ \A a, b : Ahead(Tail(q), a, b) <=> Ahead(q, a, b) /\ a # Head(q)
  BY TailFacts
<1> DEFINE t == Tail(q)
           h == Head(q)
<1> HIDE DEF t, h
<1>3. /\ Append(t, h) \in Seq(S)
      /\ \A x : In(Append(t, h), x) <=> In(t, x) \/ x = h
      /\ NoTwice(t) /\ ~In(t, h) => NoTwice(Append(t, h))
      /\ \A a, b : Ahead(Append(t, h), a, b) <=> Ahead(t, a, b) \/ (In(t, a) /\ b = h)
  BY <1>1, <1>2, AppendFacts DEF t, h
<1> QED
  BY <1>1, <1>2, <1>3 DEF t, h

-----------------------------------------------------------------------------
(* A task that gives up its place.                                          *)

\* The place of a task that is in the queue is its only one.
LEMMA PlaceFacts ==
  ASSUME NEW S, NEW q \in Seq(S), NEW t, NoTwice(q), In(q, t)
  PROVE  /\ Place(q, t) \in 1..Len(q)
         /\ \A i \in 1..Len(q) : q[i] = t <=> i = Place(q, t)
BY DEF In, Place, NoTwice

\* What is left of the queue, place by place.
LEMMA WithoutPlaces ==
  ASSUME NEW S, NEW q \in Seq(S), NEW t, NoTwice(q), In(q, t)
  PROVE  /\ Without(q, t) \in Seq(S \ {t})
         /\ Len(Without(q, t)) = Len(q) - 1
         /\ \A i \in 1..(Len(q) - 1) : i < Place(q, t) => Without(q, t)[i] = q[i]
         /\ \A i \in 1..(Len(q) - 1) : i >= Place(q, t) => Without(q, t)[i] = q[i + 1]
<1>1. Place(q, t) \in 1..Len(q) /\ \A i \in 1..Len(q) : q[i] = t <=> i = Place(q, t)
  BY PlaceFacts
<1>2. Len(q) \in Nat /\ Len(q) - 1 \in Nat
  BY <1>1
<1>3. Without(q, t) = [i \in 1..(Len(q) - 1) |-> IF i < Place(q, t) THEN q[i] ELSE q[i + 1]]
  BY DEF Without
<1>4. \A i \in 1..(Len(q) - 1) : (IF i < Place(q, t) THEN q[i] ELSE q[i + 1]) \in S \ {t}
  BY <1>1, <1>2
<1>5. Without(q, t) \in Seq(S \ {t})
  BY <1>2, <1>3, <1>4, IsASeq
<1>6. Len(Without(q, t)) = Len(q) - 1
  BY <1>2, <1>3, <1>5
<1>7. ASSUME NEW i \in 1..(Len(q) - 1)
      PROVE  /\ i < Place(q, t) => Without(q, t)[i] = q[i]
             /\ i >= Place(q, t) => Without(q, t)[i] = q[i + 1]
  BY <1>1, <1>2, <1>3
<1> QED
  BY <1>5, <1>6, <1>7

\* Others that ask come last there, too.
LEMMA WithoutAppend ==
  ASSUME NEW S, NEW q \in Seq(S), NEW t, NEW x \in S, NoTwice(q), ~In(q, x), x # t
  PROVE  Without(Append(q, x), t) = Append(Without(q, t), x)
<1> DEFINE r == Append(q, x)
<1>1. r \in Seq(S) /\ Len(q) \in Nat /\ Len(r) = Len(q) + 1 /\ r[Len(r)] = x
      /\ \A i \in 1..Len(q) : r[i] = q[i]
  OBVIOUS
<1>2. In(r, t) <=> In(q, t)
  BY AppendFacts
<1>3. CASE ~In(q, t)
  BY <1>2, <1>3 DEF Without
<1>4. CASE In(q, t)
  <2>1. /\ Place(q, t) \in 1..Len(q)
        /\ \A i \in 1..Len(q) : q[i] = t <=> i = Place(q, t)
    BY <1>4, PlaceFacts
  <2>0. /\ Without(q, t) \in Seq(S \ {t})
        /\ Len(Without(q, t)) = Len(q) - 1
        /\ \A i \in 1..(Len(q) - 1) : i < Place(q, t) => Without(q, t)[i] = q[i]
        /\ \A i \in 1..(Len(q) - 1) : i >= Place(q, t) => Without(q, t)[i] = q[i + 1]
    BY <1>4, WithoutPlaces, ZenonT(60)
  <2> HIDE DEF r
  <2>2. \A i \in 1..Len(r) : r[i] = t <=> i = Place(q, t)
    BY <1>1, <2>1, <2>0 DEF NoTwice
  <2>3. Place(r, t) = Place(q, t)
    <3>1. Place(r, t) \in 1..Len(r) /\ r[Place(r, t)] = t
      BY <1>2, <1>4 DEF In, Place
    <3> QED
      BY <2>2, <3>1
  <2>4. /\ NoTwice(r)
        /\ Len(Without(r, t)) = Len(q) /\ Without(r, t) \in Seq(S)
        /\ \A i \in 1..Len(q) : i < Place(q, t) => Without(r, t)[i] = r[i]
        /\ \A i \in 1..Len(q) : i >= Place(q, t) => Without(r, t)[i] = r[i + 1]
    <3>1. NoTwice(r)
      BY AppendFacts DEF r
    <3>2. In(r, t) /\ r \in Seq(S)
      BY <1>1, <1>2, <1>4
    <3>3. /\ Without(r, t) \in Seq(S \ {t})
          /\ Len(Without(r, t)) = Len(r) - 1
          /\ \A i \in 1..(Len(r) - 1) : i < Place(r, t) => Without(r, t)[i] = r[i]
          /\ \A i \in 1..(Len(r) - 1) : i >= Place(r, t) => Without(r, t)[i] = r[i + 1]
      BY <3>1, <3>2, WithoutPlaces, ZenonT(60)
    <3>4. Without(r, t) \in Seq(S)
      BY <3>3
    <3>5. Len(r) - 1 = Len(q)
      BY <1>1
    <3> QED
      BY <2>3, <3>1, <3>3, <3>4, <3>5
  <2> DEFINE w == Without(q, t)
             z == Append(w, x)
  <2>5. /\ z \in Seq(S) /\ Len(z) = Len(q) /\ z[Len(q)] = x
        /\ \A i \in 1..(Len(q) - 1) : z[i] = w[i]
    BY <1>1, <2>0
  <2> HIDE DEF w, z
  <2>6. \A i \in 1..Len(q) : Without(r, t)[i] = z[i]
    <3> SUFFICES ASSUME NEW i \in 1..Len(q) PROVE Without(r, t)[i] = z[i]
      OBVIOUS
    <3>1. CASE i = Len(q)
      BY <1>1, <2>1, <2>4, <2>5, <3>1
    <3>2. CASE i < Place(q, t) /\ i # Len(q)
      <4>1. i \in 1..(Len(q) - 1)
        BY <1>1, <3>2
      <4>2. Without(r, t)[i] = r[i] /\ r[i] = q[i]
        BY <1>1, <2>4, <3>2
      <4>3. z[i] = w[i] /\ w[i] = q[i]
        BY <2>0, <2>5, <3>2, <4>1 DEF w
      <4> QED
        BY <4>2, <4>3
    <3>3. CASE i >= Place(q, t) /\ i # Len(q)
      <4>1. i \in 1..(Len(q) - 1) /\ i + 1 \in 1..Len(q)
        BY <1>1, <3>3
      <4>2. Without(r, t)[i] = r[i + 1] /\ r[i + 1] = q[i + 1]
        BY <1>1, <2>4, <3>3, <4>1
      <4>3. z[i] = w[i] /\ w[i] = q[i + 1]
        BY <2>0, <2>5, <3>3, <4>1 DEF w
      <4> QED
        BY <4>2, <4>3
    <3> QED
      BY <2>1, <3>1, <3>2, <3>3
  <2> QED
    BY <2>4, <2>5, <2>6, SeqEqual DEF r, w, z
<1> QED
  BY <1>3, <1>4

\* t itself was last.
LEMMA WithoutLast ==
  ASSUME NEW S, NEW q \in Seq(S), NEW t \in S, NoTwice(q), ~In(q, t)
  PROVE  Without(Append(q, t), t) = q
<1> DEFINE r == Append(q, t)
<1>1. r \in Seq(S) /\ Len(q) \in Nat /\ Len(r) = Len(q) + 1 /\ r[Len(r)] = t
      /\ \A i \in 1..Len(q) : r[i] = q[i]
  OBVIOUS
<1>2. In(r, t) /\ NoTwice(r)
  BY AppendFacts
<1> HIDE DEF r
<1>3. Place(r, t) = Len(r)
  BY <1>1, <1>2, PlaceFacts
<1>4. Without(r, t) = [i \in 1..Len(q) |-> r[i]]
  BY <1>1, <1>2, <1>3 DEF Without
<1>5. q = [i \in 1..Len(q) |-> q[i]]
  OBVIOUS
<1> QED
  BY <1>1, <1>4, <1>5 DEF r

\* Another task that holds the lock holds it there, and gives it up there.
LEMMA WithoutTail ==
  ASSUME NEW S, NEW q \in Seq(S), NEW t, NoTwice(q), q # <<>>, Head(q) # t
  PROVE  /\ Without(q, t) # <<>>
         /\ Head(Without(q, t)) = Head(q)
         /\ Without(Tail(q), t) = Tail(Without(q, t))
<1> DEFINE r == Tail(q)
           w == Without(q, t)
<1>1. CASE ~In(q, t)
  BY <1>1, TailFacts DEF Without
<1>2. CASE In(q, t)
  <2>1. /\ Place(q, t) \in 1..Len(q)
        /\ \A i \in 1..Len(q) : q[i] = t <=> i = Place(q, t)
    BY <1>2, PlaceFacts
  <2>0. /\ w \in Seq(S \ {t})
        /\ Len(w) = Len(q) - 1
        /\ \A i \in 1..(Len(q) - 1) : i < Place(q, t) => w[i] = q[i]
        /\ \A i \in 1..(Len(q) - 1) : i >= Place(q, t) => w[i] = q[i + 1]
    BY <1>2, WithoutPlaces, ZenonT(60)
  <2>2. /\ r \in Seq(S) /\ Len(q) \in Nat /\ Len(r) = Len(q) - 1 /\ Head(q) = q[1]
        /\ \A i \in 1..Len(r) : r[i] = q[i + 1]
    OBVIOUS
  <2>3. In(r, t) /\ NoTwice(r)
    BY <1>2, TailFacts
  <2> HIDE DEF r, w
  <2>4. Place(q, t) > 1 /\ Len(q) > 1
    BY <2>1, <2>0, <2>2
  <2>5. w # <<>> /\ Head(w) = Head(q)
    BY <2>1, <2>0, <2>2, <2>4
  <2>6. Place(r, t) \in 1..Len(r) /\ r[Place(r, t)] = t
    BY <2>3 DEF In, Place
  <2>7. Place(r, t) = Place(q, t) - 1
    <3>1. Place(q, t) - 1 \in 1..Len(r)
      BY <2>1, <2>2, <2>4
    <3>2. r[Place(q, t) - 1] = t
      BY <2>1, <2>2, <2>4, <3>1
    <3> QED
      BY <2>3, <2>6, <3>1, <3>2 DEF NoTwice
  <2>8. /\ Without(r, t) \in Seq(S \ {t})
        /\ Len(Without(r, t)) = Len(r) - 1
        /\ \A i \in 1..(Len(r) - 1) : i < Place(r, t) => Without(r, t)[i] = r[i]
        /\ \A i \in 1..(Len(r) - 1) : i >= Place(r, t) => Without(r, t)[i] = r[i + 1]
    BY <2>2, <2>3, WithoutPlaces
  <2>9. /\ Tail(w) \in Seq(S \ {t}) /\ Len(Tail(w)) = Len(r) - 1
        /\ \A i \in 1..(Len(r) - 1) : Tail(w)[i] = w[i + 1]
    BY <2>2, <2>0, <2>5
  <2>10. \A i \in 1..(Len(r) - 1) : Without(r, t)[i] = Tail(w)[i]
    <3> SUFFICES ASSUME NEW i \in 1..(Len(r) - 1) PROVE Without(r, t)[i] = Tail(w)[i]
      OBVIOUS
    <3>1. i \in Int /\ i + 1 \in 1..(Len(q) - 1) /\ i \in 1..Len(r) /\ i + 1 \in 1..Len(r)
      BY <2>2
    <3>2. CASE i < Place(r, t)
      <4>1. Without(r, t)[i] = r[i]
        BY <2>8, <3>2
      <4>2. r[i] = q[i + 1]
        BY <2>2, <3>1
      <4>3. w[i + 1] = q[i + 1]
        BY <2>0, <2>1, <2>7, <3>1, <3>2
      <4> QED
        BY <2>9, <4>1, <4>2, <4>3
    <3>3. CASE i >= Place(r, t)
      <4>1. Without(r, t)[i] = r[i + 1]
        BY <2>8, <3>3
      <4>2. r[i + 1] = q[(i + 1) + 1]
        BY <2>2, <3>1
      <4>3. i + 1 >= Place(q, t)
        BY <2>1, <2>7, <3>1, <3>3
      <4>4. w[i + 1] = q[(i + 1) + 1]
        BY <2>0, <3>1, <4>3
      <4>5. Tail(w)[i] = w[i + 1]
        BY <2>9
      <4>6. r[i + 1] = w[i + 1]
        BY <4>2, <4>4
      <4> QED
        BY <4>1, <4>5, <4>6
    <3>4. Place(r, t) \in Int
      BY <2>2, <2>6
    <3>5. i < Place(r, t) \/ i >= Place(r, t)
      BY <3>1, <3>4
    <3> QED
      BY <3>2, <3>3, <3>5
  <2>11. Without(r, t) = Tail(w)
    BY <2>8, <2>9, <2>10, SeqEqual
  <2> QED
    BY <2>5, <2>11 DEF r, w
<1> QED
  BY <1>1, <1>2

\* t held the lock and gives it up, or asks again.
LEMMA WithoutHead ==
  ASSUME NEW S, NEW q \in Seq(S), NoTwice(q), q # <<>>
  PROVE  /\ Without(q, Head(q)) = Tail(q)
         /\ Without(Tail(q), Head(q)) = Tail(q)
         /\ Without(Append(Tail(q), Head(q)), Head(q)) = Tail(q)
<1> DEFINE t == Head(q)
<1>1. In(q, t) /\ t \in S /\ ~In(Tail(q), t) /\ Tail(q) \in Seq(S) /\ NoTwice(Tail(q))
  BY HeadFacts, TailFacts
<1>2. Len(q) \in Nat /\ Len(q) >= 1 /\ t = q[1]
  OBVIOUS
<1>3. Place(q, t) = 1
  BY <1>1, <1>2, PlaceFacts
<1>4. /\ Without(q, t) \in Seq(S \ {t})
      /\ Len(Without(q, t)) = Len(q) - 1
      /\ \A i \in 1..(Len(q) - 1) : i >= 1 => Without(q, t)[i] = q[i + 1]
  BY <1>1, <1>3, WithoutPlaces, ZenonT(60)
<1>5. Without(q, t) = Tail(q)
  <2>1. Without(q, t) \in Seq(S)
    BY <1>4
  <2>2. /\ Tail(q) \in Seq(S) /\ Len(Tail(q)) = Len(q) - 1
        /\ \A i \in 1..(Len(q) - 1) : Tail(q)[i] = q[i + 1]
    BY <1>2
  <2>3. ASSUME NEW i \in 1..(Len(q) - 1) PROVE Tail(q)[i] = Without(q, t)[i]
    <3>1. Tail(q)[i] = q[i + 1]
      BY <2>2
    <3>2. Without(q, t)[i] = q[i + 1]
      BY <1>2, <1>4
    <3> QED
      BY <3>1, <3>2
  <2> QED
    BY <1>4, <2>1, <2>2, <2>3, SeqEqual
<1>6. Without(Tail(q), t) = Tail(q)
  BY <1>1 DEF Without
<1>7. Without(Append(Tail(q), t), t) = Tail(q)
  BY <1>1, WithoutLast
<1> QED
  BY <1>5, <1>6, <1>7

\* Nobody else is lost or found.
LEMMA WithoutIn ==
  ASSUME NEW S, NEW q \in Seq(S), NEW t, NoTwice(q)
  PROVE  /\ Without(q, t) \in Seq(S \ {t})
         /\ NoTwice(Without(q, t))
         /\ \A x : In(Without(q, t), x) <=> In(q, x) /\ x # t
<1>1. CASE ~In(q, t)
  <2>1. q \in Seq(S \ {t})
    BY <1>1, IsASeq, Len(q) \in Nat, q = [i \in 1..Len(q) |-> q[i]] DEF In
  <2> QED
    BY <1>1, <2>1 DEF Without
<1>2. CASE In(q, t)
  <2> DEFINE w == Without(q, t)
  <2>1. /\ Place(q, t) \in 1..Len(q)
        /\ \A i \in 1..Len(q) : q[i] = t <=> i = Place(q, t)
    BY <1>2, PlaceFacts
  <2>0. /\ w \in Seq(S \ {t})
        /\ Len(w) = Len(q) - 1
        /\ \A i \in 1..(Len(q) - 1) : i < Place(q, t) => w[i] = q[i]
        /\ \A i \in 1..(Len(q) - 1) : i >= Place(q, t) => w[i] = q[i + 1]
    BY <1>2, WithoutPlaces, ZenonT(60)
  <2>2. Len(q) \in Nat
    OBVIOUS
  <2> HIDE DEF w
  <2>3. NoTwice(w)
    BY <2>1, <2>0, <2>2 DEF NoTwice
  <2>4. \A x : In(w, x) => In(q, x) /\ x # t
    BY <2>1, <2>0, <2>2 DEF In
  <2>5. ASSUME NEW x, In(q, x), x # t PROVE In(w, x)
    <3>1. PICK i \in 1..Len(q) : q[i] = x /\ i # Place(q, t)
      BY <2>1, <2>0, <2>5 DEF In
    <3>2. CASE i < Place(q, t)
      <4>1. i \in 1..Len(w) /\ w[i] = x
        BY <2>1, <2>0, <2>2, <3>1, <3>2
      <4> QED
        BY <4>1 DEF In
    <3>3. CASE i > Place(q, t)
      <4>1. i - 1 \in 1..Len(w) /\ w[i - 1] = x
        BY <2>1, <2>0, <2>2, <3>1, <3>3
      <4> QED
        BY <4>1 DEF In
    <3> QED
      BY <2>1, <2>0, <3>1, <3>2, <3>3
  <2> QED
    BY <2>1, <2>0, <2>3, <2>4, <2>5 DEF w
<1> QED
  BY <1>1, <1>2

\* And the others keep their order.
LEMMA WithoutAhead ==
  ASSUME NEW S, NEW q \in Seq(S), NEW t, NoTwice(q)
  PROVE  \A a, b : a # t /\ b # t => (Ahead(Without(q, t), a, b) <=> Ahead(q, a, b))
<1>1. CASE ~In(q, t)
  BY <1>1 DEF Without
<1>2. CASE In(q, t)
  <2> DEFINE w == Without(q, t)
             p == Place(q, t)
             From(i) == IF i < p THEN i ELSE i + 1
             To(j) == IF j < p THEN j ELSE j - 1
  <2>1. p \in 1..Len(q) /\ \A i \in 1..Len(q) : q[i] = t <=> i = p
    BY <1>2, PlaceFacts
  <2>2. /\ Len(w) = Len(q) - 1
        /\ \A i \in 1..(Len(q) - 1) : i < p => w[i] = q[i]
        /\ \A i \in 1..(Len(q) - 1) : i >= p => w[i] = q[i + 1]
    <3> HIDE DEF From, To
    <3> QED
      BY <1>2, WithoutPlaces, ZenonT(60)
  <2>3. Len(q) \in Nat
    OBVIOUS
  <2> HIDE DEF w, p
  <2>4. \A i \in 1..Len(w) : From(i) \in 1..Len(q) /\ w[i] = q[From(i)]
    BY <2>1, <2>2, <2>3
  <2>5. \A j \in 1..Len(q) : j # p => To(j) \in 1..Len(w) /\ From(To(j)) = j
    BY <2>1, <2>2, <2>3
  <2>6. \A i, j \in 1..Len(w) : i < j => From(i) < From(j)
    BY <2>1, <2>2, <2>3
  <2>7. \A i, j \in 1..Len(q) : i # p /\ j # p /\ i < j => To(i) < To(j)
    BY <2>1, <2>2, <2>3
  <2> HIDE DEF From, To
  <2>8. ASSUME NEW a, NEW b, Ahead(w, a, b) PROVE Ahead(q, a, b)
    BY <2>4, <2>6, <2>8 DEF Ahead
  <2>9. ASSUME NEW a, NEW b, a # t, b # t, Ahead(q, a, b) PROVE Ahead(w, a, b)
    <3>1. PICK i, j \in 1..Len(q) : i < j /\ q[i] = a /\ q[j] = b
      BY <2>9 DEF Ahead
    <3>2. i # p /\ j # p
      BY <2>1, <2>9, <3>1
    <3>3. /\ To(i) \in 1..Len(w) /\ To(j) \in 1..Len(w) /\ To(i) < To(j)
          /\ w[To(i)] = a /\ w[To(j)] = b
      BY <2>4, <2>5, <2>7, <3>1, <3>2
    <3> QED
      BY <3>3 DEF Ahead
  <2> QED
    BY <2>8, <2>9 DEF w
<1> QED
  BY <1>1, <1>2
=============================================================================
