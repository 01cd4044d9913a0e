--------------------------- MODULE DownloadsProofs ---------------------------
(* Proofs about Downloads for any number of transfers of one name, of any   *)
(* length, and any number of crashes.                                       *)
EXTENDS Downloads, FiniteSetTheorems, WellFoundedInduction, SequenceTheorems, TLAPS

-----------------------------------------------------------------------------
(* The inductive invariant.                                                 *)

\* File f has to do with name k: it is there, or on its way there, or is
\* written by a receive that is after it.
At(f, k) ==
  \/ part[k] = f \/ final[k] = f
  \/ \E r \in Transfers : handle[r] = f /\ slot[r] = k

\* A receive has its file open while it takes chunks, of which some are missing.
TaskInv ==
  \A t \in Transfers :
    /\ handle[t] # None <=> pc[t] = "data"
    /\ pc[t] \in {"idle", "ready"} => got[t] = 0
    /\ pc[t] = "data" => got[t] < Size[t]
    /\ pc[t] = "trailer" => got[t] = Size[t]

\* A file has to do with one name only, and a transfer's file with none before it
\* is opened.
FileInv ==
  /\ \A f \in Files \ {None} : \A j, k \in Slots : At(f, j) /\ At(f, k) => j = k
  /\ \A t \in Transfers : \A k \in Slots : At(t, k) => pc[t] \notin {"idle", "ready"}

\* The first n chunks of t's file.
Own(t, n) == [i \in 1..n |-> t]

\* A receive that has never had a rival has its own chunks under its name, and
\* once it is done, nobody is after that name any more.
AloneInv ==
  /\ \A t, r \in Transfers :
       t # r /\ Active(t) /\ Active(r) /\ slot[t] = slot[r] => ~alone[t]
  /\ \A t \in Transfers : alone[t] =>
       /\ pc[t] = "data" =>
            handle[t] = part[slot[t]] /\ content[handle[t]] = Own(t, got[t])
       /\ pc[t] = "trailer" =>
            part[slot[t]] # None /\ content[part[slot[t]]] = Own(t, Size[t])
       /\ pc[t] = "done" =>
            Intact(t) /\ \A r \in Transfers : Active(r) => slot[r] # slot[t]

\* Nobody is after the name of the user's file.
UserInv ==
  User # None =>
    /\ final[0] = User /\ content[User] = <<User>>
    /\ \A t \in Transfers : Active(t) => slot[t] # 0

DInv == TaskInv /\ FileInv /\ AloneInv /\ UserInv /\ NoLeftovers

-----------------------------------------------------------------------------
(* Names.                                                                   *)

\* A set of numbers that is not empty has a least element.
LEMMA Least ==
  ASSUME NEW S \in SUBSET Nat, S # {}
  PROVE  \E k \in S : \A j \in S : j >= k
<1> DEFINE R == OpToRel(<, Nat)
<1>1. IsWellFoundedOn(R, Nat)
  BY NatLessThanWellFounded
<1>2. \A x, y \in Nat : y < x => <<y, x>> \in R
  BY DEF OpToRel
<1> HIDE DEF R
<1>3. PICK x \in S : \A y \in S : ~(<<y, x>> \in R)
  BY <1>1, WFMin
<1>4. ASSUME NEW y \in S PROVE y >= x
  <2>1. ~(y < x)
    BY <1>2, <1>3
  <2> QED
    BY <2>1
<1> QED
  BY <1>4

\* As long as a transfer has yet to begin, there is a free name: the files of the
\* others and the user's are too few.
LEMMA SomeFree ==
  ASSUME TypeOK, FileInv, NEW t \in Transfers, pc[t] = "idle"
  PROVE  \E k \in Slots : final[k] = None
<1> SUFFICES ASSUME \A k \in Slots : final[k] # None PROVE FALSE
  OBVIOUS
<1> DEFINE T == (Transfers \ {t}) \cup {User}
<1>1. IsFiniteSet(T) /\ Cardinality(T) < Cardinality(Slots) /\ IsFiniteSet(Slots)
  <2>1. IsFiniteSet(Slots) /\ Cardinality(Slots) = LastSlot + 1
    BY FS_Interval, SlotAssumption DEF Slots
  <2>2. IsFiniteSet(Transfers \ {t}) /\ Cardinality(Transfers \ {t}) = Cardinality(Transfers) - 1
    BY FS_RemoveElement, SlotAssumption
  <2>3. IsFiniteSet(T) /\ Cardinality(T) <= Cardinality(Transfers)
    <3>1. User \notin Transfers \ {t}
      BY UserAssumption
    <3>2. IsFiniteSet(T) /\ Cardinality(T) = Cardinality(Transfers \ {t}) + 1
      BY <2>2, <3>1, FS_AddElement
    <3> QED
      BY <2>2, <3>2, FS_CardinalityType, SlotAssumption
  <2> QED
    BY <2>1, <2>3, FS_CardinalityType, SlotAssumption
<1>2. ASSUME NEW k \in Slots PROVE final[k] \in T
  <2>1. final[k] \in Files /\ At(final[k], k)
    BY DEF TypeOK, At
  <2> QED
    BY <2>1 DEF Files, FileInv
<1>3. final \in [Slots -> T]
  BY <1>2 DEF TypeOK
<1> HIDE DEF T
<1>4. PICK j, k \in Slots : j # k /\ final[j] = final[k]
  BY <1>1, <1>3, FS_PigeonHole
<1>5. final[j] \in Files \ {None} /\ At(final[j], j) /\ At(final[j], k)
  BY <1>4 DEF TypeOK, At
<1> QED
  BY <1>4, <1>5 DEF FileInv

\* unique_path finds a name that is free.
LEMMA FreeSlotIsFree ==
  ASSUME TypeOK, FileInv, NEW t \in Transfers, pc[t] = "idle"
  PROVE  FreeSlot \in Slots /\ final[FreeSlot] = None
<1> DEFINE S == {k \in Slots : final[k] = None}
<1>1. S \in SUBSET Nat /\ S # {}
  BY SomeFree DEF Slots
<1>2. PICK k \in S : \A j \in S : j >= k
  BY <1>1, Least
<1>3. ASSUME NEW j \in 0..(k - 1) PROVE final[j] # None
  <2>1. j \in Slots /\ ~(j >= k)
    BY <1>2, SlotAssumption DEF Slots
  <2> QED
    BY <1>2, <2>1
<1>4. \E i \in Slots : final[i] = None /\ \A j \in 0..(i - 1) : final[j] # None
  BY <1>2, <1>3
<1> QED
  BY <1>4 DEF FreeSlot

-----------------------------------------------------------------------------
(* Contents.                                                                *)

\* What is written at any place makes a file.
LEMMA PutAtType ==
  ASSUME NEW s \in Seq(Chunks), NEW n \in Nat \ {0}, NEW c \in Chunks
  PROVE  PutAt(s, n, c) \in Seq(Chunks)
<1> DEFINE m == IF n > Len(s) THEN n ELSE Len(s)
<1>1. m \in Nat
  OBVIOUS
<1>2. ASSUME NEW i \in 1..m
      PROVE  (IF i = n THEN c ELSE IF i <= Len(s) THEN s[i] ELSE None) \in Chunks
  BY DEF Chunks
<1> QED
  BY <1>1, <1>2 DEF PutAt

\* The next of one's own chunks.
LEMMA PutAtOwn ==
  ASSUME NEW t \in Transfers, NEW n \in Nat
  PROVE  PutAt(Own(t, n), n + 1, t) = Own(t, n + 1)
<1>1. Own(t, n) \in Seq(Transfers) /\ Len(Own(t, n)) = n
  BY DEF Own
<1> QED
  BY <1>1 DEF PutAt, Own

-----------------------------------------------------------------------------
(* Types, and which receive has a file open.                                *)

\* A receive that takes chunks writes to a file.
LEMMA HandleFile ==
  ASSUME TypeOK, TaskInv, NEW t \in Transfers, pc[t] = "data"
  PROVE  handle[t] \in Files /\ handle[t] # None
BY DEF TypeOK, TaskInv

\* Every step keeps the types.
LEMMA TypeNext ==
  ASSUME TypeOK, TaskInv, FileInv, [Next]_vars
  PROVE  TypeOK' /\ TaskInv'
<1>0. /\ final \in [Slots -> Files \cup {None}] /\ part \in [Slots -> Files \cup {None}]
      /\ content \in [Files -> Seq(Chunks)]
      /\ pc \in [Transfers -> InFlight \cup {"idle", "done", "failed"}]
      /\ slot \in [Transfers -> Slots] /\ got \in [Transfers -> Nat]
      /\ \A t \in Transfers : got[t] <= Size[t]
      /\ handle \in [Transfers -> Files \cup {None}] /\ alone \in [Transfers -> BOOLEAN]
      /\ crashes \in 0..MaxCrashes
      /\ Size \in [Transfers -> Nat \ {0}] /\ MaxCrashes \in Nat
  BY SizeAssumption, CrashAssumption DEF TypeOK
<1>1. ASSUME NEW t \in Transfers, Begin(t) PROVE TypeOK' /\ TaskInv'
  <2>1. FreeSlot \in Slots
    BY <1>1, FreeSlotIsFree DEF Begin
  <2>2. TypeOK'
    BY <1>0, <1>1, <2>1 DEF Begin, TypeOK, InFlight, dir
  <2>3. TaskInv'
    BY <1>0, <1>1 DEF Begin, TaskInv
  <2> QED
    BY <2>2, <2>3
<1>2. ASSUME NEW t \in Transfers, Open(t) PROVE TypeOK' /\ TaskInv'
  <2> DEFINE f == IF part[slot[t]] = None THEN t ELSE part[slot[t]]
  <2>1. f \in Files /\ f # None /\ <<>> \in Seq(Chunks) /\ slot[t] \in Slots
    BY <1>0, UserAssumption DEF Files
  <2>2. /\ part' = [part EXCEPT ![slot[t]] = f] /\ content' = [content EXCEPT ![f] = <<>>]
        /\ handle' = [handle EXCEPT ![t] = f] /\ pc' = [pc EXCEPT ![t] = "data"]
        /\ pc[t] = "ready" /\ UNCHANGED <<final, slot, got, alone, crashes>>
    BY <1>2 DEF Open
  <2> HIDE DEF f
  <2>3. TypeOK'
    BY <1>0, <2>1, <2>2 DEF TypeOK, InFlight
  <2>4. TaskInv'
    BY <1>0, <2>1, <2>2 DEF TaskInv
  <2> QED
    BY <2>3, <2>4
<1>3. ASSUME NEW t \in Transfers, Chunk(t) PROVE TypeOK' /\ TaskInv'
  <2>1. /\ handle[t] \in Files /\ handle[t] # None /\ got[t] < Size[t]
        /\ got[t] + 1 \in Nat \ {0} /\ t \in Chunks
    BY <1>0, <1>3, HandleFile DEF Chunk, TaskInv, Chunks
  <2>2. PutAt(content[handle[t]], got[t] + 1, t) \in Seq(Chunks)
    BY <1>0, <2>1, PutAtType
  <2>3. content' \in [Files -> Seq(Chunks)]
    BY <1>0, <1>3, <2>1, <2>2 DEF Chunk
  <2>4. got' \in [Transfers -> Nat] /\ \A r \in Transfers : got'[r] <= Size[r]
    BY <1>0, <1>3, <2>1 DEF Chunk
  <2>5. TypeOK'
    BY <1>0, <1>3, <2>3, <2>4 DEF Chunk, TypeOK, InFlight
  <2>6. TaskInv'
    BY <1>0, <1>3, <2>1 DEF Chunk, TaskInv
  <2> QED
    BY <2>5, <2>6
<1>4. ASSUME NEW t \in Transfers, Deliver(t) \/ Fail(t) \/ DeliverFails(t) PROVE TypeOK' /\ TaskInv'
  <2>1. /\ slot[t] \in Slots
        /\ part' \in [Slots -> Files \cup {None}] /\ final' \in [Slots -> Files \cup {None}]
    BY <1>0, <1>4 DEF Deliver, Fail, DeliverFails, dir
  <2>2. \E how \in {"done", "failed"} : End(t, how)
    BY <1>4 DEF Deliver, Fail, DeliverFails
  <2>3. UNCHANGED <<content, slot, got, alone, crashes>>
    BY <1>4 DEF Deliver, Fail, DeliverFails, dir
  <2>4. TypeOK'
    BY <1>0, <2>1, <2>2, <2>3 DEF End, TypeOK
  <2>5. TaskInv'
    BY <1>0, <2>2, <2>3 DEF End, TaskInv
  <2> QED
    BY <2>4, <2>5
<1>5. ASSUME Crash PROVE TypeOK' /\ TaskInv'
  BY <1>0, <1>5 DEF Crash, TypeOK, TaskInv, Active, InFlight, dir
<1>6. CASE UNCHANGED vars
  BY <1>6 DEF vars, dir, task, TypeOK, TaskInv
<1> QED
  BY <1>1, <1>2, <1>3, <1>4, <1>5, <1>6 DEF Next, Done

-----------------------------------------------------------------------------
(* Which name a file has to do with.                                        *)

\* A step after which every file that has to do with a name had to do with it
\* before, and no receive goes back.
LEMMA FileKept ==
  ASSUME FileInv,
         \A f \in Files \ {None} : \A k \in Slots : At(f, k)' => At(f, k),
         \A t \in Transfers : pc'[t] \in {"idle", "ready"} => pc[t] \in {"idle", "ready"}
  PROVE  FileInv'
<1>1. Transfers \subseteq Files \ {None}
  BY UserAssumption DEF Files
<1> QED
  BY <1>1 DEF FileInv

\* Every step keeps FileInv.
LEMMA FileNext ==
  ASSUME TypeOK, TaskInv, FileInv, [Next]_vars
  PROVE  FileInv'
<1>0. /\ final \in [Slots -> Files \cup {None}] /\ part \in [Slots -> Files \cup {None}]
      /\ pc \in [Transfers -> InFlight \cup {"idle", "done", "failed"}]
      /\ slot \in [Transfers -> Slots]
      /\ handle \in [Transfers -> Files \cup {None}]
      /\ None \notin Transfers /\ Transfers \subseteq Files \ {None}
  BY UserAssumption DEF TypeOK, Files
<1>1. ASSUME NEW t \in Transfers, Begin(t) PROVE FileInv'
  <2>1. handle[t] = None /\ UNCHANGED <<final, part, handle>>
    BY <1>1 DEF Begin, TaskInv, dir
  <2>2. \A r \in Transfers \ {t} : slot'[r] = slot[r]
    BY <1>0, <1>1 DEF Begin
  <2>3. \A f \in Files \ {None} : \A k \in Slots : At(f, k)' => At(f, k)
    BY <2>1, <2>2 DEF At
  <2>4. \A r \in Transfers : pc'[r] \in {"idle", "ready"} => pc[r] \in {"idle", "ready"}
    BY <1>0, <1>1 DEF Begin
  <2> QED
    BY <2>3, <2>4, FileKept
<1>2. ASSUME NEW t \in Transfers, Open(t) PROVE FileInv'
  <2> DEFINE f == IF part[slot[t]] = None THEN t ELSE part[slot[t]]
  <2>1. f \in Files /\ f # None /\ slot[t] \in Slots
    BY <1>0 DEF Files
  <2>2. /\ part' = [part EXCEPT ![slot[t]] = f]
        /\ handle' = [handle EXCEPT ![t] = f] /\ pc' = [pc EXCEPT ![t] = "data"]
        /\ pc[t] = "ready" /\ UNCHANGED <<final, slot>>
    BY <1>2 DEF Open
  <2>3. /\ part[slot[t]] # None => At(f, slot[t])
        /\ part[slot[t]] = None => f = t
    BY DEF At
  <2> HIDE DEF f
  <2>4. \A g \in Files \ {None} : \A k \in Slots :
          At(g, k)' => At(g, k) \/ (g = f /\ k = slot[t])
    BY <1>0, <2>1, <2>2 DEF At
  <2>5. \A k \in Slots : ~At(t, k)
    BY <2>2 DEF FileInv
  <2>6. \A g \in Files \ {None} : \A j, k \in Slots : At(g, j)' /\ At(g, k)' => j = k
    BY <1>0, <2>1, <2>3, <2>4, <2>5 DEF FileInv
  <2>7. ASSUME NEW r \in Transfers, NEW k \in Slots, At(r, k)' PROVE pc'[r] \notin {"idle", "ready"}
    <3>1. CASE r = t
      BY <1>0, <2>2, <3>1
    <3>2. CASE r # t
      <4>1. At(r, k)
        BY <1>0, <2>1, <2>3, <2>4, <2>7, <3>2
      <4> QED
        BY <1>0, <2>2, <3>2, <4>1 DEF FileInv
    <3> QED
      BY <3>1, <3>2
  <2> QED
    BY <2>6, <2>7 DEF FileInv
<1>3. ASSUME NEW t \in Transfers, Chunk(t) PROVE FileInv'
  <2>1. \A f \in Files \ {None} : \A k \in Slots : At(f, k)' => At(f, k)
    BY <1>0, <1>3 DEF Chunk, At
  <2>2. \A r \in Transfers : pc'[r] \in {"idle", "ready"} => pc[r] \in {"idle", "ready"}
    BY <1>0, <1>3 DEF Chunk
  <2> QED
    BY <2>1, <2>2, FileKept
<1>4. ASSUME NEW t \in Transfers, Deliver(t) \/ Fail(t) \/ DeliverFails(t) PROVE FileInv'
  <2>1. \E how \in {"done", "failed"} : End(t, how)
    BY <1>4 DEF Deliver, Fail, DeliverFails
  <2>2. \A r \in Transfers : pc'[r] \in {"idle", "ready"} => pc[r] \in {"idle", "ready"}
    BY <1>0, <2>1 DEF End
  <2>3. \A k \in Slots : /\ part'[k] \in {part[k], None}
                         /\ final'[k] \in {final[k], part[k]}
    BY <1>0, <1>4 DEF Deliver, Fail, DeliverFails, dir
  <2>4. slot' = slot /\ \A r \in Transfers : handle'[r] \in {handle[r], None}
    BY <1>0, <1>4, <2>1 DEF Deliver, Fail, DeliverFails, End
  <2>5. \A f \in Files \ {None} : \A k \in Slots : At(f, k)' => At(f, k)
    BY <2>3, <2>4 DEF At
  <2> QED
    BY <2>2, <2>5, FileKept
<1>5. ASSUME Crash PROVE FileInv'
  <2>1. \A f \in Files \ {None} : \A k \in Slots : At(f, k)' => At(f, k)
    BY <1>5 DEF Crash, At, dir
  <2>2. \A r \in Transfers : pc'[r] \in {"idle", "ready"} => pc[r] \in {"idle", "ready"}
    BY <1>0, <1>5 DEF Crash
  <2> QED
    BY <2>1, <2>2, FileKept
<1>6. CASE UNCHANGED vars
  BY <1>6 DEF vars, dir, task, FileInv, At
<1> QED
  BY <1>1, <1>2, <1>3, <1>4, <1>5, <1>6 DEF Next, Done

-----------------------------------------------------------------------------
(* The user's file, and what is left over.                                  *)

\* Every step leaves the user's file alone.
LEMMA UserNext ==
  ASSUME TypeOK, TaskInv, FileInv, UserInv, [Next]_vars
  PROVE  UserInv'
<1> SUFFICES ASSUME User # None PROVE UserInv'
  BY DEF UserInv
<1>0. /\ final[0] = User /\ content[User] = <<User>> /\ At(User, 0)
      /\ \A t \in Transfers : Active(t) => slot[t] # 0
      /\ 0 \in Slots /\ User \in Files \ {None} /\ User \notin Transfers
  BY UserAssumption, SlotAssumption DEF UserInv, At, Slots, Files
<1>1. /\ final \in [Slots -> Files \cup {None}]
      /\ content \in [Files -> Seq(Chunks)]
      /\ pc \in [Transfers -> InFlight \cup {"idle", "done", "failed"}]
      /\ slot \in [Transfers -> Slots]
  BY DEF TypeOK
<1>2. \A k \in Slots : At(User, k) => k = 0
  BY <1>0 DEF FileInv
<1>3. ASSUME NEW t \in Transfers, Begin(t) PROVE UserInv'
  <2>1. FreeSlot # 0
    BY <1>0, <1>3, FreeSlotIsFree DEF Begin
  <2> QED
    BY <1>0, <1>1, <1>3, <2>1 DEF Begin, UserInv, Active, dir
<1>4. ASSUME NEW t \in Transfers, Open(t) PROVE UserInv'
  <2>1. Active(t) /\ slot[t] \in Slots /\ slot[t] # 0
    BY <1>0, <1>1, <1>4 DEF Open, Active, InFlight
  <2>2. (IF part[slot[t]] = None THEN t ELSE part[slot[t]]) # User
    BY <1>0, <1>2, <2>1 DEF At
  <2>3. content'[User] = content[User] /\ final' = final /\ slot' = slot
    BY <1>0, <1>1, <1>4, <2>2 DEF Open
  <2>4. \A r \in Transfers : Active(r)' => Active(r)
    BY <1>1, <1>4, <2>1 DEF Open, Active
  <2> QED
    BY <1>0, <2>3, <2>4 DEF UserInv
<1>5. ASSUME NEW t \in Transfers, Chunk(t) PROVE UserInv'
  <2>1. Active(t) /\ slot[t] \in Slots /\ slot[t] # 0
    BY <1>0, <1>1, <1>5 DEF Chunk, Active, InFlight
  <2>2. handle[t] # User
    BY <1>2, <2>1 DEF At
  <2>3. content'[User] = content[User] /\ final' = final /\ slot' = slot
    BY <1>0, <1>1, <1>5, <2>2 DEF Chunk
  <2>4. \A r \in Transfers : Active(r)' => Active(r)
    BY <1>1, <1>5, <2>1 DEF Chunk, Active
  <2> QED
    BY <1>0, <2>3, <2>4 DEF UserInv
<1>6. ASSUME NEW t \in Transfers, Deliver(t) \/ Fail(t) \/ DeliverFails(t) PROVE UserInv'
  <2>1. Active(t)
    BY <1>6 DEF Deliver, Fail, DeliverFails, Active, InFlight
  <2>2. final'[0] = final[0] /\ UNCHANGED <<content, slot>>
    BY <1>0, <1>1, <1>6, <2>1 DEF Deliver, Fail, DeliverFails, dir
  <2>3. \A r \in Transfers : Active(r)' => Active(r)
    BY <1>1, <1>6, <2>1 DEF Deliver, Fail, DeliverFails, End, Active
  <2> QED
    BY <1>0, <2>2, <2>3 DEF UserInv
<1>7. ASSUME Crash PROVE UserInv'
  BY <1>0, <1>7 DEF Crash, UserInv, Active, InFlight, dir
<1>8. CASE UNCHANGED vars
  BY <1>0, <1>8 DEF vars, dir, task, UserInv, Active
<1> QED
  BY <1>3, <1>4, <1>5, <1>6, <1>7, <1>8 DEF Next, Done

\* Every step but a crash leaves a .part file to a receive that is under way.
LEMMA LeftoversNext ==
  ASSUME TypeOK, NoLeftovers, [Next]_vars
  PROVE  NoLeftovers'
<1>0. /\ part \in [Slots -> Files \cup {None}]
      /\ pc \in [Transfers -> InFlight \cup {"idle", "done", "failed"}]
      /\ slot \in [Transfers -> Slots] /\ crashes \in Nat
  BY CrashAssumption DEF TypeOK
<1>1. ASSUME NEW t \in Transfers, Begin(t) \/ Open(t) \/ Chunk(t) PROVE NoLeftovers'
  <2>1. Active(t)' /\ \A r \in Transfers : Active(r) => Active(r)' /\ slot'[r] = slot[r]
    BY <1>0, <1>1 DEF Begin, Open, Chunk, Active, InFlight
  <2>2. \A k \in Slots : part'[k] = part[k] \/ k = slot'[t]
    BY <1>0, <1>1 DEF Begin, Open, Chunk, dir
  <2>3. crashes' = crashes
    BY <1>1 DEF Begin, Open, Chunk
  <2> QED
    BY <2>1, <2>2, <2>3 DEF NoLeftovers
<1>2. ASSUME NEW t \in Transfers, Deliver(t) \/ Fail(t) \/ DeliverFails(t) PROVE NoLeftovers'
  <2>1. part'[slot[t]] = None /\ \A k \in Slots : part'[k] \in {part[k], None}
    BY <1>0, <1>2 DEF Deliver, Fail, DeliverFails, dir
  <2>2. \A r \in Transfers \ {t} : Active(r) => Active(r)' /\ slot'[r] = slot[r]
    BY <1>0, <1>2 DEF Deliver, Fail, DeliverFails, End, Active
  <2>3. crashes' = crashes
    BY <1>2 DEF Deliver, Fail, DeliverFails
  <2> QED
    BY <2>1, <2>2, <2>3 DEF NoLeftovers
<1>3. ASSUME Crash PROVE NoLeftovers'
  BY <1>0, <1>3 DEF Crash, NoLeftovers
<1>4. CASE UNCHANGED vars
  BY <1>4 DEF vars, dir, task, NoLeftovers, Active
<1> QED
  BY <1>1, <1>2, <1>3, <1>4 DEF Next, Done

-----------------------------------------------------------------------------
(* A receive without rivals.                                                *)

\* The file that a receive has under its name, before and after it is delivered.
Mine(t) == IF pc[t] = "done" THEN final[slot[t]] ELSE part[slot[t]]

\* What a receive that has never had a rival has so far.
OwnFile(t) ==
  /\ pc[t] \in {"data", "trailer", "done"} => Mine(t) # None
  /\ pc[t] = "data" => handle[t] = Mine(t) /\ content[Mine(t)] = Own(t, got[t])
  /\ pc[t] \in {"trailer", "done"} => content[Mine(t)] = Own(t, Size[t])

\* AloneInv, in these terms.
LEMMA AloneParts ==
  ASSUME TaskInv
  PROVE  AloneInv <=>
           /\ \A t, r \in Transfers :
                t # r /\ (Active(t) \/ pc[t] = "done") /\ Active(r) /\ slot[t] = slot[r]
                  => ~alone[t]
           /\ \A t \in Transfers : alone[t] => OwnFile(t)
<1>1. \A t \in Transfers : pc[t] = "data" => handle[t] # None
  BY DEF TaskInv
<1>2. \A t \in Transfers : pc[t] = "done" => ~Active(t)
  BY DEF Active, InFlight
<1> DEFINE Apart == \A t, r \in Transfers :
                      t # r /\ (Active(t) \/ pc[t] = "done") /\ Active(r) /\ slot[t] = slot[r]
                        => ~alone[t]
           Alike(t) ==
             /\ pc[t] = "data" =>
                  handle[t] = part[slot[t]] /\ content[handle[t]] = Own(t, got[t])
             /\ pc[t] = "trailer" =>
                  part[slot[t]] # None /\ content[part[slot[t]]] = Own(t, Size[t])
             /\ pc[t] = "done" => Intact(t)
<1>3. ASSUME NEW t \in Transfers PROVE Alike(t) <=> OwnFile(t)
  BY <1>1, <1>3 DEF OwnFile, Mine, Intact, Own
<1>4. AloneInv <=> Apart /\ \A t \in Transfers : alone[t] => Alike(t)
  BY <1>2 DEF AloneInv
<1> HIDE DEF Alike
<1> QED
  BY <1>3, <1>4

\* Another receive, which is under way, has to do with another file.
LEMMA Apart ==
  ASSUME TypeOK, TaskInv, FileInv, AloneInv,
         NEW t \in Transfers, alone[t], pc[t] \in {"data", "trailer", "done"},
         NEW r \in Transfers, r # t, Active(r)
  PROVE  /\ slot[r] # slot[t]
         /\ handle[r] # Mine(t)
         /\ part[slot[r]] # Mine(t)
         /\ pc[r] = "ready" => r # Mine(t)
         /\ Mine(t) \in Files \ {None}
<1>1. slot[r] # slot[t] /\ OwnFile(t)
  BY AloneParts DEF Active, InFlight
<1>2. slot[r] \in Slots /\ slot[t] \in Slots
  BY DEF TypeOK
<1>3. Mine(t) \in Files \ {None} /\ At(Mine(t), slot[t])
  BY <1>1, <1>2 DEF OwnFile, Mine, At, TypeOK
<1>4. handle[r] # Mine(t)
  <2>1. At(handle[r], slot[r])
    BY DEF At
  <2> QED
    BY <1>1, <1>2, <1>3, <2>1 DEF FileInv
<1>5. part[slot[r]] # Mine(t)
  <2>1. At(part[slot[r]], slot[r])
    BY DEF At
  <2> QED
    BY <1>1, <1>2, <1>3, <2>1 DEF FileInv
<1>6. pc[r] = "ready" => r # Mine(t)
  BY <1>2, <1>3 DEF FileInv
<1> QED
  BY <1>1, <1>3, <1>4, <1>5, <1>6

\* Every step keeps AloneInv.
LEMMA AloneNext ==
  ASSUME TypeOK, TaskInv, FileInv, AloneInv, [Next]_vars
  PROVE  AloneInv'
<1>0. /\ final \in [Slots -> Files \cup {None}] /\ part \in [Slots -> Files \cup {None}]
      /\ content \in [Files -> Seq(Chunks)]
      /\ pc \in [Transfers -> InFlight \cup {"idle", "done", "failed"}]
      /\ slot \in [Transfers -> Slots] /\ got \in [Transfers -> Nat]
      /\ handle \in [Transfers -> Files \cup {None}] /\ alone \in [Transfers -> BOOLEAN]
      /\ None \notin Transfers /\ Transfers \subseteq Files
  BY UserAssumption DEF TypeOK, Files
<1>1. /\ TaskInv'
      /\ \A t, r \in Transfers :
           t # r /\ (Active(t) \/ pc[t] = "done") /\ Active(r) /\ slot[t] = slot[r] => ~alone[t]
      /\ \A t \in Transfers : alone[t] => OwnFile(t)
  BY AloneParts, TypeNext
<1>2. ASSUME \A t, r \in Transfers :
               t # r /\ (Active(t) \/ pc[t] = "done")' /\ Active(r)' /\ slot'[t] = slot'[r]
                 => ~alone'[t],
             \A t \in Transfers : alone'[t] => OwnFile(t)'
      PROVE  AloneInv'
  <2>1. \A t \in Transfers : /\ pc'[t] = "data" => handle'[t] # None
                            /\ pc'[t] = "done" => ~Active(t)'
    BY <1>1 DEF TaskInv, Active, InFlight
  <2> QED
    BY <1>2, <2>1 DEF AloneInv, OwnFile, Mine, Intact, Own
<1>3. ASSUME NEW b \in Transfers, Begin(b) PROVE AloneInv'
  <2> DEFINE k == FreeSlot
  <2>1. /\ pc[b] = "idle" /\ pc' = [pc EXCEPT ![b] = "ready"] /\ slot' = [slot EXCEPT ![b] = k]
        /\ alone' = [r \in Transfers |->
                       alone[r] /\ r \notin Rivals(b, k) /\ (r = b => Rivals(b, k) = {})]
        /\ UNCHANGED <<final, part, content, got, handle>>
    BY <1>3 DEF Begin, dir
  <2>2. k \in Slots /\ final[k] = None
    BY <2>1, FreeSlotIsFree
  <2> HIDE DEF k
  <2>3. /\ \A r \in Transfers \ {b} : pc'[r] = pc[r] /\ slot'[r] = slot[r]
        /\ pc'[b] = "ready" /\ slot'[b] = k
    BY <1>0, <2>1
  <2>4. \A r \in Transfers : alone'[r] => alone[r]
    BY <2>1
  <2>5. ASSUME NEW t \in Transfers, NEW r \in Transfers, t # r,
               pc'[t] \in InFlight \/ pc'[t] = "done",
               pc'[r] \in InFlight, slot'[t] = slot'[r], alone'[t]
        PROVE  FALSE
    <3>1. CASE t = b
      <4>1. r \in Rivals(b, k)
        BY <2>3, <2>5, <3>1 DEF Rivals, Active
      <4> QED
        BY <2>1, <2>5, <3>1, <4>1
    <3>2. CASE r = b /\ Active(t)
      <4>1. slot[t] = k
        BY <2>3, <2>5, <3>2
      <4>2. t \in Rivals(b, k)
        BY <2>5, <3>2, <4>1 DEF Rivals
      <4> QED
        BY <2>1, <2>5, <4>2
    <3>3. CASE r = b /\ pc[t] = "done"
      <4>1. alone[t] /\ slot[t] = k
        BY <2>3, <2>4, <2>5, <3>3
      <4>2. final[slot[t]] # None
        BY <1>1, <3>3, <4>1 DEF OwnFile, Mine
      <4> QED
        BY <2>2, <4>1, <4>2
    <3>4. CASE t # b /\ r # b
      BY <1>1, <2>3, <2>4, <2>5, <3>4 DEF Active
    <3> QED
      BY <2>3, <2>5, <3>1, <3>2, <3>3, <3>4 DEF Active
  <2>6. ASSUME NEW t \in Transfers, alone'[t] PROVE OwnFile(t)'
    <3>1. CASE t = b
      BY <2>3, <3>1 DEF OwnFile
    <3>2. CASE t # b
      BY <1>1, <2>1, <2>3, <2>4, <2>6, <3>2 DEF OwnFile, Mine
    <3> QED
      BY <3>1, <3>2
  <2> QED
    BY <1>2, <2>5, <2>6 DEF Active
<1>4. ASSUME NEW b \in Transfers, Open(b) PROVE AloneInv'
  <2> DEFINE f == IF part[slot[b]] = None THEN b ELSE part[slot[b]]
  <2>1. f \in Files /\ f # None /\ slot[b] \in Slots
    BY <1>0
  <2>2. /\ part' = [part EXCEPT ![slot[b]] = f] /\ content' = [content EXCEPT ![f] = <<>>]
        /\ handle' = [handle EXCEPT ![b] = f] /\ pc' = [pc EXCEPT ![b] = "data"]
        /\ pc[b] = "ready" /\ UNCHANGED <<final, slot, got, alone>>
    BY <1>4 DEF Open
  <2>3. f = b \/ f = part[slot[b]]
    OBVIOUS
  <2> HIDE DEF f
  <2>4. Active(b) /\ Active(b)' /\ \A r \in Transfers : (Active(r)' <=> Active(r))
    BY <1>0, <2>2 DEF Active, InFlight
  <2>5. ASSUME NEW t \in Transfers, alone'[t] PROVE OwnFile(t)'
    <3>1. CASE t = b
      <4>1. Own(b, 0) = <<>> /\ got'[b] = 0
        BY <2>2 DEF Own, TaskInv
      <4> QED
        BY <1>0, <2>1, <2>2, <3>1, <4>1 DEF OwnFile, Mine
    <3>2. CASE t # b /\ pc[t] \in {"data", "trailer", "done"}
      <4>1. slot[b] # slot[t] /\ f # Mine(t) /\ Mine(t) \in Files
        BY <2>2, <2>3, <2>4, <2>5, <3>2, Apart
      <4>2. /\ Mine(t)' = Mine(t) /\ pc'[t] = pc[t] /\ handle'[t] = handle[t] /\ got'[t] = got[t]
            /\ content'[Mine(t)] = content[Mine(t)]
        BY <1>0, <2>1, <2>2, <3>2, <4>1 DEF Mine
      <4> QED
        BY <1>1, <2>2, <2>5, <4>2 DEF OwnFile
    <3>3. CASE t # b /\ pc[t] \notin {"data", "trailer", "done"}
      BY <1>0, <2>2, <3>3 DEF OwnFile
    <3> QED
      BY <3>1, <3>2, <3>3
  <2>6. \A t \in Transfers : pc'[t] = "done" => pc[t] = "done"
    BY <1>0, <2>2
  <2> QED
    BY <1>1, <1>2, <2>2, <2>4, <2>5, <2>6
<1>5. ASSUME NEW b \in Transfers, Chunk(b) PROVE AloneInv'
  <2>1. /\ pc[b] = "data" /\ got' = [got EXCEPT ![b] = got[b] + 1]
        /\ content' = [content EXCEPT ![handle[b]] = PutAt(content[handle[b]], got[b] + 1, b)]
        /\ \/ got[b] + 1 = Size[b] /\ pc' = [pc EXCEPT ![b] = "trailer"]
              /\ handle' = [handle EXCEPT ![b] = None]
           \/ got[b] + 1 # Size[b] /\ UNCHANGED <<pc, handle>>
        /\ UNCHANGED <<final, part, slot, alone>>
    BY <1>5 DEF Chunk
  <2>2. handle[b] \in Files /\ handle[b] # None
    BY <2>1, HandleFile
  <2>3. Active(b) /\ \A r \in Transfers : (Active(r)' <=> Active(r))
    BY <1>0, <2>1 DEF Active, InFlight
  <2>4. ASSUME NEW t \in Transfers, alone'[t] PROVE OwnFile(t)'
    <3>1. CASE t = b
      <4>1. handle[b] = Mine(b) /\ content[Mine(b)] = Own(b, got[b]) /\ Mine(b) # None
        BY <1>1, <2>1, <2>4, <3>1 DEF OwnFile
      <4>2. content'[Mine(b)] = Own(b, got[b] + 1)
        BY <1>0, <2>1, <2>2, <4>1, PutAtOwn
      <4>3. Mine(b)' = Mine(b) /\ got'[b] = got[b] + 1
        BY <1>0, <2>1 DEF Mine
      <4> QED
        BY <1>0, <2>1, <3>1, <4>1, <4>2, <4>3 DEF OwnFile
    <3>2. CASE t # b /\ pc[t] \in {"data", "trailer", "done"}
      <4>1. handle[b] # Mine(t) /\ Mine(t) \in Files
        BY <2>1, <2>3, <2>4, <3>2, Apart
      <4>2. /\ Mine(t)' = Mine(t) /\ pc'[t] = pc[t] /\ handle'[t] = handle[t] /\ got'[t] = got[t]
            /\ content'[Mine(t)] = content[Mine(t)]
        BY <1>0, <2>1, <2>2, <3>2, <4>1 DEF Mine
      <4> QED
        BY <1>1, <2>1, <2>4, <4>2 DEF OwnFile
    <3>3. CASE t # b /\ pc[t] \notin {"data", "trailer", "done"}
      BY <1>0, <2>1, <3>3 DEF OwnFile
    <3> QED
      BY <3>1, <3>2, <3>3
  <2>5. \A t \in Transfers : pc'[t] = "done" => pc[t] = "done"
    BY <1>0, <2>1
  <2> QED
    BY <1>1, <1>2, <2>1, <2>3, <2>4, <2>5
<1>6. ASSUME NEW b \in Transfers, Deliver(b) \/ Fail(b) \/ DeliverFails(b) PROVE AloneInv'
  <2>1. PICK how \in {"done", "failed"} : End(b, how)
    BY <1>6 DEF Deliver, Fail, DeliverFails
  <2>2. Active(b) /\ UNCHANGED <<content, slot, got, alone>>
    BY <1>6 DEF Deliver, Fail, DeliverFails, dir, Active, InFlight
  <2>3. /\ pc'[b] = how /\ \A r \in Transfers \ {b} : pc'[r] = pc[r] /\ handle'[r] = handle[r]
    BY <1>0, <2>1 DEF End
  <2>4. \A k \in Slots \ {slot[b]} : part'[k] = part[k] /\ final'[k] = final[k]
    BY <1>0, <1>6 DEF Deliver, Fail, DeliverFails, dir
  <2>5. how = "done" => /\ pc[b] = "trailer" /\ final'[slot[b]] = part[slot[b]]
                        /\ part[slot[b]] # None
    BY <1>0, <1>6, <2>1, <2>3 DEF Deliver, Fail, DeliverFails, End
  <2>6. ASSUME NEW t \in Transfers, alone'[t] PROVE OwnFile(t)'
    <3>1. CASE t = b
      BY <1>0, <1>1, <2>2, <2>3, <2>5, <2>6, <3>1 DEF OwnFile, Mine
    <3>2. CASE t # b /\ pc[t] \in {"data", "trailer", "done"}
      <4>1. slot[b] # slot[t] /\ slot[t] \in Slots
        BY <1>0, <2>2, <2>6, <3>2, Apart
      <4>2. Mine(t)' = Mine(t) /\ pc'[t] = pc[t] /\ handle'[t] = handle[t]
        BY <2>2, <2>3, <2>4, <3>2, <4>1 DEF Mine
      <4> QED
        BY <1>1, <2>2, <2>6, <4>2 DEF OwnFile
    <3>3. CASE t # b /\ pc[t] \notin {"data", "trailer", "done"}
      BY <2>3, <3>3 DEF OwnFile
    <3> QED
      BY <3>1, <3>2, <3>3
  <2>7. \A r \in Transfers : Active(r)' => Active(r) /\ r # b
    BY <2>1, <2>3 DEF Active, InFlight
  <2>8. \A t \in Transfers : pc'[t] = "done" => pc[t] = "done" \/ Active(t)
    BY <2>2, <2>3
  <2> QED
    BY <1>1, <1>2, <2>2, <2>6, <2>7, <2>8
<1>7. ASSUME Crash PROVE AloneInv'
  <2>1. \A t \in Transfers : ~Active(t)' /\ (pc'[t] = "done" => pc[t] = "done")
    BY <1>0, <1>7 DEF Crash, Active, InFlight
  <2>2. UNCHANGED <<final, part, content, slot, got, alone>>
    BY <1>7 DEF Crash, dir
  <2>3. ASSUME NEW t \in Transfers, alone'[t] PROVE OwnFile(t)'
    BY <1>1, <2>1, <2>2, <2>3 DEF OwnFile, Mine, Active, InFlight
  <2> QED
    BY <1>2, <2>1, <2>3
<1>8. CASE UNCHANGED vars
  <2>1. \A t \in Transfers : (Active(t)' <=> Active(t)) /\ (OwnFile(t)' <=> OwnFile(t))
    BY <1>8 DEF vars, dir, task, Active, OwnFile, Mine
  <2> QED
    BY <1>1, <1>2, <1>8, <2>1 DEF vars, dir, task
<1> QED
  BY <1>3, <1>4, <1>5, <1>6, <1>7, <1>8 DEF Next, Done

-----------------------------------------------------------------------------
(* The theorems.                                                            *)

\* The invariant holds throughout.
LEMMA InvCorrect == Spec => [](TypeOK /\ DInv)
<1>1. Init => TypeOK
  <2>1. <<>> \in Seq(Chunks) /\ <<User>> \in Seq(Chunks) /\ 0 \in 0..MaxCrashes /\ 0 \in Slots
    BY CrashAssumption, SlotAssumption DEF Chunks, Slots
  <2> QED
    BY <2>1, SizeAssumption DEF Init, TypeOK, Files
<1>2. Init => DInv
  BY UserAssumption, SizeAssumption, SlotAssumption
     DEF Init, DInv, TaskInv, FileInv, At, AloneInv, UserInv, NoLeftovers, Active, InFlight, Files,
         Slots
<1>3. TypeOK /\ DInv /\ [Next]_vars => (TypeOK /\ DInv)'
  BY TypeNext, FileNext, AloneNext, UserNext, LeftoversNext DEF DInv
<1> QED
  BY <1>1, <1>2, <1>3, PTL DEF Spec

\* Type correctness: in particular, there is always a free name to be found.
THEOREM TypeCorrect == Spec => []TypeOK
BY InvCorrect, PTL

\* A transfer reported as received is on disk, whole and unmixed, if no other was
\* after the same name meanwhile.
THEOREM SoleReceiptKept == Spec => []SoleReceiptIntact
<1>1. DInv => SoleReceiptIntact
  BY DEF DInv, AloneInv, SoleReceiptIntact
<1> QED
  BY <1>1, InvCorrect, PTL

\* However receives overlap, succeed and fail, the file the user had before is left
\* alone, and a receive without a rival keeps its .part file until it renames it
\* (filetransfer.py:295, 312, 325).
THEOREM OthersFilesSafe == Spec => []OthersFilesKept
<1>1. DInv => UserFileKept
  BY DEF DInv, UserInv, UserFileKept
<1>2. DInv => SolePartKept
  <2> SUFFICES ASSUME DInv, NEW t \in Transfers, alone[t], pc[t] \in {"data", "trailer"}
               PROVE  part[slot[t]] # None /\ (pc[t] = "data" => handle[t] = part[slot[t]])
    BY DEF SolePartKept
  <2>1. pc[t] = "data" => handle[t] # None /\ handle[t] = part[slot[t]]
    BY DEF DInv, TaskInv, AloneInv
  <2>2. pc[t] = "trailer" => part[slot[t]] # None
    BY DEF DInv, AloneInv
  <2> QED
    BY <2>1, <2>2
<1> QED
  BY <1>1, <1>2, InvCorrect, PTL DEF OthersFilesKept

\* Unless the client was killed, no .part file outlives its transfer.
THEOREM NothingLeft == Spec => []NoLeftovers
<1>1. DInv => NoLeftovers
  BY DEF DInv
<1> QED
  BY <1>1, InvCorrect, PTL

=============================================================================
