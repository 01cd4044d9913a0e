------------------------------ MODULE Downloads ------------------------------
(* IncomingTransfer._receive of filetransfer.py, for several accepted files *)
(* of one name arriving at the same client: how the downloads directory     *)
(* changes while the receive tasks interleave at their awaits.  A receive   *)
(* picks the first free name, writes "<name>.part", and renames it when the *)
(* checksum of what came over the wire is right.                            *)
EXTENDS Naturals, Sequences, FiniteSets

CONSTANTS
  Transfers,   \* the transfers whose file has this name
  Size,        \* Size[t]: the number of chunks of t's file
  LastSlot,    \* names "a", "a (1)", ..., "a (LastSlot)" are in play
  User,        \* a file of that name the user had before, or None
  None,
  MaxCrashes   \* bound on how often the client is killed

ASSUME SizeAssumption == Size \in [Transfers -> Nat \ {0}]
ASSUME SlotAssumption ==
  IsFiniteSet(Transfers) /\ LastSlot \in Nat /\ LastSlot >= Cardinality(Transfers)
ASSUME UserAssumption == None \notin Transfers /\ User \notin Transfers
ASSUME CrashAssumption == MaxCrashes \in Nat

Slots == 0..LastSlot

VARIABLES
  final,    \* which file each name holds; None when there is none
  part,     \* which file each name's ".part" holds
  content,  \* the chunks of each file, by the transfer that wrote them
  pc,       \* how far each receive is
  slot,     \* final_path and part_path, as a number
  got,      \* chunks received
  handle,   \* the file fh is open on (an unlinked or renamed file stays open)
  alone,    \* no other receive has been after the same name at the same time
  crashes

dir  == <<final, part, content>>
task == <<pc, slot, got, handle, alone>>
vars == <<dir, task, crashes>>

Files == Transfers \cup {User}
Chunks == Transfers \cup {User, None}   \* None is a hole left by a seek

InFlight == {"ready", "data", "trailer"}

Active(t) == pc[t] \in InFlight
Rivals(t, k) == {r \in Transfers \ {t} : Active(r) /\ slot[r] = k}

TypeOK ==
  /\ final \in [Slots -> Files \cup {None}]
  /\ part \in [Slots -> Files \cup {None}]
  /\ content \in [Files -> Seq(Chunks)]
  /\ pc \in [Transfers -> InFlight \cup {"idle", "done", "failed"}]
  /\ slot \in [Transfers -> Slots]
  /\ got \in [Transfers -> Nat] /\ \A t \in Transfers : got[t] <= Size[t]
  /\ handle \in [Transfers -> Files \cup {None}]
  /\ alone \in [Transfers -> BOOLEAN]
  /\ crashes \in 0..MaxCrashes

Init ==
  /\ final = [k \in Slots |-> IF k = 0 THEN User ELSE None]
  /\ part = [k \in Slots |-> None]
  /\ content = [f \in Files |-> IF f = User THEN <<User>> ELSE <<>>]
  /\ pc = [t \in Transfers |-> "idle"]
  /\ slot = [t \in Transfers |-> 0]
  /\ got = [t \in Transfers |-> 0]
  /\ handle = [t \in Transfers |-> None]
  /\ alone = [t \in Transfers |-> TRUE]
  /\ crashes = 0

\* unique_path: the first name that does not exist; ".part" is not looked at.
FreeSlot == CHOOSE k \in Slots : final[k] = None /\ \A j \in 0..(k - 1) : final[j] # None

Begin(t) ==
  LET k == FreeSlot IN
  /\ pc[t] = "idle"
  /\ pc' = [pc EXCEPT ![t] = "ready"]
  /\ slot' = [slot EXCEPT ![t] = k]
  /\ alone' = [r \in Transfers |->
                 alone[r] /\ r \notin Rivals(t, k) /\ (r = t => Rivals(t, k) = {})]
  /\ UNCHANGED <<dir, got, handle, crashes>>

\* FILE_DATA_READY is sent; open(part_path, "wb") creates or truncates.
Open(t) ==
  LET k == slot[t]
      f == IF part[k] = None THEN t ELSE part[k] IN
  /\ pc[t] = "ready"
  /\ part' = [part EXCEPT ![k] = f]
  /\ content' = [content EXCEPT ![f] = <<>>]
  /\ handle' = [handle EXCEPT ![t] = f]
  /\ pc' = [pc EXCEPT ![t] = "data"]
  /\ UNCHANGED <<final, slot, got, alone, crashes>>

\* c is written at position n of s, past the end if need be.
PutAt(s, n, c) ==
  [i \in 1..(IF n > Len(s) THEN n ELSE Len(s)) |->
     IF i = n THEN c ELSE IF i <= Len(s) THEN s[i] ELSE None]

\* Mutant: one chunk more than the size is read.
ChunkOver(t) ==
  LET n == got[t] + 1 IN
  /\ pc[t] = "data"
  /\ got' = [got EXCEPT ![t] = n]
  /\ content' = [content EXCEPT ![handle[t]] = PutAt(@, n, t)]
  /\ IF n > Size[t]
     THEN /\ pc' = [pc EXCEPT ![t] = "trailer"]
          /\ handle' = [handle EXCEPT ![t] = None]
     ELSE UNCHANGED <<pc, handle>>
  /\ UNCHANGED <<final, part, slot, alone, crashes>>

\* A chunk arrives and is written at this handle's own position; after the
\* last one the file is closed.
Chunk(t) ==
  LET n == got[t] + 1 IN
  /\ pc[t] = "data"
  /\ got' = [got EXCEPT ![t] = n]
  /\ content' = [content EXCEPT ![handle[t]] = PutAt(@, n, t)]
  /\ IF n = Size[t]
     THEN /\ pc' = [pc EXCEPT ![t] = "trailer"]
          /\ handle' = [handle EXCEPT ![t] = None]
     ELSE UNCHANGED <<pc, handle>>
  /\ UNCHANGED <<final, part, slot, alone, crashes>>

End(t, how) ==
  /\ pc' = [pc EXCEPT ![t] = how]
  /\ handle' = [handle EXCEPT ![t] = None]

\* Mutant: the file is kept before its checksum has come.
DeliverEarly(t) ==
  LET k == slot[t] IN
  /\ pc[t] \in {"data", "trailer"}
  /\ part[k] # None
  /\ final' = [final EXCEPT ![k] = part[k]]
  /\ part' = [part EXCEPT ![k] = None]
  /\ End(t, "done")
  /\ UNCHANGED <<content, slot, got, alone, crashes>>

\* The trailer's checksum is that of the bytes received: os.replace.
Deliver(t) ==
  LET k == slot[t] IN
  /\ pc[t] = "trailer"
  /\ part[k] # None
  /\ final' = [final EXCEPT ![k] = part[k]]
  /\ part' = [part EXCEPT ![k] = None]
  /\ End(t, "done")
  /\ UNCHANGED <<content, slot, got, alone, crashes>>

\* Mutant: the .part file of a failed transfer is kept.
FailKeeps(t) ==
  /\ Active(t)
  /\ End(t, "failed")
  /\ UNCHANGED <<dir, slot, got, alone, crashes>>

\* Mutant: every .part file is removed.
FailSweeps(t) ==
  /\ Active(t)
  /\ part' = [k \in Slots |-> None]
  /\ End(t, "failed")
  /\ UNCHANGED <<final, content, slot, got, alone, crashes>>

\* The sender goes, times out or sends a wrong checksum, or the disk fails:
\* the .part file is removed, if there is one by that name.
Fail(t) ==
  /\ Active(t)
  /\ part' = [part EXCEPT ![slot[t]] = None]
  /\ End(t, "failed")
  /\ UNCHANGED <<final, content, slot, got, alone, crashes>>

\* The checksum is right but os.replace finds no .part file.
DeliverFails(t) ==
  /\ pc[t] = "trailer"
  /\ part[slot[t]] = None
  /\ End(t, "failed")
  /\ UNCHANGED <<dir, slot, got, alone, crashes>>

\* The client is killed; the directory stays as it is.
Crash ==
  /\ crashes < MaxCrashes
  /\ \E t \in Transfers : Active(t)
  /\ crashes' = crashes + 1
  /\ pc' = [t \in Transfers |-> IF Active(t) THEN "failed" ELSE pc[t]]
  /\ handle' = [t \in Transfers |-> None]
  /\ UNCHANGED <<dir, slot, got, alone>>

Done == (\A t \in Transfers : pc[t] \in {"done", "failed"}) /\ UNCHANGED vars

Next ==
  \/ \E t \in Transfers :
       Begin(t) \/ Open(t) \/ Chunk(t) \/ Deliver(t) \/ DeliverFails(t) \/ Fail(t)
  \/ Crash
  \/ Done

Spec == Init /\ [][Next]_vars

-----------------------------------------------------------------------------
(* Properties                                                               *)

\* t's file, all of it and nothing else.
Intact(t) ==
  LET f == final[slot[t]] IN
  f # None /\ content[f] = [i \in 1..Size[t] |-> t]

\* A transfer reported as received is on disk under the name reported, whole
\* and unmixed, from then on, if no other was after the same name meanwhile;
\* also when an earlier client was killed and left its .part file behind.
SoleReceiptIntact == \A t \in Transfers : pc[t] = "done" /\ alone[t] => Intact(t)

\* "Integrity is verified" (README.md:192) and "nothing is ever overwritten"
\* (README.md:177): every transfer reported as received is on disk, under the
\* name reported, as the sender sent it.
ReceiptIntact == \A t \in Transfers : pc[t] = "done" => Intact(t)

\* The file the user had before.
UserFileKept ==
  User # None => final[0] = User /\ content[User] = <<User>>

\* A receive that has never had a rival for its name finds its own .part file.
SolePartKept ==
  \A t \in Transfers : alone[t] /\ pc[t] \in {"data", "trailer"} =>
    part[slot[t]] # None /\ (pc[t] = "data" => handle[t] = part[slot[t]])

\* Receives rename, truncate and remove by name (filetransfer.py:295, 312, 325),
\* those that fail as well as those that succeed: whatever the overlaps, the file
\* the user had before is left alone, and a receive that has had no rival for its
\* name has its .part file until it renames it.  (Rivals lose theirs.)
OthersFilesKept == UserFileKept /\ SolePartKept

\* "A corrupt or truncated transfer is deleted, not kept" (README.md:194): a
\* .part file belongs to a transfer in progress, unless the client was killed.
NoLeftovers ==
  crashes = 0 =>
    \A k \in Slots : part[k] # None => \E t \in Transfers : Active(t) /\ slot[t] = k
=============================================================================
