---------------------------- MODULE TransferProofs ----------------------------
(* Proofs about Transfer for any number of strangers at the port, whether   *)
(* or not the sender's machine may vanish, and for either Python.           *)
EXTENDS Transfer, TLAPS

-----------------------------------------------------------------------------
(* Messages under way.                                                      *)

Messages == {"accept", "decline"} \cup Verdicts

Has(q, m) == \E i \in 1..Len(q) : q[i] = m

Once(q, m) == \A i, j \in 1..Len(q) : q[i] = m /\ q[j] = m => i = j

\* Nothing is under way on a new connection.
LEMMA HasNil ==
  ASSUME NEW m PROVE ~Has(<<>>, m) /\ Once(<<>>, m)
BY DEF Has, Once

\* A message is written.
LEMMA HasAppend ==
  ASSUME NEW q \in Seq(Messages), NEW a \in Messages, NEW m
  PROVE  /\ Has(Append(q, a), m) => Has(q, m) \/ a = m
         /\ Once(q, m) /\ (Has(q, m) => a # m) => Once(Append(q, a), m)
<1> DEFINE r == Append(q, a)
<1>1. /\ Len(q) \in Nat /\ Len(r) = Len(q) + 1 /\ r[Len(r)] = a
      /\ \A i \in 1..Len(q) : r[i] = q[i]
  OBVIOUS
<1> HIDE DEF r
<1>2. \A i \in 1..Len(r) : i \in 1..Len(q) \/ i = Len(r)
  BY <1>1
<1>3. Has(r, m) => Has(q, m) \/ a = m
  BY <1>1, <1>2 DEF Has
<1>4. Once(q, m) /\ (Has(q, m) => a # m) => Once(r, m)
  BY <1>1, <1>2 DEF Has, Once
<1> QED
  BY <1>3, <1>4 DEF r

\* The oldest message is read.
LEMMA HasTail ==
  ASSUME NEW q \in Seq(Messages), q # <<>>, NEW m
  PROVE  /\ Tail(q) \in Seq(Messages) /\ Head(q) \in Messages
         /\ Has(Tail(q), m) => Has(q, m)
         /\ Head(q) = m => Has(q, m)
         /\ Once(q, m) => Once(Tail(q), m) /\ (Head(q) = m => ~Has(Tail(q), m))
<1> DEFINE r == Tail(q)
<1>1. /\ Len(q) \in Nat /\ Len(q) >= 1 /\ Len(r) = Len(q) - 1 /\ Head(q) = q[1]
      /\ \A i \in 1..Len(r) : r[i] = q[i + 1]
      /\ r \in Seq(Messages) /\ Head(q) \in Messages
  OBVIOUS
<1> HIDE DEF r
<1>2. 1 \in 1..Len(q) /\ \A i \in 1..Len(r) : i + 1 \in 1..Len(q) /\ i + 1 # 1
  BY <1>1
<1>3. Has(r, m) => Has(q, m)
  BY <1>1, <1>2 DEF Has
<1>4. Head(q) = m => Has(q, m)
  BY <1>1, <1>2 DEF Has
<1>5. ASSUME Once(q, m) PROVE Once(r, m)
  <2>1. ASSUME NEW i \in 1..Len(r), NEW j \in 1..Len(r), r[i] = m, r[j] = m PROVE i = j
    <3>1. i + 1 = j + 1
      BY <1>1, <1>2, <1>5, <2>1 DEF Once
    <3> QED
      BY <1>1, <3>1
  <2> QED
    BY <2>1 DEF Once
<1>6. Once(q, m) /\ Head(q) = m => ~Has(r, m)
  BY <1>1, <1>2 DEF Has, Once
<1> QED
  BY <1>1, <1>3, <1>4, <1>5, <1>6 DEF r

-----------------------------------------------------------------------------
(* The inductive invariant.                                                 *)

\* The listener: none before /accept; the timer runs only while it is open and
\* nobody has claimed the transfer; nothing is open once the client cancels.
PortInv ==
  /\ offered => port = "none" /\ ~listed /\ report = "none"
  /\ link # "none" => port # "none"
  /\ timer = "set" => port = "open" /\ ~Claimed
  /\ client["recipient"] = "cancel" => port # "open"
  /\ PortAttended

\* The sender is told once, at most, that its file is wanted, and only of an
\* offer that nobody took back; only then does it connect.
AcceptInv ==
  /\ send \in {"none", "dial"} => link = "none"
  /\ Once(inbox["sender"], "accept")
  /\ Has(inbox["sender"], "accept") => send = "none" /\ offer = "taken"
  /\ offer # "taken" => send = "none"
  /\ Has(inbox["sender"], "decline") \/ "cancelled" \in heard => offer = "gone"

\* What is said of a transfer, by how far the word has come, and what it rests on.
WordInv ==
  /\ kept => link = "done" /\ send = "sent"
  /\ \/ report = "ok" \/ "ok" \in heard
     \/ Has(toServer, "ok") \/ Has(inbox["sender"], "ok")
     => kept
  /\ "failed" \in heard \/ Has(toServer, "failed") \/ Has(inbox["sender"], "failed")
     => report \in {"failed", "expired"}
  /\ report = "failed" => link = "done" /\ ~kept
  /\ waits /\ report = "expired" => link \in {"none", "refused"} /\ port # "open"

TInv == PortInv /\ AcceptInv /\ WordInv

-----------------------------------------------------------------------------
(* Types.                                                                   *)

\* The server writes to the clients.
LEMMA PostToStep ==
  ASSUME TypeOK, NEW who, NEW msg \in Messages, PostTo(who, msg), NEW m
  PROVE  /\ inbox' \in [Clients -> Seq(Messages)]
         /\ Has(inbox'["sender"], m) =>
              Has(inbox["sender"], m) \/ (m = msg /\ "sender" \in who)
         /\ /\ Once(inbox["sender"], m)
            /\ Has(inbox["sender"], m) => msg # m
            => Once(inbox'["sender"], m)
<1>1. inbox \in [Clients -> Seq(Messages)] /\ "sender" \in Clients
  BY DEF TypeOK, Messages, Clients
<1>2. inbox' \in [Clients -> Seq(Messages)]
  BY <1>1 DEF PostTo
<1>3. \/ inbox'["sender"] = inbox["sender"]
      \/ inbox'["sender"] = Append(inbox["sender"], msg) /\ "sender" \in who
  BY <1>1 DEF PostTo
<1>4. inbox["sender"] \in Seq(Messages)
  BY <1>1
<1>5. CASE inbox'["sender"] = inbox["sender"]
  BY <1>2, <1>5
<1>6. CASE inbox'["sender"] = Append(inbox["sender"], msg) /\ "sender" \in who
  BY <1>2, <1>4, <1>6, HasAppend
<1> QED
  BY <1>3, <1>5, <1>6

\* The recipient writes to the server.
LEMMA PostStep ==
  ASSUME TypeOK, NEW msg \in Messages, Post(msg), NEW m
  PROVE  /\ toServer' \in Seq(Messages)
         /\ Has(toServer', m) => Has(toServer, m) \/ m = msg
<1>1. toServer \in Seq(Messages)
  BY DEF TypeOK, Messages
<1>2. toServer' = toServer \/ toServer' = Append(toServer, msg)
  BY DEF Post
<1>3. toServer' \in Seq(Messages)
  BY <1>1, <1>2
<1> QED
  BY <1>1, <1>2, <1>3, HasAppend

\* A reader loop takes a message.
LEMMA TakesStep ==
  ASSUME TypeOK, NEW c \in Clients, NEW msg, Takes(c, msg), NEW m
  PROVE  /\ inbox' \in [Clients -> Seq(Messages)] /\ msg \in Messages
         /\ Has(inbox'["sender"], m) => Has(inbox["sender"], m)
         /\ Once(inbox["sender"], m) => Once(inbox'["sender"], m)
         /\ c = "sender" =>
              /\ Has(inbox["sender"], msg)
              /\ m = msg /\ Once(inbox["sender"], m) => ~Has(inbox'["sender"], m)
<1>1. inbox \in [Clients -> Seq(Messages)] /\ "sender" \in Clients
  BY DEF TypeOK, Messages, Clients
<1>2. inbox[c] \in Seq(Messages) /\ inbox[c] # <<>> /\ Head(inbox[c]) = msg
  BY <1>1 DEF Takes
<1>3. Tail(inbox[c]) \in Seq(Messages) /\ msg \in Messages
  BY <1>2, HasTail
<1>4. inbox' \in [Clients -> Seq(Messages)]
  BY <1>1, <1>3 DEF Takes
<1>5. /\ c = "sender" => inbox'["sender"] = Tail(inbox["sender"])
      /\ c # "sender" => inbox'["sender"] = inbox["sender"]
  BY <1>1 DEF Takes
<1> QED
  BY <1>2, <1>3, <1>4, <1>5, HasTail

\* The server reads a message.
LEMMA ReadsStep ==
  ASSUME TypeOK, NEW msg, Reads(msg), NEW m
  PROVE  /\ toServer' \in Seq(Messages) /\ msg \in Messages
         /\ Has(toServer', m) => Has(toServer, m)
         /\ Has(toServer, msg)
<1>1. /\ toServer \in Seq(Messages) /\ toServer # <<>>
      /\ Head(toServer) = msg /\ toServer' = Tail(toServer)
  BY DEF TypeOK, Messages, Reads
<1> QED
  BY <1>1, HasTail

\* A transfer ends at the recipient's.
LEMMA EndedStep ==
  ASSUME TypeOK, NEW how \in {"ok", "failed", "expired"}, Ended(how), NEW m
  PROVE  /\ report' \in {"ok", "failed", "expired"} /\ listed' \in BOOLEAN
         /\ report = "none" => report' = how
         /\ report # "none" => report' = report
         /\ toServer' \in Seq(Messages)
         /\ Has(toServer', m) =>
              \/ Has(toServer, m)
              \/ report = "none" /\ m = (IF how = "ok" THEN "ok" ELSE "failed")
<1>1. toServer \in Seq(Messages)
  BY DEF TypeOK, Messages
<1>2. (IF how = "ok" THEN "ok" ELSE "failed") \in Messages
  BY DEF Messages, Verdicts
<1>3. UNCHANGED toServer \/ (report = "none" /\ Post(IF how = "ok" THEN "ok" ELSE "failed"))
  BY DEF Ended
<1>4. /\ toServer' \in Seq(Messages)
      /\ Has(toServer', m) =>
           \/ Has(toServer, m)
           \/ report = "none" /\ m = (IF how = "ok" THEN "ok" ELSE "failed")
  BY <1>1, <1>2, <1>3, PostStep
<1>5. /\ report' \in {"ok", "failed", "expired"} /\ listed' \in BOOLEAN
      /\ report = "none" => report' = how
      /\ report # "none" => report' = report
  BY DEF Ended, TypeOK, Verdicts
<1> QED
  BY <1>4, <1>5

\* The inbox of a new connection.
LEMMA NilType == <<>> \in Seq({"accept", "decline"} \cup Verdicts)
OBVIOUS

\* The steps of the recipient's reader loop,
LEMMA TypeRecipient == TypeOK /\ UNCHANGED waits => (Recipient => TypeOK')
<1> SUFFICES ASSUME TypeOK, UNCHANGED waits PROVE Recipient => TypeOK'
  OBVIOUS
<1> USE DEF talk, entries, listener, file, told, Clients
<1>1. OnCancelled => TypeOK'
  BY TakesStep DEF OnCancelled, ClosePort, TypeOK, Messages
<1>2. CloseDone => TypeOK'
  BY DEF CloseDone, TypeOK
<1>3. RecipientLoses => TypeOK'
  <2>1. RecipientLoses /\ listed => TypeOK'
    BY NilType DEF RecipientLoses, ClosePort, TypeOK
  <2>2. ASSUME RecipientLoses, ~listed PROVE TypeOK'
    <3>1. inbox' \in [Clients -> Seq({"accept", "decline"} \cup Verdicts)]
      BY <2>2, NilType DEF RecipientLoses, TypeOK
    <3>2. client' \in [Clients -> {"read", "close", "cancel", "off", "gone"}]
      BY <2>2 DEF RecipientLoses, TypeOK
    <3>3. /\ offered' = FALSE
          /\ UNCHANGED <<waits, chat, online, toServer, offer, out, listed, listener, file, told>>
      BY <2>2 DEF RecipientLoses
    <3>4. toServer' = toServer /\ stray' = stray /\ chat' = chat /\ online' = online
      BY <3>3
    <3>5. /\ UNCHANGED <<waits, offer, out, listed, port, timer, link, send, kept, report, heard>>
          /\ offered' \in BOOLEAN
      BY <3>3
    <3> HIDE DEF talk, entries, listener, file, told
    <3> QED
      BY <3>1, <3>2, <3>4, <3>5 DEF TypeOK
  <2> QED
    BY <2>1, <2>2
<1>4. CancelDone => TypeOK'
  BY DEF CancelDone, TypeOK
<1> QED
  BY <1>1, <1>2, <1>3, <1>4 DEF Recipient

\* of the sender's client and its send task,
LEMMA TypeSender == TypeOK /\ UNCHANGED waits => (Sender \/ Sending => TypeOK')
<1> SUFFICES ASSUME TypeOK, UNCHANGED waits PROVE Sender \/ Sending => TypeOK'
  OBVIOUS
<1> USE DEF talk, entries, listener, file, told, Clients
<1>1. OnAccept => TypeOK'
  BY TakesStep DEF OnAccept, TypeOK, Messages
<1>2. ASSUME NEW msg \in {"decline", "ok", "failed"} PROVE OnEnd(msg) => TypeOK'
  <2>1. OnEnd(msg) => inbox' \in [Clients -> Seq(Messages)]
    BY TakesStep DEF OnEnd
  <2> QED
    BY <2>1 DEF OnEnd, TypeOK, Messages, Verdicts
<1>3. SenderLoses => TypeOK'
  BY NilType DEF SenderLoses, TypeOK
<1>4. Dial \/ Ready \/ Stream \/ SendTrailer => TypeOK'
  BY DEF Dial, Ready, Stream, SendTrailer, TypeOK
<1>5. Unsent => TypeOK'
  BY DEF Unsent, TypeOK
<1> QED
  BY <1>1, <1>2, <1>3, <1>4, <1>5 DEF Sender, Sending, DialRefused, PeerClosed

\* of the listener,
LEMMA TypeReceiving ==
  TypeOK /\ UNCHANGED waits => (Receiving \/ ReceiveFails \/ AuthFails \/ TimerFires => TypeOK')
<1> SUFFICES ASSUME TypeOK, UNCHANGED waits
             PROVE  Receiving \/ ReceiveFails \/ AuthFails \/ TimerFires => TypeOK'
  OBVIOUS
<1> USE DEF talk, entries, listener, file, told
<1>1. Authenticate \/ AuthFails \/ AllReceived => TypeOK'
  BY DEF Authenticate, AuthFails, AllReceived, TypeOK
<1>2. ASSUME NEW how \in Verdicts PROVE ReceiveEnds(how) => TypeOK'
  <2>1. ReceiveEnds(how) => /\ report' \in {"ok", "failed", "expired"} /\ listed' \in BOOLEAN
                            /\ toServer' \in Seq(Messages)
    BY EndedStep DEF ReceiveEnds, Verdicts
  <2> QED
    BY <2>1 DEF ReceiveEnds, ClosePort, TypeOK, Messages, Verdicts
<1>3. TimerFires => TypeOK'
  <2>1. TimerFires => /\ report' \in {"none", "ok", "failed", "expired"} /\ listed' \in BOOLEAN
                      /\ toServer' \in Seq(Messages)
    BY EndedStep DEF TimerFires, TypeOK, Verdicts, Messages
  <2> QED
    BY <2>1 DEF TimerFires, ClosePort, TypeOK, Messages, Verdicts
<1> QED
  BY <1>1, <1>2, <1>3 DEF Receiving, ReceiveOk, ReceiveCut, ReceiveFails, Verdicts

\* of the server,
LEMMA TypeServer == TypeOK /\ UNCHANGED waits => (Server \/ ExpireOffer => TypeOK')
<1> SUFFICES ASSUME TypeOK, UNCHANGED waits PROVE Server \/ ExpireOffer => TypeOK'
  OBVIOUS
<1> USE DEF entries, listener, file, told
<1>0. /\ {"accept", "decline", "ok", "failed"} \subseteq Messages
      /\ inbox \in [Clients -> Seq(Messages)]
  BY DEF Messages, Verdicts, TypeOK
<1>1. HandleAccept => TypeOK'
  <2>1. HandleAccept => inbox' \in [Clients -> Seq(Messages)] /\ toServer' \in Seq(Messages)
    BY <1>0, PostToStep, ReadsStep DEF HandleAccept
  <2> QED
    BY <2>1 DEF HandleAccept, TypeOK, Messages
<1>2. HandleDecline => TypeOK'
  <2>1. HandleDecline => inbox' \in [Clients -> Seq(Messages)] /\ toServer' \in Seq(Messages)
    BY <1>0, PostToStep, ReadsStep DEF HandleDecline
  <2> QED
    BY <2>1 DEF HandleDecline, TypeOK, Messages
<1>3. ASSUME NEW ok \in Verdicts PROVE HandleResult(ok) => TypeOK'
  <2>1. HandleResult(ok) => inbox' \in [Clients -> Seq(Messages)] /\ toServer' \in Seq(Messages)
    BY <1>0, PostToStep, ReadsStep DEF HandleResult, Verdicts
  <2> QED
    BY <2>1 DEF HandleResult, TypeOK, Messages
<1>4. ASSUME NEW c \in Clients PROVE Cleanup(c) => TypeOK'
  <2>1. Cleanup(c) => inbox' \in [Clients -> Seq(Messages)]
    BY <1>0, PostToStep DEF Cleanup
  <2>2. Cleanup(c) => toServer' \in Seq(Messages)
    BY DEF Cleanup, TypeOK, Messages
  <2> QED
    BY <2>1, <2>2 DEF Cleanup, TypeOK, Messages
<1>5. ExpireOffer => TypeOK'
  <2>1. ExpireOffer => inbox' \in [Clients -> Seq(Messages)]
    BY <1>0, PostToStep DEF ExpireOffer
  <2> QED
    BY <2>1 DEF ExpireOffer, TypeOK, Messages
<1> QED
  BY <1>1, <1>2, <1>3, <1>4, <1>5 DEF Server

\* and what nothing obliges to happen, keep the types;
LEMMA TypeChance == TypeOK /\ UNCHANGED waits => (Chance => TypeOK')
<1> SUFFICES ASSUME TypeOK, UNCHANGED waits PROVE Chance => TypeOK'
  OBVIOUS
<1> USE DEF talk, entries, listener, file, told
<1>1. CmdAccept => TypeOK'
  <2>1. CmdAccept => toServer' \in Seq(Messages)
    BY PostStep DEF CmdAccept, Messages
  <2> QED
    BY <2>1 DEF CmdAccept, TypeOK, Messages
<1>2. AcceptFails => TypeOK'
  BY DEF AcceptFails, ClosePort, TypeOK
<1>3. CmdDecline => TypeOK'
  <2>1. CmdDecline => toServer' \in Seq(Messages)
    BY PostStep DEF CmdDecline, Messages
  <2> QED
    BY <2>1 DEF CmdDecline, TypeOK, Messages
<1>4. SendFails => TypeOK'
  BY DEF SendFails, Unsent, TypeOK
<1>5. ASSUME NEW x \in Strangers PROVE StrayConnects(x) => TypeOK'
  BY DEF StrayConnects, TypeOK
<1>6. ASSUME NEW c \in Clients PROVE Cut(c) \/ Relogin(c) => TypeOK'
  <2>1. Cut(c) => TypeOK'
    BY NilType DEF Cut, TypeOK
  <2>2. Relogin(c) => TypeOK'
    BY NilType DEF Relogin, TypeOK
  <2> QED
    BY <2>1, <2>2
<1>7. Vanish => TypeOK'
  BY DEF Vanish, TypeOK
<1>8. AuthFails \/ ReceiveFails => TypeOK'
  BY TypeReceiving
<1> QED
  BY <1>1, <1>2, <1>3, <1>4, <1>5, <1>6, <1>7, <1>8 DEF Chance

\* so does every step,
LEMMA TypeNext == TypeOK /\ [Next /\ UNCHANGED waits]_<<vars, waits>> => TypeOK'
<1> SUFFICES ASSUME TypeOK, [Next /\ UNCHANGED waits]_<<vars, waits>> PROVE TypeOK'
  OBVIOUS
<1>0. UNCHANGED waits
  OBVIOUS
<1>1. ASSUME NEW x \in Strangers, StrayDropped(x) PROVE TypeOK'
  BY <1>0, <1>1 DEF StrayDropped, TypeOK, talk, entries, file, told
<1>2. CASE UNCHANGED vars
  BY <1>0, <1>2 DEF vars, talk, entries, listener, file, told, TypeOK
<1> QED
  BY <1>0, <1>1, <1>2, TypeRecipient, TypeSender, TypeReceiving, TypeServer, TypeChance
     DEF Next, Settled

\* and they hold at the start.
LEMMA TypeInit == Init => TypeOK
BY NilType DEF Init, TypeOK, Clients

\* Type correctness.
THEOREM TypeCorrect == Spec => []TypeOK
BY TypeInit, TypeNext, PTL DEF Spec

-----------------------------------------------------------------------------
(* The invariant is kept.                                                   *)

\* /cancel and lost connections at the recipient's: what it no longer lists, it closes.
LEMMA KeptRecipient ==
  ASSUME TypeOK, TInv, UNCHANGED waits, Recipient
  PROVE  TInv'
<1> USE DEF TInv, PortInv, PortAttended, Claimed, AcceptInv, WordInv,
            talk, entries, listener, file, told
<1>1. CASE OnCancelled
  BY <1>1, TakesStep DEF OnCancelled, ClosePort, Clients, TypeOK
<1>2. CASE CloseDone
  BY <1>2 DEF CloseDone, TypeOK, Clients
<1>3. CASE RecipientLoses
  <2>1. inbox'["sender"] = inbox["sender"]
    BY <1>3 DEF RecipientLoses, TypeOK, Clients
  <2>2. client'["recipient"] = "cancel" => listed
    BY <1>3 DEF RecipientLoses, TypeOK, Clients
  <2> QED
    BY <1>3, <2>1, <2>2 DEF RecipientLoses, ClosePort
<1>4. CASE CancelDone
  BY <1>4 DEF CancelDone, TypeOK, Clients
<1> QED
  BY <1>1, <1>2, <1>3, <1>4 DEF Recipient

\* The sender connects once, after the one answer to its offer.
LEMMA KeptSender ==
  ASSUME TypeOK, TInv, UNCHANGED waits, Sender \/ Sending \/ SendFails
  PROVE  TInv'
<1> USE DEF TInv, PortInv, PortAttended, Claimed, AcceptInv, WordInv,
            talk, entries, listener, file, told
<1>1. CASE OnAccept
  BY <1>1, TakesStep DEF OnAccept, Clients
<1>2. ASSUME NEW msg \in {"decline", "ok", "failed"}, OnEnd(msg) PROVE TInv'
  BY <1>2, TakesStep DEF OnEnd, Clients
<1>3. CASE SenderLoses
  <2>1. inbox'["sender"] = <<>> /\ client'["recipient"] = client["recipient"]
    BY <1>3 DEF SenderLoses, TypeOK, Clients
  <2> QED
    BY <1>3, <2>1, HasNil DEF SenderLoses
<1>4. CASE Dial \/ Ready \/ Stream \/ SendTrailer
  BY <1>4 DEF Dial, Ready, Stream, SendTrailer
<1>5. CASE Unsent /\ send \in {"dial", "hello", "stream", "trailer"}
  BY <1>5 DEF Unsent
<1> QED
  BY <1>1, <1>2, <1>3, <1>4, <1>5 DEF Sender, Sending, SendFails, DialRefused, PeerClosed

\* A transfer ends with the listener closed, and is reported as the file is kept.
LEMMA KeptReceiving ==
  ASSUME TypeOK, TInv, UNCHANGED waits, Receiving \/ ReceiveFails \/ AuthFails \/ TimerFires
  PROVE  TInv'
<1> USE DEF TInv, PortInv, PortAttended, Claimed, AcceptInv, WordInv,
            talk, entries, listener, file, told
<1>1. CASE Authenticate \/ AuthFails \/ AllReceived
  BY <1>1 DEF Authenticate, AuthFails, AllReceived
<1>2. ASSUME NEW how \in Verdicts, ReceiveEnds(how), link \in {"receive", "trailer"},
             how = "ok" => send = "sent"
      PROVE  TInv'
  BY <1>2, EndedStep DEF ReceiveEnds, ClosePort, Verdicts
<1>3. CASE TimerFires
  <2>1. waits /\ WaitOver => link \in {"none", "refused"}
    BY <1>3 DEF TimerFires, WaitOver, Live, TypeOK
  <2>2. CASE WaitOver
    BY <1>3, <2>1, <2>2, EndedStep DEF TimerFires, ClosePort
  <2>3. CASE ~WaitOver
    BY <1>3, <2>3 DEF TimerFires, ClosePort
  <2> QED
    BY <2>2, <2>3
<1> QED
  BY <1>1, <1>2, <1>3 DEF Receiving, ReceiveOk, ReceiveCut, ReceiveFails, Verdicts

\* The server passes on what it reads, an answer to a pending offer only.
LEMMA KeptServer ==
  ASSUME TypeOK, TInv, UNCHANGED waits, Server \/ ExpireOffer
  PROVE  TInv'
<1> USE DEF TInv, PortInv, PortAttended, Claimed, AcceptInv, WordInv,
            entries, listener, file, told
<1>0. {"accept", "decline", "ok", "failed"} \subseteq Messages
  BY DEF Messages, Verdicts
<1>1. CASE HandleAccept
  BY <1>0, <1>1, PostToStep, ReadsStep DEF HandleAccept
<1>2. CASE HandleDecline
  BY <1>0, <1>2, PostToStep, ReadsStep DEF HandleDecline
<1>3. ASSUME NEW ok \in Verdicts, HandleResult(ok) PROVE TInv'
  BY <1>0, <1>3, PostToStep, ReadsStep DEF HandleResult, Verdicts
<1>4. ASSUME NEW c \in Clients, Cleanup(c) PROVE TInv'
  <2>1. Has(toServer', "ok") => Has(toServer, "ok")
    BY <1>4, HasNil DEF Cleanup
  <2>2. Has(toServer', "failed") => Has(toServer, "failed")
    BY <1>4, HasNil DEF Cleanup
  <2> QED
    BY <1>0, <1>4, <2>1, <2>2, PostToStep DEF Cleanup
<1>5. CASE ExpireOffer
  BY <1>0, <1>5, PostToStep DEF ExpireOffer
<1> QED
  BY <1>1, <1>2, <1>3, <1>4, <1>5 DEF Server

\* /accept opens the port of an offer that has none yet.
LEMMA KeptChance ==
  ASSUME TypeOK, TInv, UNCHANGED waits, Chance
  PROVE  TInv'
<1> USE DEF TInv, PortInv, PortAttended, Claimed, AcceptInv, WordInv,
            talk, entries, listener, file, told
<1>0. "accept" \in Messages /\ "decline" \in Messages
  BY DEF Messages
<1>1. CASE CmdAccept
  BY <1>0, <1>1, PostStep DEF CmdAccept, Reading
<1>2. CASE AcceptFails
  BY <1>2 DEF AcceptFails, ClosePort
<1>3. CASE CmdDecline
  BY <1>0, <1>3, PostStep DEF CmdDecline
<1>4. CASE SendFails \/ AuthFails \/ ReceiveFails
  BY <1>4, KeptSender, KeptReceiving
<1>5. ASSUME NEW x \in Strangers, StrayConnects(x) PROVE TInv'
  BY <1>5 DEF StrayConnects
<1>6. ASSUME NEW c \in Clients, Cut(c) PROVE TInv'
  BY <1>6 DEF Cut
<1>7. ASSUME NEW c \in Clients, Relogin(c) PROVE TInv'
  <2>1. inbox'["sender"] \in {inbox["sender"], <<>>}
    BY <1>7 DEF Relogin, TypeOK, Clients
  <2>2. client'["recipient"] = "cancel" => client["recipient"] = "cancel"
    BY <1>7 DEF Relogin, TypeOK, Clients
  <2> QED
    BY <1>7, <2>1, <2>2, HasNil DEF Relogin
<1>8. CASE Vanish
  BY <1>8 DEF Vanish, TypeOK, Clients
<1> QED
  BY <1>1, <1>2, <1>3, <1>4, <1>5, <1>6, <1>7, <1>8 DEF Chance

\* Every step keeps the invariant.
LEMMA KeptNext == TypeOK /\ TInv /\ [Next /\ UNCHANGED waits]_<<vars, waits>> => TInv'
<1> SUFFICES ASSUME TypeOK, TInv, [Next /\ UNCHANGED waits]_<<vars, waits>> PROVE TInv'
  OBVIOUS
<1>0. UNCHANGED waits
  OBVIOUS
<1>1. ASSUME NEW x \in Strangers, StrayDropped(x) PROVE TInv'
  BY <1>0, <1>1 DEF StrayDropped, TInv, PortInv, PortAttended, Claimed, AcceptInv, WordInv,
                    talk, entries, file, told
<1>2. CASE UNCHANGED vars
  BY <1>0, <1>2 DEF vars, TInv, PortInv, PortAttended, Claimed, AcceptInv, WordInv,
                    talk, entries, listener, file, told
<1> QED
  BY <1>0, <1>1, <1>2, KeptRecipient, KeptSender, KeptReceiving, KeptServer, KeptChance
     DEF Next, Settled

\* It holds throughout.
LEMMA InvCorrect == Spec => []TInv
<1>1. Init => TInv
  BY HasNil DEF Init, TInv, PortInv, PortAttended, Claimed, AcceptInv, WordInv, Clients
<1> QED
  BY <1>1, KeptNext, TypeCorrect, PTL DEF Spec

\* An open port belongs to a transfer that is listed and has not ended, and will
\* be closed.
THEOREM PortsClosed == Spec => []PortAttended
<1>1. TInv => PortAttended
  BY DEF TInv, PortInv
<1> QED
  BY <1>1, InvCorrect, PTL

\* What either user is told of the end is true of the downloads directory.
THEOREM ReportsTrue == Spec => []ReportTrue
<1>1. TypeOK /\ TInv => ReportTrue
  <2> SUFFICES ASSUME TypeOK, TInv PROVE ReportTrue
    OBVIOUS
  <2>1. report = "ok" \/ "ok" \in heard => kept /\ send = "sent"
    BY DEF TInv, WordInv
  <2>2. report = "failed" => ~kept
    BY DEF TInv, WordInv
  <2>3. report = "expired" => ~kept \/ Overtaken
    BY DEF TInv, WordInv, Overtaken, TypeOK
  <2>4. "failed" \in heard => ~kept \/ Overtaken
    BY <2>2, <2>3 DEF TInv, WordInv
  <2>5. "cancelled" \in heard => ~kept
    BY DEF TInv, AcceptInv, WordInv
  <2> QED
    BY <2>1, <2>2, <2>3, <2>4, <2>5 DEF ReportTrue
<1> QED
  BY <1>1, InvCorrect, TypeCorrect, PTL

=============================================================================
