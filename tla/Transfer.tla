------------------------------- MODULE Transfer -------------------------------
(* One file transfer from the offer to its end, across the two clients      *)
(* (client.py), the recipient's one-shot listener (IncomingTransfer in      *)
(* filetransfer.py) and the sender's send_file task.  What the server does  *)
(* with the offer is taken from module OfferBroker, a handler at a time.    *)
(*                                                                          *)
(* The clients talk to the server over connections that may break, each     *)
(* end noticing in its own time; the file goes over a direct connection     *)
(* ("link"), which lives on when the chat connections do not.               *)
EXTENDS Naturals, Sequences

CONSTANTS
  Strangers,  \* other connections to the port (a port scan)
  MayVanish   \* the sender's machine may drop off the network

ASSUME FlagAssumption == MayVanish \in BOOLEAN

Clients == {"sender", "recipient"}

VARIABLES
  waits,    \* Server.wait_closed waits for the connections the listener has
            \* accepted (the recipient runs Python 3.12.1 or later), or for nothing
  chat,     \* chat[c]: the connection of client c to the server is whole
  online,   \* online[c]: the server has c in self.sessions
  client,   \* client[c]: where the reader loop of c is
  toServer, \* the recipient's messages under way to the server
  inbox,    \* inbox[c]: the server's messages under way to c
  offer,    \* the offer in the server: "pending", "taken" or "gone"
  offered,  \* the id is in the recipient's _offers
  out,      \* the id is in the sender's _outgoing
  listed,   \* the id is in the recipient's _incoming
  port,     \* the listener: "none", "open" or "closed"
  timer,    \* the _expire task: "none", "set" or "off"
  link,     \* the handler of the sender's connection to the port
  stray,    \* the handlers of the strangers' connections
  send,     \* the sender's _run_send task
  kept,     \* the file has its final name in the downloads directory
  report,   \* how on_done told the recipient the transfer ended
  heard     \* what the sender was told of the end

talk     == <<chat, online, client, toServer, inbox, offer>>
entries  == <<offered, out, listed>>
listener == <<port, timer, stray>>
file     == <<link, send, kept>>
told     == <<report, heard>>
vars     == <<talk, entries, listener, file, told>>

Verdicts == {"ok", "failed"}

TypeOK ==
  /\ waits \in BOOLEAN
  /\ chat \in [Clients -> BOOLEAN]
  /\ online \in [Clients -> BOOLEAN]
  /\ client \in [Clients -> {"read", "close", "cancel", "off", "gone"}]
  /\ toServer \in Seq({"accept", "decline"} \cup Verdicts)
  /\ inbox \in [Clients -> Seq({"accept", "decline"} \cup Verdicts)]
  /\ offer \in {"pending", "taken", "gone"}
  /\ offered \in BOOLEAN /\ out \in BOOLEAN /\ listed \in BOOLEAN
  /\ port \in {"none", "open", "closed"}
  /\ timer \in {"none", "set", "off"}
  /\ link \in {"none", "auth", "refused", "receive", "trailer", "done"}
  /\ stray \in [Strangers -> {"none", "auth", "done"}]
  /\ send \in {"none", "dial", "hello", "stream", "trailer", "sent", "failed", "vanished"}
  /\ kept \in BOOLEAN
  /\ report \in {"none", "expired"} \cup Verdicts
  /\ heard \subseteq {"cancelled", "unsent"} \cup Verdicts

\* The offer has been made and shown to the recipient.
Init ==
  /\ waits \in BOOLEAN
  /\ chat = [c \in Clients |-> TRUE]
  /\ online = [c \in Clients |-> TRUE]
  /\ client = [c \in Clients |-> "read"]
  /\ toServer = <<>>
  /\ inbox = [c \in Clients |-> <<>>]
  /\ offer = "pending"
  /\ offered = TRUE /\ out = TRUE /\ listed = FALSE
  /\ port = "none" /\ timer = "none"
  /\ stray = [x \in Strangers |-> "none"]
  /\ link = "none" /\ send = "none" /\ kept = FALSE
  /\ report = "none" /\ heard = {}

-----------------------------------------------------------------------------
(* Helpers                                                                  *)

Reading(c) == client[c] = "read"

\* The server writes a message to those of who that are logged in; what is
\* written to a broken connection is lost.
PostTo(who, msg) ==
  inbox' = [c \in Clients |->
              IF c \in who /\ online[c] /\ chat[c] THEN Append(inbox[c], msg) ELSE inbox[c]]

\* The recipient writes to the server.
Post(msg) == toServer' = IF chat["recipient"] THEN Append(toServer, msg) ELSE toServer

\* The next message of c, for its reader loop.
Takes(c, msg) ==
  /\ Reading(c)
  /\ inbox[c] # <<>> /\ Head(inbox[c]) = msg
  /\ inbox' = [inbox EXCEPT ![c] = Tail(@)]

\* IncomingTransfer.close: cancel the timer, stop listening, wait_closed.
ClosePort ==
  /\ port' = "closed"
  /\ timer' = "off"

Live == link \in {"auth", "receive", "trailer"} \/ \E x \in Strangers : stray[x] = "auth"

WaitOver == waits => ~Live

\* _finish: on_done is called once.  It forgets the transfer and, if it was
\* still listed and the recipient is connected, has the sender told.
\* Mutant: an expiry is not reported as a failure.
EndedRaw(how) ==
  IF report # "none"
  THEN UNCHANGED <<report, listed, toServer>>
  ELSE /\ report' = how
       /\ listed' = FALSE
       /\ IF listed /\ client["recipient"] \in {"read", "close"}
          THEN Post(how)
          ELSE UNCHANGED toServer

Ended(how) ==
  IF report # "none"
  THEN UNCHANGED <<report, listed, toServer>>
  ELSE /\ report' = how
       /\ listed' = FALSE
       /\ IF listed /\ client["recipient"] \in {"read", "close"}
          THEN Post(IF how = "ok" THEN "ok" ELSE "failed")
          ELSE UNCHANGED toServer

-----------------------------------------------------------------------------
(* The recipient's client                                                   *)

\* /accept: listen first, then tell the server.
CmdAccept ==
  /\ Reading("recipient") /\ offered
  /\ offered' = FALSE
  /\ port' = "open" /\ timer' = "set" /\ listed' = TRUE
  /\ Post("accept")
  /\ UNCHANGED <<chat, online, client, inbox, offer, out, stray, file, told>>

\* The send raises: the listener is closed and forgotten.
AcceptFails ==
  /\ Reading("recipient") /\ offered /\ ~chat["recipient"]
  /\ offered' = FALSE
  /\ ClosePort
  /\ UNCHANGED <<talk, out, listed, stray, file, told>>

CmdDecline ==
  /\ Reading("recipient") /\ offered
  /\ offered' = FALSE
  /\ Post("decline")
  /\ UNCHANGED <<chat, online, client, inbox, offer, out, listed, listener, file, told>>

\* Mutant: the listener is forgotten, not closed.
OnCancelledOpen ==
  /\ Takes("recipient", "decline")
  /\ offered' = FALSE
  /\ listed' = FALSE
  /\ UNCHANGED <<chat, online, client, toServer, offer, out, listener, file, told>>

\* _on_file_decline awaits the listener's close.
OnCancelled ==
  /\ Takes("recipient", "decline")
  /\ offered' = FALSE
  /\ listed' = FALSE
  /\ IF listed
     THEN ClosePort /\ client' = [client EXCEPT !["recipient"] = "close"]
     ELSE UNCHANGED <<port, timer, client>>
  /\ UNCHANGED <<chat, online, toServer, offer, out, stray, file, told>>

CloseDone ==
  /\ client["recipient"] = "close"
  /\ WaitOver
  /\ client' = [client EXCEPT !["recipient"] = "read"]
  /\ UNCHANGED <<chat, online, toServer, inbox, offer, entries, listener, file, told>>

\* Mutant: the expiry closes the port and tells nobody.
TimerFiresSilent ==
  /\ timer = "set"
  /\ ClosePort
  /\ UNCHANGED <<talk, entries, stray, file, told>>

\* _expire, 60 seconds on.  close() cancels the very task that calls it: if
\* wait_closed has to wait, the cancellation ends the task before _finish.
TimerFires ==
  /\ timer = "set"
  /\ ClosePort
  /\ IF WaitOver THEN Ended("expired") ELSE UNCHANGED <<report, listed, toServer>>
  /\ UNCHANGED <<chat, online, client, inbox, offer, offered, out, stray, file, heard>>

-----------------------------------------------------------------------------
(* The connections to the port                                              *)

Claimed == link \in {"receive", "trailer", "done"}

StrayConnects(x) ==
  /\ port = "open" /\ stray[x] = "none"
  /\ stray' = [stray EXCEPT ![x] = IF Claimed THEN "done" ELSE "auth"]
  /\ UNCHANGED <<talk, entries, port, timer, file, told>>

\* No valid hello within 30 seconds.
StrayDropped(x) ==
  /\ stray[x] = "auth"
  /\ stray' = [stray EXCEPT ![x] = "done"]
  /\ UNCHANGED <<talk, entries, port, timer, file, told>>

\* The hello is good: _claimed is set, the timer cancelled, and
\* FILE_DATA_READY sent.
Authenticate ==
  /\ link = "auth" /\ send # "vanished"
  /\ link' = "receive"
  /\ timer' = "off"
  /\ UNCHANGED <<talk, entries, port, stray, send, kept, told>>

AuthFails ==
  /\ link = "auth"
  /\ link' = "refused"
  /\ UNCHANGED <<talk, entries, listener, send, kept, told>>

\* Every byte has come; the trailer is next.
AllReceived ==
  /\ link = "receive" /\ send \in {"trailer", "sent"}
  /\ link' = "trailer"
  /\ UNCHANGED <<talk, entries, listener, send, kept, told>>

\* Mutant: the file is renamed before it is checked.
ReceiveEndsKept(how) ==
  /\ link' = "done"
  /\ kept' = TRUE
  /\ Ended(how)
  /\ ClosePort
  /\ UNCHANGED <<chat, online, client, inbox, offer, offered, out, stray, send, heard>>

\* _receive returns, and _handle closes the listener in the same step.
ReceiveEnds(how) ==
  /\ link' = "done"
  /\ kept' = (how = "ok")
  /\ Ended(how)
  /\ ClosePort
  /\ UNCHANGED <<chat, online, client, inbox, offer, offered, out, stray, send, heard>>

ReceiveOk == link = "trailer" /\ send = "sent" /\ ReceiveEnds("ok")

\* Mutant: an early end of the stream goes unnoticed.
ReceiveCutLate == link = "trailer" /\ send # "sent" /\ ReceiveEnds("failed")

\* The sender closed its end too early, or no trailer came in 30 seconds.
\* Nothing bounds the wait for a byte of the file.
ReceiveCut ==
  /\ \/ link = "receive" /\ send = "failed"
     \/ link = "trailer" /\ send # "sent"
  /\ ReceiveEnds("failed")

\* The disk is full, or the checksum is wrong.
ReceiveFails == link \in {"receive", "trailer"} /\ ReceiveEnds("failed")

-----------------------------------------------------------------------------
(* The sender's client                                                      *)

OnAccept ==
  /\ Takes("sender", "accept")
  /\ send' = IF out THEN "dial" ELSE send
  /\ UNCHANGED <<chat, online, client, toServer, offer, entries, listener, link, kept, told>>

\* _run_send ends without success.
Unsent ==
  /\ send' = "failed"
  /\ out' = FALSE
  /\ heard' = heard \cup {"unsent"}
  /\ UNCHANGED <<talk, offered, listed, listener, link, kept, report>>

Dial ==
  /\ send = "dial" /\ port = "open"
  /\ send' = "hello"
  /\ link' = "auth"
  /\ UNCHANGED <<talk, entries, listener, kept, told>>

DialRefused == send = "dial" /\ port # "open" /\ Unsent

Ready ==
  /\ send = "hello" /\ link = "receive"
  /\ send' = "stream"
  /\ UNCHANGED <<talk, entries, listener, link, kept, told>>

Stream ==
  /\ link = "receive" /\ send = "stream"
  /\ send' = "trailer"
  /\ UNCHANGED <<talk, entries, listener, link, kept, told>>

SendTrailer ==
  /\ link \in {"receive", "trailer"} /\ send = "trailer"
  /\ send' = "sent"
  /\ UNCHANGED <<talk, entries, listener, link, kept, told>>

\* The recipient has closed the connection.
PeerClosed ==
  /\ send \in {"hello", "stream", "trailer"} /\ link \in {"refused", "done"}
  /\ Unsent

\* The host cannot be reached, a wait times out, or the file has shrunk.
SendFails == send \in {"dial", "hello", "stream", "trailer"} /\ Unsent

\* FILE_DECLINE or FILE_RESULT.
OnEnd(msg) ==
  /\ msg # "accept" /\ Takes("sender", msg)
  /\ out' = FALSE
  /\ heard' = heard \cup {IF msg = "decline" THEN "cancelled" ELSE msg}
  /\ UNCHANGED <<chat, online, client, toServer, offer, offered, listed, listener, file, report>>

-----------------------------------------------------------------------------
(* The server                                                               *)

Reads(msg) ==
  /\ online["recipient"] /\ toServer # <<>> /\ Head(toServer) = msg
  /\ toServer' = Tail(toServer)

HandleAccept ==
  /\ Reads("accept")
  /\ IF offer = "pending"
     THEN offer' = "taken" /\ PostTo({"sender"}, "accept")
     ELSE UNCHANGED <<offer, inbox>>
  /\ UNCHANGED <<chat, online, client, entries, listener, file, told>>

\* Mutant: the sender is not told.
HandleDeclineSilent ==
  /\ Reads("decline")
  /\ offer' = IF offer = "pending" THEN "gone" ELSE offer
  /\ UNCHANGED <<chat, online, client, inbox, entries, listener, file, told>>

HandleDecline ==
  /\ Reads("decline")
  /\ IF offer = "pending"
     THEN offer' = "gone" /\ PostTo({"sender"}, "decline")
     ELSE UNCHANGED <<offer, inbox>>
  /\ UNCHANGED <<chat, online, client, entries, listener, file, told>>

HandleResult(ok) ==
  /\ Reads(ok)
  /\ PostTo({"sender"}, ok)
  /\ UNCHANGED <<chat, online, client, offer, entries, listener, file, told>>

ExpireOffer ==
  /\ offer = "pending"
  /\ offer' = "gone"
  /\ PostTo(Clients, "decline")
  /\ UNCHANGED <<chat, online, client, toServer, entries, listener, file, told>>

\* _cleanup_session: the handler of c meets the end of the stream, or the
\* heartbeat has closed it.
Cleanup(c) ==
  /\ online[c] /\ ~chat[c]
  /\ online' = [online EXCEPT ![c] = FALSE]
  /\ toServer' = IF c = "recipient" THEN <<>> ELSE toServer
  /\ IF offer = "pending"
     THEN offer' = "gone" /\ PostTo(Clients \ {c}, "decline")
     ELSE UNCHANGED <<offer, inbox>>
  /\ UNCHANGED <<chat, client, entries, listener, file, told>>

-----------------------------------------------------------------------------
(* The chat connections                                                     *)

Cut(c) ==
  /\ chat[c]
  /\ chat' = [chat EXCEPT ![c] = FALSE]
  /\ UNCHANGED <<online, client, toServer, inbox, offer, entries, listener, file, told>>

\* The reader loop ends and cancels every transfer; the send task goes on.
SenderLoses ==
  /\ Reading("sender") /\ ~chat["sender"]
  /\ client' = [client EXCEPT !["sender"] = "off"]
  /\ inbox' = [inbox EXCEPT !["sender"] = <<>>]
  /\ out' = FALSE
  /\ UNCHANGED <<chat, online, toServer, offer, offered, listed, listener, file, told>>

\* _cancel_all_transfers awaits the listener's close before anything else.
RecipientLoses ==
  /\ Reading("recipient") /\ ~chat["recipient"]
  /\ inbox' = [inbox EXCEPT !["recipient"] = <<>>]
  /\ IF listed
     THEN /\ ClosePort
          /\ client' = [client EXCEPT !["recipient"] = "cancel"]
          /\ UNCHANGED offered
     ELSE /\ client' = [client EXCEPT !["recipient"] = "off"]
          /\ offered' = FALSE
          /\ UNCHANGED <<port, timer>>
  /\ UNCHANGED <<chat, online, toServer, offer, out, listed, stray, file, told>>

\* Only now does the client start to reconnect.
CancelDone ==
  /\ client["recipient"] = "cancel"
  /\ WaitOver
  /\ client' = [client EXCEPT !["recipient"] = "off"]
  /\ listed' = FALSE
  /\ UNCHANGED <<chat, online, toServer, inbox, offer, offered, out, listener, file, told>>

\* _reconnect_loop, and a new /login, which the server refuses until it has
\* seen the old connection go.
Relogin(c) ==
  /\ client[c] = "off" /\ ~online[c]
  /\ client' = [client EXCEPT ![c] = "read"]
  /\ chat' = [chat EXCEPT ![c] = TRUE]
  /\ online' = [online EXCEPT ![c] = TRUE]
  /\ inbox' = [inbox EXCEPT ![c] = <<>>]
  /\ UNCHANGED <<toServer, offer, entries, listener, file, told>>

\* No FIN and no reset: the peers see nothing.
Vanish ==
  /\ MayVanish /\ client["sender"] # "gone"
  /\ client' = [client EXCEPT !["sender"] = "gone"]
  /\ chat' = [chat EXCEPT !["sender"] = FALSE]
  /\ out' = FALSE
  /\ send' = IF send \in {"dial", "hello", "stream", "trailer"} THEN "vanished" ELSE send
  /\ UNCHANGED <<online, toServer, inbox, offer, offered, listed, listener, link, kept, told>>

-----------------------------------------------------------------------------
Recipient == OnCancelled \/ CloseDone \/ RecipientLoses \/ CancelDone

Sender == OnAccept \/ (\E msg \in {"decline", "ok", "failed"} : OnEnd(msg)) \/ SenderLoses

Sending == Dial \/ DialRefused \/ Ready \/ Stream \/ SendTrailer \/ PeerClosed

Receiving == Authenticate \/ AllReceived \/ ReceiveOk \/ ReceiveCut

Server ==
  \/ HandleAccept \/ HandleDecline
  \/ \E ok \in Verdicts : HandleResult(ok)
  \/ \E c \in Clients : Cleanup(c)

\* What nothing obliges to happen.
Chance ==
  \/ CmdAccept \/ AcceptFails \/ CmdDecline
  \/ AuthFails \/ ReceiveFails \/ SendFails
  \/ \E x \in Strangers : StrayConnects(x)
  \/ \E c \in Clients : Cut(c) \/ Relogin(c)
  \/ Vanish

\* Every entry is settled and every task has ended.
Settled ==
  /\ ~out /\ ~listed /\ ~offered /\ ~Live
  /\ UNCHANGED vars

Next ==
  \/ Recipient \/ Sender \/ Sending \/ Receiving \/ Server \/ Chance
  \/ \E x \in Strangers : StrayDropped(x)
  \/ TimerFires \/ ExpireOffer
  \/ Settled

Spec == Init /\ [][Next /\ UNCHANGED waits]_<<vars, waits>>

\* The event loops run their tasks, the direct connection moves or breaks
\* unless its peer has vanished, and the timeouts come.
Fairness ==
  /\ WF_vars(Recipient) /\ WF_vars(Sender) /\ WF_vars(Server)
  /\ WF_vars(Sending) /\ WF_vars(Receiving)
  /\ \A x \in Strangers : WF_vars(StrayDropped(x))
  /\ WF_vars(TimerFires) /\ WF_vars(ExpireOffer)
  /\ WF_vars(AuthFails)

FairSpec == Spec /\ Fairness

-----------------------------------------------------------------------------
(* Properties                                                               *)

\* The timer looks at _claimed, which is set only once the hello has been read
\* (filetransfer.py:231, 245-254); where wait_closed does not wait, it reports
\* that the sender never connected while the handshake goes on to succeed.
Overtaken == ~waits /\ report = "expired"

\* What either user is told of the end is true of the downloads directory:
\* "Received" means that there is a file, and "never connected; transfer
\* cancelled" (filetransfer.py:234) and every other failure that there is none,
\* but for the transfer that Overtaken describes.
ReportTrue ==
  /\ report = "ok" \/ "ok" \in heard => kept /\ send = "sent"
  /\ report \in {"failed", "expired"} => ~kept \/ Overtaken
  /\ heard \cap {"failed", "cancelled"} # {} => ~kept \/ Overtaken

\* "The one-off port they open is closed again the moment the transfer ends, is
\* declined, or goes 60 seconds without the sender connecting"
\* (README.md:188-189): an open port belongs to a transfer that the client still
\* lists and that has not ended, and a timer is running for it or the sender is
\* connected.  (A sender that vanishes once it is, closes nothing.)
PortAttended ==
  port = "open" =>
    /\ listed
    /\ report = "none"
    /\ timer = "set" \/ link \in {"receive", "trailer"}

\* "Called from the receiver when a transfer ends, for better or worse"
\* (client.py:614): the recipient's list of transfers lets go of each one, if
\* the sender's machine stays on the network.  (Where wait_closed waits, _expire
\* may cancel itself before it reports.)
Unlisted == listed /\ ~waits ~> ~listed \/ client["sender"] = "gone"

\* As long as both clients stay connected, the sender's /transfers does not
\* show the transfer as waiting for ever (client.py:300, 545, 564, 604).
Steady == \A c \in Clients : chat[c]

SenderTold == []Steady => (out ~> ~out)

\* "Automatic client reconnect" (README.md:15): a recipient that lost the
\* server gets to its reconnect loop, once the direct connections have ended.
\* (One to a sender that vanished never ends: filetransfer.py:298 waits for ever.)
Reconnects ==
  client["recipient"] = "cancel"
    ~> client["recipient"] # "cancel" \/ client["sender"] = "gone"

\* "Both sides are told if the other person goes offline mid-transfer"
\* (README.md:199-200).
MidTransfer == link \in {"receive", "trailer"}

OfflineTold ==
  /\ MidTransfer /\ ~online["recipient"] /\ out
       ~> heard # {} \/ client["sender"] # "read"
  /\ MidTransfer /\ ~online["sender"] ~> report # "none"
=============================================================================
