---------------------------- MODULE MCOfferBroker ----------------------------
(* Small instances of OfferBroker for TLC.                                  *)
EXTENDS OfferBroker, TLC

CONSTANTS a1, A1, b1, d1, lobby

\* a1 and A1 are one name in two spellings.
MCFold == [n \in {a1, A1, b1, d1, lobby} |-> IF n = A1 THEN a1 ELSE n]

\* The handlers run the same code, and ids are opaque.
Interchangeable == Permutations(Conns) \cup Permutations(Ids)

At(labels) == {s \in Conns : pc[s] \in labels}
AtWork == Conns \ At({"absent", "read", "closed"})

\* Bounds: nobody stops the server; all three handlers are at work only while one
\* of them has a user leaving and another is about an offer; one offer is made at
\* a time; and a behaviour is cut where a second offer has been made.
FirstOffer ==
  /\ phase = "up"
  /\ Cardinality(AtWork) = 3 =>
       /\ At({"logout", "clean", "drop", "tell"}) # {}
       /\ At({"seek", "put", "answer", "reply"}) # {}
       /\ At({"enter", "hold", "greet", "farewell"}) = {}
  /\ Cardinality(At({"seek", "put"})) <= 1
  /\ Cardinality({i \in Ids : fate[i] # "unused"}) <= 1

\* The behaviours in which nobody stops the server.
RunningSpec ==
  BrokerInit /\ [][BrokerNext /\ phase' = "up"]_allVars /\ BrokerFairness

-----------------------------------------------------------------------------
(* Bounds of the run offer_ends, as a constraint on its steps.  They bind    *)
(* what clients ask for and when the server is stopped, and never a step of *)
(* the server's own.                                                        *)
CONSTANTS s1, s2, s3, i1, i2

\* The handler of s takes up something new.
Asks(s, l) == pc[s] \in {"absent", "read", "welcome"} /\ pc'[s] = l

\* Without s3: a1 makes an offer to b1, and both come and go as they like.
TwoParties ==
  \A s \in Conns :
    /\ Asks(s, "login") => arg'[s] = IF s = s1 THEN a1 ELSE b1
    /\ Asks(s, "seek") => s = s1 /\ ask'[s] = [to |-> b1, id |-> i1]
    /\ Asks(s, "answer") => s = s2 /\ ask'[s].id \in Pending

\* s3 comes when the others are logged in and nothing else has happened.
Gathered ==
  /\ phase = "up" /\ beat = "sleep" /\ fate[i1] = "unused"
  /\ pc[s1] = "read" /\ username[s1] = a1
  /\ pc[s2] = "read" /\ username[s2] = b1

\* With it: a1 is party to two offers, one to b1 and one from d1, and a1 and d1
\* may leave.  Nobody stops the server, and one handler at a time takes up
\* something new, other than an answer.
ThreeParties ==
  /\ ~Stop
  /\ \A s \in Conns, l \in {"login", "seek", "answer", "clean", "logout"} :
       Asks(s, l) =>
         /\ l # "answer" => AtWork \subseteq {s}
         /\ l = "login" => s = s3 /\ arg'[s] = d1
         /\ l = "answer" => ask'[s].id \in Pending
         /\ l \in {"clean", "logout"} => s \in {s1, s3} /\ username[s3] # None
         /\ l = "seek" =>
              /\ \A t \in Conns : username[t] # None
              /\ \/ s = s1 /\ ask'[s] = [to |-> b1, id |-> IF i1 \in Pending THEN i2 ELSE i1]
                 \/ s = s3 /\ ask'[s] = [to |-> a1, id |-> i2]

Bounded ==
  IF pc'[s3] = "absent"
  THEN TwoParties
  ELSE (pc[s3] = "absent" => Gathered) /\ ThreeParties
=============================================================================
