---------------------------- MODULE MCChatServer ----------------------------
(* Small instances of ChatServer for TLC.                                   *)
EXTENDS ChatServer, TLC

CONSTANTS a1, A1, b1, lobby, den, Den

\* a1 and A1 are one name in two spellings, and so are den and Den.
MCFold ==
  [n \in {a1, A1, b1, lobby, den, Den} |->
     CASE n = A1 -> a1 [] n = Den -> den [] OTHER -> n]

\* The handlers run the same code, so connections may be renamed.
Interchangeable == Permutations(Conns)
=============================================================================
