----------------------------- MODULE MCDownloads -----------------------------
(* Small instances of Downloads for TLC.                                    *)
EXTENDS Downloads, TLC

\* Files of two chunks.
MCSize == [t \in Transfers |-> 2]

\* Transfers of equal size may be renamed.
Interchangeable == Permutations(Transfers)
=============================================================================
