--------------------------- MODULE MCStreamTable ---------------------------
(***************************************************************************)
(* Model values for StreamTable.                                           *)
(***************************************************************************)
EXTENDS StreamTable, TLC

(* Payloads of one or two bytes, uniform so that a byte names its copy.    *)
MCPayloads == {[i \in 1..n |-> b] : n \in 1..2, b \in Byte}

Symmetric == Permutations(StreamKeys) \cup Permutations(Byte)
============================================================================
