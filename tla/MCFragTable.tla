---------------------------- MODULE MCFragTable ----------------------------
(***************************************************************************)
(* The payloads of a capture, for TLC.                                     *)
(***************************************************************************)
EXTENDS FragTable

(* Payloads of up to two bytes, the two of one payload distinct: a byte    *)
(* taken from the wrong position shows, and so does one from the wrong     *)
(* copy.                                                                   *)
MCPayloads ==
  {<<>>} \cup {<<b>> : b \in FragByte}
         \cup {s \in [1..2 -> FragByte] : s[1] # s[2]}

============================================================================
