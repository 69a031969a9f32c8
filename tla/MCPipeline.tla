----------------------------- MODULE MCPipeline -----------------------------
(***************************************************************************)
(* The files of the pipeline's run: pcapng files whose sections describe   *)
(* and use interfaces in every order, and legacy files with every          *)
(* arrangement of packets, cut at any place.                               *)
(***************************************************************************)
EXTENDS Pipeline

CONSTANTS
  plain, bug, late,   (* kinds of packets                                  *)
  MaxNg,              (* bound on the blocks of a pcapng file              *)
  MaxLegacy           (* bound on the packets of a legacy file             *)

UpTo(n, S) == UNION {[1..m -> S] : m \in 0..n}

NgBlocks ==
  {[kind |-> "section"], [kind |-> "other"],
   [kind |-> "interface", linktype |-> 1], [kind |-> "interface", linktype |-> 101],
   [kind |-> "enhanced", if_id |-> 0, data |-> plain],
   [kind |-> "enhanced", if_id |-> 1, data |-> bug],
   [kind |-> "simple", data |-> plain]}

Ends == {<<>>, <<[kind |-> "cut", counted |-> TRUE]>>, <<[kind |-> "cut", counted |-> FALSE]>>}

NgFiles == {<<[kind |-> "section"]>> \o body : body \in UpTo(MaxNg, NgBlocks)}

LegacyFiles ==
  {<<[kind |-> "legacy_header", linktype |-> 101]>>
     \o [i \in DOMAIN body |-> [kind |-> "legacy", data |-> body[i]]] \o end :
   body \in UpTo(MaxLegacy, {plain, bug, late}), end \in Ends}

MCPackets == {plain, bug, late}
MCPanics == {bug}
MCPanicsLate == {late}
MCLinkTypes == {1, 101}
MCFiles == NgFiles \cup LegacyFiles
=============================================================================
