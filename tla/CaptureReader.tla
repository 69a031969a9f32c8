--------------------------- MODULE CaptureReader ---------------------------
(***************************************************************************)
(* The capture reader (rust/src/reader.rs): for_each walks the blocks of a *)
(* legacy pcap or a pcapng file, keeps what later packets depend on (the   *)
(* link type of a legacy file, the interface table of a pcapng section)    *)
(* and delivers each packet with its link type.                            *)
(*                                                                         *)
(* A block is what pcap_parser yields, a record with a kind.  An interface *)
(* is abstracted to its link type: its resolution and its offset are kept  *)
(* and looked up with it.  "cut" stands where the parser cannot go on: a   *)
(* damaged block, or a read that fails while the buffer is refilled.       *)
(***************************************************************************)
EXTENDS Integers, Sequences, FiniteSets

CONSTANTS
  Packets,     (* what the bytes of a packet may be                        *)
  LinkTypes,   (* link types, numbers; 1 (Ethernet) is the default         *)
  Files        (* the files considered, sequences of blocks                *)

(* Iface::default() and CaptureReader::open                                *)
DefaultLinkType == 1

(* What pcap_parser yields, block by block.                                *)
Blocks ==
       [kind : {"legacy_header", "interface"}, linktype : LinkTypes]
  \cup [kind : {"legacy", "simple"}, data : Packets]
  \cup [kind : {"enhanced"}, if_id : Nat, data : Packets]
  \cup [kind : {"section", "other"}]
  \cup [kind : {"cut"}, counted : BOOLEAN]

ASSUME ReaderAssumption ==
  /\ LinkTypes \subseteq Nat
  /\ DefaultLinkType \in LinkTypes
  /\ Files \subseteq Seq(Blocks) \ {<<>>}

RawPackets == [data : Packets, linktype : LinkTypes, iface_id : Nat]

VARIABLES
  file,              (* the blocks of the file                             *)
  at,                (* blocks consumed                                    *)
  reading,           (* for_each has not left its loop                     *)
  legacy_linktype,   (* of a legacy file                                   *)
  ifaces,            (* link types of the interfaces of the section        *)
  bad_blocks         (* ReadStats::bad_blocks                              *)

readerVars == <<file, at, reading, legacy_linktype, ifaces, bad_blocks>>

ReaderInit ==
  /\ file \in Files
  /\ at = 0
  /\ reading = TRUE
  /\ legacy_linktype = DefaultLinkType
  /\ ifaces = <<>>
  /\ bad_blocks = 0

----------------------------------------------------------------------------
Upcoming(kinds) == reading /\ at < Len(file) /\ file[at + 1].kind \in kinds
Block == file[at + 1]
Consume == at' = at + 1 /\ UNCHANGED <<file, reading, bad_blocks>>

LegacyHeader ==
  /\ Upcoming({"legacy_header"})
  /\ legacy_linktype' = Block.linktype
  /\ Consume
  /\ UNCHANGED ifaces

(* A seeded fault: the interfaces of the section before are kept.          *)
SectionHeaderKeeping ==
  /\ Upcoming({"section"})
  /\ Consume
  /\ UNCHANGED <<legacy_linktype, ifaces>>

(* A new section restarts interface numbering.                             *)
SectionHeader ==
  /\ Upcoming({"section"})
  /\ ifaces' = <<>>
  /\ Consume
  /\ UNCHANGED legacy_linktype

InterfaceDescription ==
  /\ Upcoming({"interface"})
  /\ ifaces' = Append(ifaces, Block.linktype)
  /\ Consume
  /\ UNCHANGED legacy_linktype

OtherBlock ==
  /\ Upcoming({"other"})
  /\ Consume
  /\ UNCHANGED <<legacy_linktype, ifaces>>

(* The link type of interface i, if the section has described it.          *)
Iface(i) == IF i < Len(ifaces) THEN ifaces[i + 1] ELSE DefaultLinkType

(* The packet handed to the closure for the block b.                       *)
Raw(b) ==
  CASE b.kind = "legacy"   -> [data |-> b.data, linktype |-> legacy_linktype, iface_id |-> 0]
    [] b.kind = "enhanced" -> [data |-> b.data, linktype |-> Iface(b.if_id),
                               iface_id |-> b.if_id]
    [] b.kind = "simple"   -> [data |-> b.data, linktype |-> Iface(0), iface_id |-> 0]

(* One of the three packet blocks: the closure runs, then it is consumed.  *)
Deliver ==
  /\ Upcoming({"legacy", "enhanced", "simple"})
  /\ Consume
  /\ UNCHANGED <<legacy_linktype, ifaces>>

(* The loop ends at the end of the file; at a block that does not parse,   *)
(* which is counted; or when no more bytes can be had, which is not.       *)
Stop ==
  /\ reading
  /\ at = Len(file) \/ Upcoming({"cut"})
  /\ reading' = FALSE
  /\ bad_blocks' = IF Upcoming({"cut"}) /\ Block.counted THEN bad_blocks + 1 ELSE bad_blocks
  /\ UNCHANGED <<file, at, legacy_linktype, ifaces>>

(* The blocks that deliver nothing.                                        *)
Absorbed == LegacyHeader \/ SectionHeader \/ InterfaceDescription \/ OtherBlock

----------------------------------------------------------------------------
(* What the file holds, defined without the reader's state.                *)

ReaderTypeOK ==
  /\ file \in Files
  /\ at \in 0..Len(file)
  /\ reading \in BOOLEAN
  /\ legacy_linktype \in LinkTypes
  /\ ifaces \in Seq(LinkTypes)
  /\ bad_blocks \in 0..1

(* The largest member of S, 0 when it is empty.                            *)
Last(S) == IF S = {} THEN 0 ELSE CHOOSE m \in S : \A x \in S : x <= m

(* The member of S with n others below it.                                 *)
Nth(S, n) == CHOOSE k \in S : Cardinality({j \in S : j < k}) = n

(* The blocks before the cut, and the packet blocks among them.            *)
Readable == {k \in DOMAIN file : \A j \in 1..k : file[j].kind # "cut"}
PacketBlocks == {k \in Readable : file[k].kind \in {"legacy", "enhanced", "simple"}}

(* Interface number i of the section of block k: the section starts after  *)
(* the last section header, and its interfaces are those described from    *)
(* there to k.                                                             *)
SectionOf(k) == Last({j \in 1..k : file[j].kind = "section"})

Described(k) == {j \in 1..k : j > SectionOf(k) /\ file[j].kind = "interface"}

InterfaceOf(k, i) ==
  IF i < Cardinality(Described(k)) THEN file[Nth(Described(k), i)].linktype
  ELSE DefaultLinkType

HeaderOf(k) ==
  LET h == Last({j \in 1..k : file[j].kind = "legacy_header"})
  IN  IF h = 0 THEN DefaultLinkType ELSE file[h].linktype

(* The packet that block k of the file holds.                              *)
PacketOf(k) ==
  LET b == file[k]
      i == IF b.kind = "enhanced" THEN b.if_id ELSE 0
  IN  [data |-> b.data, iface_id |-> i,
       linktype |-> IF b.kind = "legacy" THEN HeaderOf(k) ELSE InterfaceOf(k, i)]

(* The packets of the file, in order.                                      *)
Contents ==
  LET held == PacketBlocks
  IN  [n \in 1..Cardinality(held) |-> PacketOf(Nth(held, n - 1))]

(* The file stops at a block that does not parse.                          *)
Damaged ==
  \E k \in DOMAIN file : /\ file[k].kind = "cut" /\ file[k].counted
                         /\ \A j \in 1..(k - 1) : file[j].kind # "cut"
============================================================================
