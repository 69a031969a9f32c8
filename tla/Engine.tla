------------------------------- MODULE Engine -------------------------------
(***************************************************************************)
(* The serial pass: Engine::absorb of rust/src/pipeline.rs with the two    *)
(* passes it runs on a packet that was already dissected on its own,       *)
(* redissect_datagram and reassemble_and_dispatch, over the three tables   *)
(* it owns.  Their state and operations are those of FragTable,            *)
(* StreamTable and FlowTable.                                              *)
(*                                                                         *)
(* The capture is IP between two hosts.  The bytes of an IP payload are a  *)
(* transport header (the first byte of a TCP header is its sequence        *)
(* number) and the payload.  A frame may carry bytes behind its IP         *)
(* datagram.                                                               *)
(***************************************************************************)
EXTENDS FragTable, StreamTable, FlowTable

CONSTANTS
  Frames,  (* the frames the capture may hold                              *)
  Ids,     (* IP identifications                                           *)
  HdrLen,  (* bytes of a transport header, by protocol                     *)
  Known    (* first bytes by which an application is recognised            *)

Protos == {"tcp", "udp"}
Dirs == {"ab", "ba"}

(* Endpoints: host and port, 1 and 3 those without a port.                 *)
Ports(dir) == IF dir = "ab" THEN <<2, 4>> ELSE <<4, 2>>
NoPorts(dir) == IF dir = "ab" THEN <<1, 3>> ELSE <<3, 1>>

Directions == {Ports(dir) : dir \in Dirs} \union {NoPorts(dir) : dir \in Dirs}

VARIABLES
  reassemble,  (* Config.reassemble                                        *)
  rows         (* the packet table                                         *)

engineVars == <<reassemble, rows, fragVars, streamVars, flowVars>>

EngineInit ==
  /\ reassemble \in BOOLEAN
  /\ FragInit /\ StreamInit /\ FlowInit
  /\ rows = <<>>

----------------------------------------------------------------------------
(* What dissection makes of the bytes.                                     *)

(* app::dispatch: the layers it names.                                     *)
dispatch(payload) == IF payload # <<>> /\ payload[1] \in Known THEN <<"app">> ELSE <<>>

(* dispatch_ip_proto: the tuple is set without ports, and again once the   *)
(* transport header is read.                                               *)
dispatch_ip_proto(p, data, defer) ==
  LET n == HdrLen[p.proto]
      payload == SubSeq(data, n + 1, Len(data))
  IN  IF Len(data) < n
      THEN [tuple |-> {NoPorts(p.dir)}, stack |-> <<p.proto>>, seq |-> {}, payload |-> <<>>]
      ELSE [tuple |-> {Ports(p.dir)},
            stack |-> <<p.proto>> \o IF defer /\ p.proto = "tcp" THEN <<>> ELSE dispatch(payload),
            seq |-> IF p.proto = "tcp" THEN {data[1]} ELSE {},
            payload |-> IF p.proto = "tcp" THEN payload ELSE <<>>]

(* The fragment starts its datagram, or the packet is not fragmented.      *)
IsFirst(p) == \A g \in p.frag : g.offset = 0

(* A seeded fault: the range starts at the transport header.               *)
FrameTailFromHeader(p, n) == SubSeq(p.data \o p.pad, 1, n)

(* The range of tcp_payload_range: the last bytes of the frame.            *)
FrameTail(p, n) ==
  LET bytes == p.data \o p.pad IN SubSeq(bytes, Len(bytes) - n + 1, Len(bytes))

(* dissect_inner, for the packet on its own.                               *)
dissect_inner(p) ==
  IF ~ p.ip THEN [tuple |-> {}, stack |-> <<"arp">>, seq |-> {}, segment |-> <<>>]
  ELSE IF ~ IsFirst(p)
  THEN [tuple |-> {}, stack |-> <<"ip", "ip-fragment">>, seq |-> {}, segment |-> <<>>]
  ELSE LET d == dispatch_ip_proto(p, p.data, reassemble)
       IN  [tuple |-> d.tuple, stack |-> <<"ip">> \o d.stack, seq |-> d.seq,
            segment |-> IF reassemble THEN FrameTail(p, Len(d.payload)) ELSE <<>>]

(* observe is handed the row.                                              *)
FlowPacket(p, t, seq, stack) ==
  [src |-> t[1], dst |-> t[2], proto |-> IF p.proto = "tcp" THEN 6 ELSE 17, ts |-> 0, len |-> 1,
   flags |-> IF seq = {} THEN {} ELSE {{"ack"}}, sni |-> {}, layer |-> {stack[Len(stack)]}]

FlowPackets ==
  [src : 1..4, dst : 1..4, proto : {6, 17}, ts : {0}, len : {1}, flags : {{}, {{"ack"}}},
   sni : {{}}, layer : {{l} : l \in {"ip", "ip-fragment", "tcp", "udp", "app"}}]

----------------------------------------------------------------------------
(* A frame is IP or not.  An Option is the set of its at most one value.   *)
(* pad: the bytes behind the datagram.                                     *)
WellFormed(p) ==
  /\ p.dir \in Dirs /\ p.proto \in Protos
  /\ p.data \in Seq(Byte) /\ p.pad \in Seq(Byte)
  /\ \A g, h \in p.frag : g = h
  /\ \A g \in p.frag :
       g.id \in Ids /\ g.offset \in Offsets /\ g.mf \in BOOLEAN /\ IsFragment(g.offset, g.mf)
  /\ p.proto = "tcp" /\ IsFirst(p) /\ p.data # <<>> => p.data[1] \in SeqNum

(* What the tables are given is what the frames hold.                      *)
ASSUME EngineAssumption ==
  /\ HdrLen \in [Protos -> Nat \ {0}]
  /\ \A p \in Frames : p.ip \in BOOLEAN /\ (p.ip => WellFormed(p) /\ p.data \in FragPayloads)
  /\ \A p \in Frames :
       p.ip /\ p.proto = "tcp" /\ HdrLen["tcp"] < Len(p.data) =>
         FrameTail(p, Len(p.data) - HdrLen["tcp"]) \in SegPayloads
  /\ FragByte = Byte
  /\ FragKeys = Dirs \X Ids \X Protos
  /\ StreamKeys = Directions
  /\ 1..4 \subseteq Endpoint /\ {6, 17} \subseteq Proto
  /\ FlowPackets \subseteq Packets

----------------------------------------------------------------------------
(* A seeded fault: the marker is not taken off the stack.                  *)
BaseMarked(stack) == stack

(* redissect_datagram replaces the marker by the layers it found.          *)
Base(stack) == IF stack[Len(stack)] = "ip-fragment" THEN SubSeq(stack, 1, Len(stack) - 1) ELSE stack

(* Option::or                                                              *)
Or(a, b) == IF a # {} THEN a ELSE b

(* A seeded fault: the tuple of the reassembled datagram is not used.      *)
TupleOwn(own, found) == own

(* d.tuple.or(frag_tuple)                                                  *)
Tuple(own, found) == Or(own, found)

IsPushed(p) == reassemble /\ p.ip /\ p.frag # {}

PushFragment(p) ==
  IF IsPushed(p)
  THEN \E g \in p.frag : FragPush(<<p.dir, g.id, p.proto>>, g.offset, g.mf, p.data)
  ELSE UNCHANGED fragVars

(* push returned a datagram.                                               *)
Completed(p) == IsPushed(p) /\ result' # NoResult

(* redissect_datagram.                                                     *)
Found(p) ==
  IF Completed(p) THEN dispatch_ip_proto(p, result'.data, FALSE)
  ELSE [tuple |-> {}, stack |-> <<>>, seq |-> {}, payload |-> <<>>]

(* Only a tuple and a payload range bring a packet to the stream table; a  *)
(* payload that was put together from fragments has no range.              *)
PushSegment(tuple, seq, segment) ==
  IF tuple # {} /\ segment # <<>>
  THEN \E k \in tuple, s \in seq : StreamPush(k, s, segment)
  ELSE UNCHANGED streamVars

(* The bytes dispatched: the prefix of the stream, or the bare segment if  *)
(* the stream table is full.                                               *)
Prefix(tuple, segment) ==
  IF tuple = {} \/ segment = <<>> THEN <<>>
  ELSE LET k == CHOOSE k \in tuple : TRUE
       IN  IF StreamTableFull(k) THEN segment ELSE streams'[k].buf

PushFlow(p, tuple, seq, stack) ==
  IF tuple = {} THEN Untracked ELSE \E t \in tuple : Observe(FlowPacket(p, t, seq, stack))

(* One packet of the capture.                                              *)
Absorb(p) ==
  /\ reported = -1
  /\ PushFragment(p)
  /\ LET own == dissect_inner(p)
         found == Found(p)
         tuple == Tuple(own.tuple, found.tuple)
         seq == Or(found.seq, own.seq)
         base == IF Completed(p) THEN Base(own.stack) \o found.stack ELSE own.stack
         prefix == Prefix(tuple, own.segment)
         stack == base \o dispatch(prefix)
     IN  /\ PushSegment(tuple, seq, own.segment)
         /\ PushFlow(p, tuple, seq, stack)
         /\ rows' = Append(rows,
              [packet |-> p, tuple |-> tuple, stack |-> stack, done |-> Completed(p),
               data |-> IF Completed(p) THEN result'.data ELSE <<>>,
               flow |-> IF tuple = {} THEN 0 ELSE seen'[Len(seen')].flow_id,
               reassembled |-> IF tuple # {} /\ own.segment # <<>>
                               THEN {Len(prefix) > Len(own.segment)}
                               ELSE IF Completed(p) THEN {TRUE} ELSE {}])
  /\ UNCHANGED reassemble

(* The capture is over: finalize_stats.                                    *)
Finalize ==
  /\ FragFinalize
  /\ UNCHANGED <<reassemble, rows, streamVars, flowVars>>

EngineNext == Finalize \/ \E p \in Frames : Absorb(p)

EngineSpec == EngineInit /\ [][EngineNext]_engineVars

----------------------------------------------------------------------------
(* The layers a stack may name, and a row of the packet table.             *)
LayerNames == {"arp", "ip", "ip-fragment", "tcp", "udp", "app"}

EngineRow ==
  [packet : Frames, tuple : SUBSET Directions, stack : Seq(LayerNames), done : BOOLEAN,
   data : Seq(Byte), flow : Nat, reassembled : SUBSET BOOLEAN]

(* One row a packet, each of its type.                                     *)
EngineTypeOK ==
  /\ reassemble \in BOOLEAN
  /\ rows \in Seq(EngineRow)
  /\ frame = Len(rows)

(* The frame starts its datagram but is too short for a transport header.  *)
Short(p) == p.ip /\ IsFirst(p) /\ Len(p.data) < HdrLen[p.proto]

(* No ports were read: in the frame, if it starts its datagram, else in    *)
(* the datagram it completes.                                              *)
Portless(r) ==
  \/ Short(r.packet)
  \/ r.done /\ ~ IsFirst(r.packet) /\ Len(r.data) < HdrLen[r.packet.proto]

OneConversation(p, q) == p.ip /\ q.ip /\ p.proto = q.proto

(* Fragmentation does not split a conversation: the packet on which a      *)
(* datagram completes has a tuple, and shares its flow with every packet   *)
(* of the conversation in either direction, whole, first fragment or last, *)
(* that is in a flow.  The exception is exact: a first fragment too short  *)
(* for the transport header is filed under ports 0, also when it arrives   *)
(* last and the datagram it completes has the ports, because its own tuple *)
(* is preferred (absorb: "joins its flow with the recovered L4/L7 tuple"); *)
(* and so is a datagram that is too short as a whole.                      *)
FragmentsJoinTheirFlow ==
  /\ \A i \in DOMAIN rows :
       rows[i].done =>
         rows[i].tuple = {IF Portless(rows[i]) THEN NoPorts(rows[i].packet.dir)
                          ELSE Ports(rows[i].packet.dir)}
  /\ \A i, j \in DOMAIN rows :
       /\ OneConversation(rows[i].packet, rows[j].packet)
       /\ rows[i].flow # 0 /\ rows[j].flow # 0
       => (rows[i].flow = rows[j].flow <=> (Portless(rows[i]) <=> Portless(rows[j])))

Layers(stack) == {stack[i] : i \in DOMAIN stack}

(* A layer is on the stack of a row once, and a row whose datagram is      *)
(* whole does not call itself a fragment.  The exception is exact: when    *)
(* the first fragment arrives last its own transport layer stays below the *)
(* one found in the datagram (redissect_datagram only takes the marker     *)
(* off).                                                                   *)
LayersOnce ==
  \A i \in DOMAIN rows :
    LET r == rows[i]
    IN  /\ r.done => "ip-fragment" \notin Layers(r.stack)
        /\ Cardinality(Layers(r.stack)) < Len(r.stack) <=> r.done /\ IsFirst(r.packet)

(* The sequence number a segment was pushed with: the one of the frame, or *)
(* of the datagram if the frame completed one.                             *)
SeqOf(r) ==
  IF r.done /\ HdrLen["tcp"] <= Len(r.data) THEN r.data[1] ELSE r.packet.data[1]

(* The bytes the frame of row r carried for sequence number q.             *)
BytesAt(r, q) ==
  LET p == r.packet
  IN  {p.data[n] : n \in {m \in HdrLen["tcp"] + 1 .. Len(p.data) :
                            WrapAdd(SeqOf(r), m - HdrLen["tcp"] - 1) = q}}

(* What a stream is made of: every byte was carried for its sequence       *)
(* number by a frame that itself starts with the TCP header, be it a whole *)
(* segment or a first fragment.  So what arrived in a later fragment is    *)
(* missing in the stream even after its datagram was put together, and     *)
(* what follows it waits for a retransmission.  A frame with bytes behind  *)
(* its datagram is the exception: its range is off by their number         *)
(* (tcp_payload_range: "The payload ends where the frame does").           *)
StreamIsFromFirsts ==
  \A k \in StreamKeys : \A n \in 1..Len(streams[k].buf) :
    LET q == WrapAdd(streams[k].base_seq, n - 1)
    IN  \E i \in DOMAIN rows :
          LET p == rows[i].packet
          IN  /\ p.ip /\ p.proto = "tcp" /\ IsFirst(p) /\ rows[i].tuple = {k}
              /\ IF p.pad = <<>> THEN streams[k].buf[n] \in BytesAt(rows[i], q)
                 ELSE BytesAt(rows[i], q) # {}
=============================================================================
