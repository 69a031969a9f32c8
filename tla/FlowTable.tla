----------------------------- MODULE FlowTable -----------------------------
(***************************************************************************)
(* Bidirectional flow aggregation: FlowTable of rust/src/flow.rs, fed by   *)
(* the serial pass of the engine (rust/src/pipeline.rs) with every packet  *)
(* that has a 5-tuple, in capture order.                                   *)
(*                                                                         *)
(* An endpoint (address, port) is an integer: normalized only compares     *)
(* endpoints.  TCP flags are the set of the names of the bits that are     *)
(* set.  The six identifying details (SNI, HTTP host, ...) are recorded by *)
(* the same take_first call each, and one, sni, stands for them; the byte  *)
(* counters move with the packet counters by the frame's length.           *)
(***************************************************************************)
EXTENDS Integers, Sequences, FiniteSets

CONSTANTS
  Endpoint,   (* (ip, port) pairs, in their order                          *)
  Proto,      (* IP protocol numbers; 6 is TCP                             *)
  Name,       (* identifying details a packet may carry                    *)
  Layer,      (* names of dissected layers                                 *)
  Packets,    (* the packets with a tuple that the capture may hold        *)
  MaxFlows,   (* max_flows: flows held at once                             *)
  MaxPackets  (* bound on the packets of the capture                       *)

Flag == {"syn", "ack", "fin", "rst"}

(* An Option is the set of its at most one value.                          *)
Option(S) == {{}} \cup {{x} : x \in S}

Packet == [src : Endpoint, dst : Endpoint, proto : Proto, ts : Int, len : Nat,
           flags : Option(SUBSET Flag), sni : Option(Name), layer : Option(Layer)]

ASSUME FlowAssumption ==
  /\ Endpoint \subseteq Int /\ IsFiniteSet(Endpoint)
  /\ Proto \subseteq Nat /\ IsFiniteSet(Proto)
  /\ Packets \subseteq Packet
  /\ MaxFlows \in Nat
  /\ MaxPackets \in Nat

VARIABLES
  flows,          (* FlowTable.flows; a key is absent iff its id is 0      *)
  next_id,        (* FlowTable.next_id                                     *)
  flows_evicted,  (* FlowTable.evicted                                     *)
  frame,          (* packets absorbed so far: the last one's frame number  *)
  seen            (* the packets observed, with the columns filled in      *)

flowVars == <<flows, next_id, flows_evicted, frame, seen>>

(* Tuples in normal form.                                                  *)
FlowKeys == {k \in [src : Endpoint, dst : Endpoint, proto : Proto] : k.src <= k.dst}

Dir == {"c2s", "s2c"}

Flow == [id : Nat, first_ts : Int, last_ts : Int, first_frame : Nat, last_frame : Nat,
         packets : [Dir -> Nat], bytes : [Dir -> Nat], tcp_flags : [Dir -> SUBSET Flag],
         syn_count : Nat, fin_count : Nat, rst_count : Nat, fin : [Dir -> BOOLEAN],
         syn_c2s : BOOLEAN, synack_s2c : BOOLEAN, saw_reset : BOOLEAN,
         service : Option(Layer), sni : Option(Name)]

Both(v) == [d \in Dir |-> v]

(* A flow as or_insert_with makes it.                                      *)
NewFlow(id, ts, frm) ==
  [id |-> id, first_ts |-> ts, last_ts |-> ts, first_frame |-> frm, last_frame |-> frm,
   packets |-> Both(0), bytes |-> Both(0), tcp_flags |-> Both({}),
   syn_count |-> 0, fin_count |-> 0, rst_count |-> 0, fin |-> Both(FALSE),
   syn_c2s |-> FALSE, synack_s2c |-> FALSE, saw_reset |-> FALSE,
   service |-> {}, sni |-> {}]

NoFlow == NewFlow(0, 0, 0)

FlowsPresent == {k \in FlowKeys : flows[k].id # 0}

----------------------------------------------------------------------------
(* Tuple::normalized: the canonical tuple and the packet's direction.      *)
Forward(p) == p.src <= p.dst

(* A seeded fault: the reply's tuple is not turned around.                 *)
KeyAsSent(p) == [src |-> IF p.src < p.dst THEN p.src ELSE p.dst, dst |-> p.dst, proto |-> p.proto]

Key(p) == IF Forward(p) THEN [src |-> p.src, dst |-> p.dst, proto |-> p.proto]
                        ELSE [src |-> p.dst, dst |-> p.src, proto |-> p.proto]

Direction(p) == IF Forward(p) THEN "c2s" ELSE "s2c"

(* Flow::state, as a rank: Partial, SynSent, Established, Closing, Closed, *)
(* Reset.                                                                  *)
Partial == 0
SynSent == 1
Established == 2
Closing == 3
Closed == 4
Reset == 5

State(k, f) ==
  IF k.proto # 6 THEN Partial
  ELSE IF f.saw_reset THEN Reset
  ELSE IF f.fin["c2s"] /\ f.fin["s2c"] THEN Closed
  ELSE IF f.fin["c2s"] \/ f.fin["s2c"] THEN Closing
  ELSE IF f.syn_c2s /\ f.synack_s2c THEN Established
  ELSE IF f.syn_c2s THEN SynSent
  ELSE Partial

Lower(a, b) == IF a <= b THEN a ELSE b
Higher(a, b) == IF a >= b THEN a ELSE b

Count(b) == IF b THEN 1 ELSE 0

(* A seeded fault: the interval follows the last packet.                   *)
WidenAsMonotonic(f, ts, frm) == [f EXCEPT !.last_ts = ts, !.last_frame = frm]

(* The interval is widened: timestamps may run backwards.                  *)
Widen(f, ts, frm) ==
  [f EXCEPT !.first_ts = Lower(@, ts), !.last_ts = Higher(@, ts),
            !.first_frame = Lower(@, frm), !.last_frame = Higher(@, frm)]

(* A seeded fault: a SYN forgets how the previous connection ended.        *)
FlagsReopened(f, d, flags) ==
  IF "syn" \in flags
  THEN [f EXCEPT !.syn_c2s = d = "c2s", !.fin = Both(FALSE), !.saw_reset = FALSE]
  ELSE [f EXCEPT !.fin[d] = @ \/ "fin" \in flags, !.saw_reset = @ \/ "rst" \in flags]

(* A seeded fault: a SYN-ACK of the client side counts as its SYN.         *)
FlagsAnySyn(f, d, flags) ==
  [f EXCEPT !.syn_c2s    = @ \/ ("syn" \in flags /\ d = "c2s"),
            !.synack_s2c = @ \/ ({"syn", "ack"} \subseteq flags /\ d = "s2c"),
            !.fin[d]     = @ \/ "fin" \in flags,
            !.saw_reset  = @ \/ "rst" \in flags]

(* What the flags of one segment add to the flow.                          *)
WithFlags(f, d, flags) ==
  LET syn == "syn" \in flags
      ack == "ack" \in flags
  IN  [f EXCEPT !.tcp_flags[d] = @ \cup flags,
                !.syn_count    = @ + Count(syn),
                !.syn_c2s      = @ \/ (syn /\ d = "c2s" /\ ~ ack),
                !.synack_s2c   = @ \/ (syn /\ d = "s2c" /\ ack),
                !.fin_count    = @ + Count("fin" \in flags),
                !.fin[d]       = @ \/ "fin" \in flags,
                !.rst_count    = @ + Count("rst" \in flags),
                !.saw_reset    = @ \/ "rst" \in flags]

(* take_first                                                              *)
TakeFirst(slot, v) == IF slot = {} THEN v ELSE slot

(* The service is replaced while it only names the transport.              *)
Service(slot, layer) ==
  IF layer # {} /\ (slot = {} \/ slot \subseteq {"tcp", "udp"}) THEN layer ELSE slot

(* The flow after one more packet.                                         *)
Folded(f, p, frm) ==
  LET d == Direction(p)
      g == [Widen(f, p.ts, frm) EXCEPT !.packets[d] = @ + 1, !.bytes[d] = @ + p.len]
      h == IF p.flags = {} THEN g ELSE WithFlags(g, d, UNION p.flags)
  IN  [h EXCEPT !.sni = TakeFirst(@, p.sni), !.service = Service(@, p.layer)]

----------------------------------------------------------------------------
FlowInit ==
  /\ flows = [k \in FlowKeys |-> NoFlow]
  /\ next_id = 1
  /\ flows_evicted = 0
  /\ frame = 0
  /\ seen = <<>>

(* frame_number: one more than the packet's id.                            *)
FrameNumber == frame + 1

(* The columns of the packet table that observe fills in; flow_id is 0 and *)
(* direction none when the packet joined no flow.                          *)
Row(p, id, direction) ==
  [packet |-> p, frame |-> FrameNumber, flow_id |-> id, direction |-> direction]

FlowTableFull(k) == k \notin FlowsPresent /\ Cardinality(FlowsPresent) >= MaxFlows

(* At capacity: the packet opens no flow.                                  *)
Evict(p) ==
  /\ FlowTableFull(Key(p))
  /\ flows_evicted' = flows_evicted + 1
  /\ seen' = Append(seen, Row(p, 0, {}))
  /\ UNCHANGED <<flows, next_id>>

(* The entry of the packet's flow: the flow held, or a new one numbered    *)
(* next_id.                                                                *)
Entry(p) ==
  IF Key(p) \in FlowsPresent THEN flows[Key(p)] ELSE NewFlow(next_id, p.ts, FrameNumber)

(* A seeded fault: every packet draws an id.                               *)
NextIdPerPacket(f) == next_id + 1

(* next_id advances iff the entry is the one that just took it.            *)
NextId(f) == IF f.id = next_id THEN next_id + 1 ELSE next_id

Fold(p) ==
  /\ ~ FlowTableFull(Key(p))
  /\ flows' = [flows EXCEPT ![Key(p)] = Folded(Entry(p), p, FrameNumber)]
  /\ next_id' = NextId(Entry(p))
  /\ seen' = Append(seen, Row(p, Entry(p).id, {Direction(p)}))
  /\ UNCHANGED flows_evicted

Observe(p) ==
  /\ frame < MaxPackets
  /\ Evict(p) \/ Fold(p)
  /\ frame' = frame + 1

(* A packet without a tuple is numbered but not observed.                  *)
Untracked ==
  /\ frame < MaxPackets
  /\ frame' = frame + 1
  /\ UNCHANGED <<flows, next_id, flows_evicted, seen>>

FlowNext == Untracked \/ \E p \in Packets : Observe(p)

FlowSpec == FlowInit /\ [][FlowNext]_flowVars

----------------------------------------------------------------------------
(* Every variable has its type.                                            *)
FlowTypeOK ==
  /\ flows \in [FlowKeys -> Flow]
  /\ next_id \in Nat \ {0}
  /\ flows_evicted \in Nat
  /\ frame \in Nat
  /\ seen \in Seq([packet : Packet, frame : Nat \ {0}, flow_id : Nat,
                   direction : Option(Dir)])

(* The flows held are numbered 1, 2, ... up to next_id - 1, each id once,  *)
(* so an existing flow never passes for the one just inserted when observe *)
(* compares its id with next_id; and ids follow first frames, so sorted(), *)
(* by first frame and then id, is one total order whatever order the hash  *)
(* map iterates in.                                                        *)
IdsInOrder ==
  /\ {flows[k].id : k \in FlowsPresent} = 1 .. Cardinality(FlowsPresent)
  /\ next_id = Cardinality(FlowsPresent) + 1
  /\ \A k, l \in FlowsPresent :
       flows[k].id < flows[l].id => flows[k].first_frame < flows[l].first_frame

(* The coarse connection state only ever advances, Partial to SynSent to   *)
(* Established to Closing to Closed to Reset: no packet takes it back.     *)
StateAdvances ==
  [][\A k \in FlowsPresent : State(k, flows[k]) <= State(k, flows'[k])]_flowVars

----------------------------------------------------------------------------
(* The rows of the packet table so far; a row is told by its frame.        *)
Rows == {seen[i] : i \in DOMAIN seen}

SameConversation(p, q) ==
  /\ p.proto = q.proto
  /\ {p.src, p.dst} = {q.src, q.dst}

(* Both directions of a conversation carry one flow id and different       *)
(* conversations different ones; a conversation is in the flow table with  *)
(* all its packets or, refused at capacity, with none.                     *)
OneFlowPerConversation ==
  \A r, s \in Rows :
    /\ SameConversation(r.packet, s.packet) => r.flow_id = s.flow_id
    /\ r.flow_id = s.flow_id /\ r.flow_id # 0 => SameConversation(r.packet, s.packet)

(* The rows of flow f; those of rows sent in direction d, and those with a *)
(* flag set.                                                               *)
RowsOf(f) == {r \in Rows : r.flow_id = f.id}
Sent(rows, d) == {r \in rows : r.direction = {d}}
Flagged(rows, flag) == {r \in rows : flag \in UNION r.packet.flags}
FlagsOf(rows) == UNION {UNION r.packet.flags : r \in rows}

(* The rows whose packet names a server, or a service above the transport, *)
(* and the first of some rows.                                             *)
Named(rows) == {r \in rows : r.packet.sni # {}}
Specific(rows) == {r \in rows : ~ (r.packet.layer \subseteq {"tcp", "udp"})}
First(rows) == {r \in rows : \A s \in rows : r.frame <= s.frame}

(* The sum of a sequence of numbers, and the lengths to sum for flow f in  *)
(* direction d: those of its packets, and 0 for the others.                *)
Total(w) ==
  LET t[n \in 0 .. Len(w)] == IF n = 0 THEN 0 ELSE t[n - 1] + w[n]
  IN  t[Len(w)]

Lengths(f, d) ==
  [i \in 1 .. Len(seen) |->
     IF seen[i].flow_id = f.id /\ seen[i].direction = {d} THEN seen[i].packet.len ELSE 0]

(* A flow is its history: its counters, interval, flags and names are      *)
(* those of the packets that carry its id, whatever came in between.       *)
FlowIsItsHistory ==
  \A k \in FlowsPresent :
    LET f == flows[k]
        rows == RowsOf(f)
    IN  /\ \A d \in Dir :
             /\ f.packets[d] = Cardinality(Sent(rows, d))
             /\ f.bytes[d] = Total(Lengths(f, d))
             /\ f.tcp_flags[d] = FlagsOf(Sent(rows, d))
             /\ f.fin[d] <=> Flagged(Sent(rows, d), "fin") # {}
        /\ f.syn_count = Cardinality(Flagged(rows, "syn"))
        /\ f.fin_count = Cardinality(Flagged(rows, "fin"))
        /\ f.rst_count = Cardinality(Flagged(rows, "rst"))
        /\ \A r \in rows : /\ f.first_ts <= r.packet.ts /\ r.packet.ts <= f.last_ts
                           /\ f.first_frame <= r.frame /\ r.frame <= f.last_frame
        /\ \E r, s \in rows : r.packet.ts = f.first_ts /\ s.packet.ts = f.last_ts
        /\ \E r, s \in rows : r.frame = f.first_frame /\ s.frame = f.last_frame
        /\ Named(rows) = {} => f.sni = {}
        /\ \A r \in First(Named(rows)) : f.sni = r.packet.sni
        /\ \A r \in First(Specific(rows)) : f.service = r.packet.layer

(* Which side opened the connection is decided by the order of the         *)
(* addresses (Direction), not by who sent the first SYN.  A TCP flow with  *)
(* neither FIN nor RST is Established exactly when the endpoint that sorts *)
(* first sent a SYN and the other a SYN-ACK, and SynSent exactly when only *)
(* the first half of that was seen: a complete handshake opened by the     *)
(* endpoint that sorts second stays Partial.                               *)
HandshakeByAddressOrder ==
  \A k \in FlowsPresent :
    LET rows == RowsOf(flows[k])
        sent(d, flags) == \E r \in Sent(rows, d) : r.packet.flags = {flags}
    IN  k.proto = 6 /\ Flagged(rows, "fin") = {} /\ Flagged(rows, "rst") = {} =>
          State(k, flows[k]) = IF ~ sent("c2s", {"syn"}) THEN Partial
                               ELSE IF sent("s2c", {"syn", "ack"}) THEN Established
                               ELSE SynSent
============================================================================
