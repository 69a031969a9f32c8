---------------------------- MODULE EngineProofs ----------------------------
(***************************************************************************)
(* The serial pass, proved: every step of the engine is a step, or none,   *)
(* of each table it owns, so that what was proved of a table holds in the  *)
(* engine; and what the packet table says of fragments, layers and streams *)
(* holds for every capture.                                                *)
(***************************************************************************)
EXTENDS Engine, FragTableProofs, StreamTableProofs, FlowTableProofs

(* The number FlowPacket gives a protocol.                                 *)
Number(proto) == IF proto = "tcp" THEN 6 ELSE 17

(* A tuple is the one of the packet's conversation, with the ports that    *)
(* were read.                                                              *)
TupleIsRead(r) ==
  LET p == r.packet
  IN  /\ r.tuple # {} =>
           p.ip /\ r.tuple = {IF Portless(r) THEN NoPorts(p.dir) ELSE Ports(p.dir)}
      /\ r.done => p.ip /\ r.tuple # {}

(* The stack of a packet that was dissected once.                          *)
Plain(s) ==
  /\ Len(s) \in 1 .. 3
  /\ s[1] \in {"arp", "ip"}
  /\ Len(s) >= 2 => s[2] \in {"ip-fragment"} \cup Protos
  /\ Len(s) = 3 => s[3] = "app"

(* The stack of a packet whose transport layer was dissected twice.        *)
Doubled(s) == \E i, j \in DOMAIN s : i < j /\ s[i] = s[j]

StackIsRead(r) ==
  /\ IF r.done /\ IsFirst(r.packet) THEN Doubled(r.stack) ELSE Plain(r.stack)
  /\ r.done => \A i \in DOMAIN r.stack : r.stack[i] # "ip-fragment"
  /\ r.tuple # {} => r.stack[Len(r.stack)] \in {"tcp", "udp", "app"}

(* A row in a flow is one the flow table saw with the row's tuple.         *)
SeenAs(r, s) ==
  /\ s.flow_id = r.flow
  /\ s.packet.proto = Number(r.packet.proto)
  /\ \E t \in r.tuple : s.packet.src = t[1] /\ s.packet.dst = t[2]

RowsInFlows == \A i \in DOMAIN rows : rows[i].flow # 0 => \E s \in Rows : SeenAs(rows[i], s)

(* Segment g came to stream k with the frame of row r.                     *)
CameWith(r, k, g) ==
  LET p == r.packet
  IN  /\ p.ip /\ p.proto = "tcp" /\ IsFirst(p) /\ r.tuple = {k}
      /\ HdrLen["tcp"] < Len(p.data)
      /\ g.seq = SeqOf(r)
      /\ g.data = FrameTail(p, Len(p.data) - HdrLen["tcp"])

SegmentsAreRows ==
  \A k \in StreamKeys : \A i \in DOMAIN rcvd[k] :
    \E j \in DOMAIN rows : CameWith(rows[j], k, rcvd[k][i])

(* A piece that starts a TCP datagram starts with a sequence number.       *)
Numbered(x) == x.offset = 0 /\ x.data # <<>> => x.data[1] \in SeqNum

PiecesNumbered ==
  \A k \in FragKeys : k[3] = "tcp" =>
    \A i \in DOMAIN sets[k].pieces : Numbered(sets[k].pieces[i])

RowInv == \A i \in DOMAIN rows : TupleIsRead(rows[i]) /\ StackIsRead(rows[i])

TablesInv == FragInv /\ StreamInv /\ FlowInv

EngineInv ==
  /\ TablesInv
  /\ EngineTypeOK
  /\ PiecesNumbered
  /\ RowInv
  /\ RowsInFlows
  /\ SegmentsAreRows

----------------------------------------------------------------------------
(* What dissection makes of the bytes.                                     *)

LEMMA FrameIs ==
  ASSUME NEW p \in Frames
  PROVE  /\ p.ip \in BOOLEAN
         /\ p.ip => /\ p.dir \in Dirs /\ p.proto \in Protos
                    /\ p.data \in Seq(Byte) /\ p.pad \in Seq(Byte) /\ p.data \in FragPayloads
                    /\ HdrLen[p.proto] \in Nat /\ HdrLen[p.proto] > 0
  BY EngineAssumption DEF WellFormed

(* Two sequences in a row.                                                 *)
LEMMA Concat ==
  ASSUME NEW S, NEW u \in Seq(S), NEW w \in Seq(S)
  PROVE  /\ u \o w \in Seq(S)
         /\ Len(u) \in Nat /\ Len(w) \in Nat /\ Len(u \o w) = Len(u) + Len(w)
         /\ \A i \in 1 .. Len(u) : (u \o w)[i] = u[i]
         /\ \A i \in 1 .. Len(w) : (u \o w)[Len(u) + i] = w[i]
  OBVIOUS

(* A stack is made of layers; dispatch adds one at most.                   *)
LEMMA DispatchIs ==
  ASSUME NEW payload
  PROVE  /\ dispatch(payload) \in Seq(LayerNames)
         /\ Len(dispatch(payload)) \in 0 .. 1
         /\ Len(dispatch(payload)) = 1 => dispatch(payload)[1] = "app"
         /\ payload = <<>> => dispatch(payload) = <<>>
<1>1. dispatch(payload) = <<>> \/ (payload # <<>> /\ dispatch(payload) = <<"app">>)
  BY DEF dispatch
<1>2. <<>> \in Seq(LayerNames) /\ Len(<<>>) = 0
  OBVIOUS
<1>3. <<"app">> \in Seq(LayerNames) /\ Len(<<"app">>) = 1 /\ <<"app">>[1] = "app"
  BY DEF LayerNames
<1>4. CASE dispatch(payload) = <<>>
  <2>1. PICK x : x = <<>> /\ x = dispatch(payload)
    BY <1>4
  <2>2. x \in Seq(LayerNames) /\ Len(x) = 0
    BY <1>2, <2>1
  <2> QED
    BY <1>4, <2>1, <2>2
<1>5. CASE payload # <<>> /\ dispatch(payload) = <<"app">>
  <2>1. PICK x : x = <<"app">> /\ x = dispatch(payload)
    BY <1>5
  <2>2. x \in Seq(LayerNames) /\ Len(x) = 1 /\ x[1] = "app"
    BY <1>3, <2>1
  <2> QED
    BY <1>5, <2>1, <2>2
<1> QED
  BY <1>1, <1>4, <1>5

(* What dispatch_ip_proto makes of the bytes of a transport.               *)
TransportIs(p, data, defer, d) ==
  /\ d.tuple = {IF Len(data) < HdrLen[p.proto] THEN NoPorts(p.dir) ELSE Ports(p.dir)}
  /\ d.seq = IF p.proto = "tcp" /\ HdrLen[p.proto] <= Len(data) THEN {data[1]} ELSE {}
  /\ Len(d.payload) = IF p.proto = "tcp" /\ HdrLen[p.proto] <= Len(data)
                      THEN Len(data) - HdrLen[p.proto] ELSE 0

TransportStack(p, defer, s) ==
  /\ s \in Seq(LayerNames)
  /\ Len(s) \in 1 .. 2
  /\ s[1] = p.proto
  /\ Len(s) = 2 => s[2] = "app"
  /\ defer /\ p.proto = "tcp" => Len(s) = 1

LEMMA TransportRead ==
  ASSUME NEW p \in Frames, p.ip, NEW data \in Seq(Byte), NEW defer \in BOOLEAN,
         NEW d, d = dispatch_ip_proto(p, data, defer)
  PROVE  TransportIs(p, data, defer, d) /\ TransportStack(p, defer, d.stack)
<1>1. PICK n : n = HdrLen[p.proto]
  OBVIOUS
<1>2. n \in Nat /\ n > 0 /\ Len(data) \in Nat /\ p.proto \in Protos
  BY <1>1, FrameIs
<1>3. PICK pay : pay = SubSeq(data, n + 1, Len(data))
  OBVIOUS
<1>4. n <= Len(data) => Len(pay) = Len(data) - n
  BY <1>2, <1>3
<1>5. <<p.proto>> \in Seq(LayerNames) /\ Len(<<p.proto>>) = 1 /\ <<p.proto>>[1] = p.proto
  BY <1>2 DEF LayerNames, Protos
<1>6. CASE Len(data) < n
  <2>1. d = [tuple |-> {NoPorts(p.dir)}, stack |-> <<p.proto>>, seq |-> {}, payload |-> <<>>]
    BY <1>6, <1>1 DEF dispatch_ip_proto
  <2>2. d.tuple = {NoPorts(p.dir)} /\ d.stack = <<p.proto>> /\ d.seq = {} /\ Len(d.payload) = 0
    BY <2>1
  <2>3. TransportIs(p, data, defer, d)
    BY <1>1, <1>2, <1>6, <2>2 DEF TransportIs
  <2> QED
    BY <2>2, <2>3, <1>5 DEF TransportStack
<1>7. CASE ~ (Len(data) < n)
  <2>1. PICK app : app = IF defer /\ p.proto = "tcp" THEN <<>> ELSE dispatch(pay)
    OBVIOUS
  <2>2. /\ app \in Seq(LayerNames) /\ Len(app) \in 0 .. 1 /\ (Len(app) = 1 => app[1] = "app")
        /\ defer /\ p.proto = "tcp" => Len(app) = 0
    <3>1. <<>> \in Seq(LayerNames) /\ Len(<<>>) = 0
      OBVIOUS
    <3> QED
      BY <2>1, <3>1, DispatchIs
  <2>3. d = [tuple |-> {Ports(p.dir)}, stack |-> <<p.proto>> \o app,
             seq |-> IF p.proto = "tcp" THEN {data[1]} ELSE {},
             payload |-> IF p.proto = "tcp" THEN pay ELSE <<>>]
    BY <1>7, <1>1, <1>3, <2>1 DEF dispatch_ip_proto
  <2>4. /\ d.tuple = {Ports(p.dir)} /\ d.stack = <<p.proto>> \o app
        /\ d.seq = (IF p.proto = "tcp" THEN {data[1]} ELSE {})
        /\ d.payload = (IF p.proto = "tcp" THEN pay ELSE <<>>)
    BY <2>3
  <2>5. Len(d.payload) = IF p.proto = "tcp" THEN Len(data) - n ELSE 0
    BY <2>4, <1>4, <1>7, <1>2
  <2>6. TransportIs(p, data, defer, d)
    BY <1>1, <1>2, <1>7, <2>4, <2>5 DEF TransportIs
  <2>7. /\ <<p.proto>> \o app \in Seq(LayerNames)
        /\ Len(<<p.proto>> \o app) = 1 + Len(app)
        /\ (<<p.proto>> \o app)[1] = p.proto
        /\ Len(app) = 1 => (<<p.proto>> \o app)[2] = "app"
    <3>1. PICK u : u = <<p.proto>>
      OBVIOUS
    <3>2. u \in Seq(LayerNames) /\ Len(u) = 1 /\ u[1] = p.proto
      BY <3>1, <1>5
    <3>3. /\ u \o app \in Seq(LayerNames) /\ Len(u \o app) = 1 + Len(app)
          /\ (u \o app)[1] = u[1] /\ (Len(app) = 1 => (u \o app)[1 + 1] = app[1])
      BY <3>2, <2>2, Concat
    <3> QED
      BY <3>1, <3>2, <3>3, <2>2
  <2> QED
    BY <2>2, <2>4, <2>6, <2>7 DEF TransportStack
<1> QED
  BY <1>6, <1>7

(* The last bytes of two sequences in a row.                               *)
LEMMA TailOf ==
  ASSUME NEW u \in Seq(Byte), NEW w \in Seq(Byte), NEW n \in Nat, n <= Len(u)
  PROVE  LET b == u \o w
             f == SubSeq(b, Len(b) - n + 1, Len(b))
         IN  /\ f \in Seq(Byte)
             /\ Len(f) = n
             /\ n = 0 => f = <<>>
             /\ w = <<>> => \A m \in 1 .. n : f[m] = u[Len(u) - n + m]
<1>1. PICK b : b = u \o w
  OBVIOUS
<1>2. /\ b \in Seq(Byte) /\ Len(b) = Len(u) + Len(w) /\ Len(u) \in Nat /\ Len(w) \in Nat
      /\ \A i \in 1 .. Len(u) : b[i] = u[i]
  BY <1>1, Concat
<1>3. n <= Len(b) /\ Len(b) \in Nat
  BY <1>2
<1>4. PICK f : f = SubSeq(b, Len(b) - n + 1, Len(b))
  OBVIOUS
<1>5. f \in Seq(Byte) /\ Len(f) = n /\ \A m \in 1 .. n : f[m] = b[Len(b) - n + m]
  BY <1>2, <1>3, <1>4
<1>6. n = 0 => f = <<>>
  BY <1>5
<1>7. ASSUME w = <<>>, NEW m \in 1 .. n
      PROVE  f[m] = u[Len(u) - n + m]
  <2>1. Len(b) = Len(u)
    BY <1>2, <1>7
  <2>2. Len(u) - n + m \in 1 .. Len(u)
    BY <1>2, <1>3, <2>1
  <2> QED
    BY <1>2, <1>5, <2>1, <2>2
<1> QED
  BY <1>1, <1>4, <1>5, <1>6, <1>7

(* The range of a payload of n bytes.                                      *)
TailOfFrame(p, n) ==
  /\ FrameTail(p, n) \in Seq(Byte)
  /\ Len(FrameTail(p, n)) = n
  /\ n = 0 => FrameTail(p, n) = <<>>
  /\ p.pad = <<>> => \A m \in 1 .. n : FrameTail(p, n)[m] = p.data[Len(p.data) - n + m]

LEMMA TailIs ==
  ASSUME NEW p, p.data \in Seq(Byte), p.pad \in Seq(Byte), NEW n \in Nat, n <= Len(p.data)
  PROVE  TailOfFrame(p, n)
  BY TailOf, Zenon DEF FrameTail, TailOfFrame

(* What dissect_inner makes of a packet on its own.                        *)
OwnTuple(p, o) ==
  /\ ~ p.ip \/ ~ IsFirst(p) => o.tuple = {} /\ o.segment = <<>>
  /\ p.ip /\ IsFirst(p) => o.tuple = {IF Short(p) THEN NoPorts(p.dir) ELSE Ports(p.dir)}

OwnSegment(p, o) ==
  /\ o.segment \in Seq(Byte)
  /\ o.segment # <<>> =>
       /\ reassemble /\ p.ip /\ IsFirst(p) /\ p.proto = "tcp"
       /\ HdrLen["tcp"] < Len(p.data)
       /\ o.segment = FrameTail(p, Len(p.data) - HdrLen["tcp"])
       /\ o.seq = {p.data[1]}

OwnStack(p, s, segment) ==
  /\ s \in Seq(LayerNames)
  /\ ~ p.ip => s = <<"arp">>
  /\ p.ip /\ ~ IsFirst(p) => s = <<"ip", "ip-fragment">>
  /\ p.ip /\ IsFirst(p) =>
       /\ Len(s) \in 2 .. 3
       /\ s[1] = "ip" /\ s[2] = p.proto
       /\ Len(s) = 3 => s[3] = "app"
       /\ segment # <<>> => Len(s) = 2

LEMMA OwnRead ==
  ASSUME reassemble \in BOOLEAN, NEW p \in Frames, NEW o, o = dissect_inner(p)
  PROVE  OwnTuple(p, o) /\ OwnSegment(p, o) /\ OwnStack(p, o.stack, o.segment)
<1>1. CASE ~ p.ip
  <2>1. o = [tuple |-> {}, stack |-> <<"arp">>, seq |-> {}, segment |-> <<>>]
    BY <1>1 DEF dissect_inner
  <2>2. o.tuple = {} /\ o.stack = <<"arp">> /\ o.segment = <<>>
    BY <2>1
  <2>3. <<"arp">> \in Seq(LayerNames) /\ <<>> \in Seq(Byte)
    BY DEF LayerNames
  <2> QED
    BY <1>1, <2>2, <2>3 DEF OwnTuple, OwnSegment, OwnStack
<1>2. CASE p.ip /\ ~ IsFirst(p)
  <2>1. o = [tuple |-> {}, stack |-> <<"ip", "ip-fragment">>, seq |-> {}, segment |-> <<>>]
    BY <1>2 DEF dissect_inner
  <2>2. o.tuple = {} /\ o.stack = <<"ip", "ip-fragment">> /\ o.segment = <<>>
    BY <2>1
  <2>3. <<"ip", "ip-fragment">> \in Seq(LayerNames) /\ <<>> \in Seq(Byte)
    BY DEF LayerNames
  <2> QED
    BY <1>2, <2>2, <2>3 DEF OwnTuple, OwnSegment, OwnStack
<1>3. CASE p.ip /\ IsFirst(p)
  <2>1. PICK d : d = dispatch_ip_proto(p, p.data, reassemble)
    OBVIOUS
  <2>2. p.data \in Seq(Byte) /\ p.pad \in Seq(Byte) /\ p.proto \in Protos
    BY <1>3, FrameIs
  <2>3. TransportIs(p, p.data, reassemble, d) /\ TransportStack(p, reassemble, d.stack)
    BY <1>3, <2>1, <2>2, TransportRead
  <2>4. PICK seg : seg = IF reassemble THEN FrameTail(p, Len(d.payload)) ELSE <<>>
    OBVIOUS
  <2>5. o = [tuple |-> d.tuple, stack |-> <<"ip">> \o d.stack, seq |-> d.seq, segment |-> seg]
    BY <1>3, <2>1, <2>4 DEF dissect_inner
  <2>6. o.tuple = d.tuple /\ o.stack = <<"ip">> \o d.stack /\ o.seq = d.seq /\ o.segment = seg
    BY <2>5
  <2>7. OwnTuple(p, o)
    BY <1>3, <2>3, <2>6 DEF OwnTuple, TransportIs, Short
  <2>8. PICK n, l : n = HdrLen[p.proto] /\ l = Len(p.data)
    OBVIOUS
  <2>9. n \in Nat /\ n > 0 /\ l \in Nat
    BY <1>3, <2>2, <2>8, FrameIs
  <2>10. Len(d.payload) = (IF p.proto = "tcp" /\ n <= l THEN l - n ELSE 0)
         /\ d.seq = (IF p.proto = "tcp" /\ n <= l THEN {p.data[1]} ELSE {})
    BY <2>3, <2>8 DEF TransportIs
  <2>11. PICK m : m = Len(d.payload)
    OBVIOUS
  <2>12. m \in Nat /\ m <= l
    BY <2>9, <2>10, <2>11
  <2>13. FrameTail(p, m) \in Seq(Byte) /\ Len(FrameTail(p, m)) = m /\ (m = 0 => FrameTail(p, m) = <<>>)
    BY <2>2, <2>8, <2>12, TailIs DEF TailOfFrame
  <2>14. seg \in Seq(Byte)
    BY <2>4, <2>11, <2>13
  <2>15. seg # <<>> => reassemble /\ m > 0 /\ seg = FrameTail(p, m)
    BY <2>4, <2>11, <2>12, <2>13
  <2>16. m > 0 => p.proto = "tcp" /\ n < l /\ m = l - n /\ d.seq = {p.data[1]}
    BY <2>9, <2>10, <2>11
  <2>17. OwnSegment(p, o)
    BY <1>3, <2>6, <2>8, <2>14, <2>15, <2>16 DEF OwnSegment
  <2>18. PICK u : u = <<"ip">>
    OBVIOUS
  <2>19. u \in Seq(LayerNames) /\ Len(u) = 1 /\ u[1] = "ip"
    BY <2>18 DEF LayerNames
  <2>20. PICK v : v = d.stack
    OBVIOUS
  <2>21. v \in Seq(LayerNames) /\ Len(v) \in 1 .. 2 /\ v[1] = p.proto
         /\ (Len(v) = 2 => v[2] = "app") /\ (reassemble /\ p.proto = "tcp" => Len(v) = 1)
    BY <2>3, <2>20 DEF TransportStack
  <2>22. /\ u \o v \in Seq(LayerNames) /\ Len(u \o v) = 1 + Len(v) /\ (u \o v)[1] = u[1]
         /\ (u \o v)[1 + 1] = v[1]
         /\ Len(v) = 2 => (u \o v)[1 + 2] = v[2]
    <3>1. /\ u \o v \in Seq(LayerNames) /\ Len(u \o v) = Len(u) + Len(v)
          /\ \A i \in 1 .. Len(u) : (u \o v)[i] = u[i]
          /\ \A i \in 1 .. Len(v) : (u \o v)[Len(u) + i] = v[i]
      BY <2>19, <2>21, Concat
    <3> QED
      BY <2>19, <2>21, <3>1
  <2>23. PICK s : s = u \o v
    OBVIOUS
  <2>25. /\ s \in Seq(LayerNames) /\ Len(s) \in 2 .. 3 /\ s[1] = "ip" /\ s[2] = p.proto
         /\ (Len(s) = 3 => s[3] = "app") /\ (reassemble /\ p.proto = "tcp" => Len(s) = 2)
    BY <2>19, <2>21, <2>22, <2>23
  <2>26. o.stack = s
    BY <2>6, <2>18, <2>20, <2>23
  <2>24. OwnStack(p, o.stack, o.segment)
    BY <1>3, <2>6, <2>15, <2>16, <2>25, <2>26 DEF OwnStack
  <2> QED
    BY <2>7, <2>17, <2>24
<1> QED
  BY <1>1, <1>2, <1>3, FrameIs

----------------------------------------------------------------------------
(* The fragment table.                                                     *)

LEMMA FragmentIs ==
  ASSUME NEW p \in Frames, p.ip, NEW g \in p.frag, NEW k, k = <<p.dir, g.id, p.proto>>
  PROVE  /\ k \in FragKeys /\ k[3] = p.proto
         /\ g.offset \in Offsets /\ g.mf \in BOOLEAN
         /\ p.data \in FragPayloads
         /\ p.proto = "tcp" => Numbered([offset |-> g.offset, data |-> p.data])
<1>1. WellFormed(p) /\ p.data \in FragPayloads
  BY EngineAssumption
<1>2. p.dir \in Dirs /\ p.proto \in Protos /\ g.id \in Ids /\ g.offset \in Offsets /\ g.mf \in BOOLEAN
  BY <1>1 DEF WellFormed
<1>3. k \in Dirs \X Ids \X Protos /\ k[3] = p.proto
  BY <1>2
<1>4. k \in FragKeys
  BY <1>3, EngineAssumption
<1>5. ASSUME p.proto = "tcp", g.offset = 0, p.data # <<>>
      PROVE  p.data[1] \in SeqNum
  <2>1. IsFirst(p)
    BY <1>1, <1>5 DEF WellFormed, IsFirst
  <2> QED
    BY <1>1, <1>5, <2>1 DEF WellFormed
<1> QED
  BY <1>1, <1>2, <1>3, <1>4, <1>5 DEF Numbered

(* A packet takes the fragment table a step, or not at all.                *)
LEMMA FragStep ==
  ASSUME NEW p \in Frames, PushFragment(p)
  PROVE  [FragNext]_fragVars
<1>1. CASE IsPushed(p)
  <2>1. PICK g \in p.frag : FragPush(<<p.dir, g.id, p.proto>>, g.offset, g.mf, p.data)
    BY <1>1 DEF PushFragment
  <2>2. p.ip
    BY <1>1 DEF IsPushed
  <2> QED
    BY <2>1, <2>2, FragmentIs DEF FragNext
<1> QED
  BY <1>1 DEF PushFragment

LEMMA AddedNumbered ==
  ASSUME FragTypeOK, PiecesNumbered, NEW k \in FragKeys, k[3] = "tcp",
         NEW offset, NEW mf, NEW data, Numbered([offset |-> offset, data |-> data]),
         [offset |-> offset, data |-> data] \in Piece,
         NEW ps, ps = Added(k, offset, mf, data).pieces
  PROVE  \A i \in DOMAIN ps : Numbered(ps[i])
<1>1. PICK q, x : q = sets[k].pieces /\ x = [offset |-> offset, data |-> data]
  OBVIOUS
<1>2. q \in Seq(Piece) /\ x \in Piece
  BY <1>1 DEF FragTypeOK, FragSet
<1>3. ps = Append(q, x)
  BY <1>1 DEF Added
<1>4. \A i \in DOMAIN q : Numbered(q[i])
  BY <1>1 DEF PiecesNumbered
<1>5. Numbered(x)
  BY <1>1
<1>6. \A i \in DOMAIN Append(q, x) : (i \in DOMAIN q /\ Append(q, x)[i] = q[i]) \/ Append(q, x)[i] = x
  BY <1>2
<1> QED
  BY <1>3, <1>4, <1>5, <1>6

(* What was put together for a packet.                                     *)
Assembled(p, data) ==
  data \in Seq(Byte) /\ (p.proto = "tcp" /\ data # <<>> => data[1] \in SeqNum)

LEMMA DatagramNumbered ==
  ASSUME FragTypeOK', NeverHalfParsed', result' # NoResult, NEW p,
         p.proto = "tcp" => \A i \in DOMAIN result'.pieces : Numbered(result'.pieces[i])
  PROVE  Assembled(p, result'.data)
<1>1. PICK r : r = result'
  OBVIOUS
<1>2. /\ r.data \in Seq(Byte) /\ r.pieces \in Seq(Piece) /\ r.total \in Nat
  BY <1>1, EngineAssumption DEF FragTypeOK
<1>3. /\ Len(r.data) = r.total
      /\ \A n \in 1..r.total :
           \E i \in DOMAIN r.pieces :
             /\ r.pieces[i].offset < n
             /\ n <= End(r.pieces[i])
             /\ r.data[n] = ByteAt(r.pieces[i], n - 1)
  BY <1>1, Zenon DEF NeverHalfParsed
<1>4. ASSUME p.proto = "tcp", r.data # <<>>
      PROVE  r.data[1] \in SeqNum
  <2>1. PICK d, m : d = r.data /\ m = r.total
    OBVIOUS
  <2>2. m \in Nat /\ m >= 1
    <3>1. d \in Seq(Byte) /\ d # <<>> /\ Len(d) = m
      BY <1>2, <1>3, <1>4, <2>1
    <3> QED
      BY <3>1
  <2>3. PICK i \in DOMAIN r.pieces : r.pieces[i].offset < 1 /\ 1 <= End(r.pieces[i])
                                     /\ r.data[1] = ByteAt(r.pieces[i], 1 - 1)
    BY <1>3, <2>1, <2>2
  <2>4. PICK x : x = r.pieces[i]
    OBVIOUS
  <2>5. x \in Piece
    BY <1>2, <2>3, <2>4
  <2>6. PICK o, e : o = x.offset /\ e = x.data
    OBVIOUS
  <2>7. o \in Nat /\ e \in Seq(FragByte)
    BY <2>5, <2>6 DEF Piece
  <2>8. o = 0
    BY <2>3, <2>4, <2>6, <2>7
  <2>9. 1 <= o + Len(e) /\ r.data[1] = e[1 - 1 + 1 - o]
    BY <2>3, <2>4, <2>6 DEF End, ByteAt
  <2>10. e # <<>> /\ r.data[1] = e[1]
    BY <2>7, <2>8, <2>9
  <2>11. Numbered(x)
    BY <1>1, <1>4, <2>3, <2>4
  <2> QED
    BY <2>6, <2>8, <2>10, <2>11 DEF Numbered
<1> QED
  BY <1>1, <1>2, <1>4 DEF Assembled

(* A packet leaves the pieces numbered, and what it completes, too.        *)
LEMMA FragmentKeeps ==
  ASSUME FragInv, PiecesNumbered, NEW p \in Frames, PushFragment(p)
  PROVE  /\ FragInv'
         /\ PiecesNumbered'
         /\ Completed(p) => p.ip /\ p.frag # {} /\ reassemble /\ Assembled(p, result'.data)
<1>1. FragInv'
  BY FragStep, FragNextInv
<1>2. FragTypeOK /\ sets \in [FragKeys -> FragSet]
  BY DEF FragInv, FragTypeOK
<1>3. CASE ~ IsPushed(p)
  <2>1. sets' = sets
    BY <1>3 DEF PushFragment, fragVars
  <2> QED
    BY <1>1, <1>3, <2>1 DEF PiecesNumbered, Completed
<1>4. CASE IsPushed(p)
  <2>1. p.ip /\ p.frag # {} /\ reassemble
    BY <1>4 DEF IsPushed
  <2>2. PICK g \in p.frag : FragPush(<<p.dir, g.id, p.proto>>, g.offset, g.mf, p.data)
    BY <1>4 DEF PushFragment
  <2>3. PICK k : k = <<p.dir, g.id, p.proto>>
    OBVIOUS
  <2>4. /\ k \in FragKeys /\ k[3] = p.proto /\ g.offset \in Offsets /\ p.data \in FragPayloads
        /\ p.proto = "tcp" => Numbered([offset |-> g.offset, data |-> p.data])
    BY <2>1, <2>2, <2>3, FragmentIs
  <2>5. [offset |-> g.offset, data |-> p.data] \in Piece
    BY <2>4, FragAssumption DEF Piece
  <2>6. \/ FragPushRefused(k)
        \/ PushAbandons(k, p.data)
        \/ PushHolds(k, g.offset, g.mf, p.data)
        \/ PushCompletes(k, g.offset, g.mf, p.data)
    BY <2>2, <2>3 DEF FragPush
  <2>7. ASSUME p.proto = "tcp"
        PROVE  \A i \in DOMAIN Added(k, g.offset, g.mf, p.data).pieces :
                 Numbered(Added(k, g.offset, g.mf, p.data).pieces[i])
    BY <1>2, <2>4, <2>5, <2>7, AddedNumbered
  <2>8. CASE FragPushRefused(k)
    <3>1. sets' = sets /\ result' = NoResult
      BY <2>8 DEF FragPushRefused
    <3> QED
      BY <1>1, <3>1 DEF PiecesNumbered, Completed
  <2>9. ASSUME sets' = [sets EXCEPT ![k] = EmptySet]
        PROVE  PiecesNumbered'
    <3>1. SUFFICES ASSUME NEW l \in FragKeys, l[3] = "tcp", NEW i \in DOMAIN sets'[l].pieces
                   PROVE  Numbered(sets'[l].pieces[i])
      BY DEF PiecesNumbered
    <3>2. DOMAIN EmptySet.pieces = {}
      BY DEF EmptySet
    <3>3. l # k /\ sets'[l] = sets[l]
      BY <1>2, <2>4, <2>9, <3>1, <3>2
    <3> QED
      BY <3>1, <3>3 DEF PiecesNumbered
  <2>10. CASE PushAbandons(k, p.data)
    <3>1. sets' = [sets EXCEPT ![k] = EmptySet] /\ result' = NoResult
      BY <2>10 DEF PushAbandons
    <3> QED
      BY <1>1, <2>9, <3>1 DEF Completed
  <2>11. CASE PushHolds(k, g.offset, g.mf, p.data)
    <3>1. PICK s : s = Added(k, g.offset, g.mf, p.data)
      OBVIOUS
    <3>2. sets' = [sets EXCEPT ![k] = s] /\ result' = NoResult
      BY <2>11, <3>1 DEF PushHolds
    <3>3. ASSUME NEW l \in FragKeys, l[3] = "tcp", NEW i \in DOMAIN sets'[l].pieces
          PROVE  Numbered(sets'[l].pieces[i])
      <4>1. CASE l = k
        <5>1. sets'[l] = s
          BY <1>2, <2>4, <3>2, <4>1
        <5> QED
          BY <2>4, <2>7, <3>1, <3>3, <4>1, <5>1
      <4>2. CASE l # k
        <5>1. sets'[l] = sets[l]
          BY <1>2, <2>4, <3>2, <4>2
        <5> QED
          BY <3>3, <5>1 DEF PiecesNumbered
      <4> QED
        BY <4>1, <4>2
    <3> QED
      BY <1>1, <3>2, <3>3 DEF PiecesNumbered, Completed
  <2>12. CASE PushCompletes(k, g.offset, g.mf, p.data)
    <3>1. sets' = [sets EXCEPT ![k] = EmptySet]
      BY <2>12 DEF PushCompletes
    <3>2. result'.pieces = Added(k, g.offset, g.mf, p.data).pieces
      BY <2>12 DEF PushCompletes
    <3>3. p.proto = "tcp" => \A i \in DOMAIN result'.pieces : Numbered(result'.pieces[i])
      BY <2>7, <3>2
    <3>4. FragTypeOK' /\ NeverHalfParsed'
      BY <1>1 DEF FragInv
    <3>5. result' # NoResult => Assembled(p, result'.data)
      BY <3>3, <3>4, DatagramNumbered
    <3> QED
      BY <1>1, <2>1, <2>9, <3>1, <3>5 DEF Completed
  <2> QED
    BY <2>6, <2>8, <2>10, <2>11, <2>12
<1> QED
  BY <1>3, <1>4

----------------------------------------------------------------------------
(* The row of a packet.                                                    *)

(* Stack v is w on top of u.                                               *)
OnTop(u, w, v) ==
  /\ v \in Seq(LayerNames)
  /\ Len(v) = Len(u) + Len(w)
  /\ DOMAIN v = 1 .. Len(v)
  /\ \A i \in 1 .. Len(u) : v[i] = u[i]
  /\ \A i \in 1 .. Len(w) : v[Len(u) + i] = w[i]
  /\ \A i \in 1 .. Len(v) : (i \in 1 .. Len(u)) \/ (\E j \in 1 .. Len(w) : i = Len(u) + j)

LEMMA PutOnTop ==
  ASSUME NEW u \in Seq(LayerNames), NEW w \in Seq(LayerNames)
  PROVE  OnTop(u, w, u \o w) /\ Len(u) \in Nat /\ Len(w) \in Nat
<1>1. /\ u \o w \in Seq(LayerNames) /\ Len(u) \in Nat /\ Len(w) \in Nat /\ Len(u \o w) = Len(u) + Len(w)
      /\ \A i \in 1 .. Len(u) : (u \o w)[i] = u[i]
      /\ \A i \in 1 .. Len(w) : (u \o w)[Len(u) + i] = w[i]
  BY Concat
<1>2. DOMAIN (u \o w) = 1 .. Len(u \o w)
  BY <1>1
<1>3. ASSUME NEW i \in 1 .. Len(u \o w), ~ (i \in 1 .. Len(u))
      PROVE  \E j \in 1 .. Len(w) : i = Len(u) + j
  <2>1. i - Len(u) \in 1 .. Len(w) /\ i = Len(u) + (i - Len(u))
    BY <1>1, <1>3
  <2> QED
    BY <2>1
<1> QED
  BY <1>1, <1>2, <1>3 DEF OnTop

(* The stack of a row, told by how often the packet was dissected.         *)
StackOf(p, done, s) ==
  /\ s \in Seq(LayerNames)
  /\ IF done /\ IsFirst(p) THEN Doubled(s) ELSE Plain(s)
  /\ done => \A i \in DOMAIN s : s[i] # "ip-fragment"
  /\ p.ip /\ (IsFirst(p) \/ done) => s[Len(s)] \in {"tcp", "udp", "app"}

(* A layer on top of the transport is named by one dispatch, the packet's  *)
(* own or, of a segment, the one of the stream.                            *)
TopLayer(w) == w \in Seq(LayerNames) /\ Len(w) \in 0 .. 1 /\ (Len(w) = 1 => w[1] = "app")

LEMMA OnceStack ==
  ASSUME NEW p \in Frames, NEW u, NEW segment, OwnStack(p, u, segment),
         segment # <<>> => p.ip /\ IsFirst(p),
         NEW w, TopLayer(w), segment = <<>> => w = <<>>,
         NEW s, OnTop(u, w, s)
  PROVE  StackOf(p, FALSE, s)
<1>2. u \in Seq(LayerNames) /\ w \in Seq(LayerNames) /\ Len(w) \in 0 .. 1 /\ (Len(w) = 1 => w[1] = "app")
  BY DEF OwnStack, TopLayer
<1>3. OnTop(u, w, s) /\ Len(u) \in Nat
  BY <1>2
<1>4. w = <<>> => Len(w) = 0
  BY <1>2
<1>5. CASE ~ p.ip
  <2>1. u = <<"arp">> /\ w = <<>>
    BY <1>5 DEF OwnStack
  <2>2. Len(u) = 1 /\ u[1] = "arp"
    BY <2>1
  <2>3. Len(s) = 1 /\ s[1] = "arp" /\ s \in Seq(LayerNames)
    BY <1>3, <1>4, <2>1, <2>2 DEF OnTop
  <2>4. Plain(s)
    BY <2>3 DEF Plain
  <2> QED
    BY <1>5, <2>3, <2>4 DEF StackOf
<1>6. CASE p.ip /\ ~ IsFirst(p)
  <2>1. u = <<"ip", "ip-fragment">> /\ w = <<>>
    BY <1>6 DEF OwnStack
  <2>2. Len(u) = 2 /\ u[1] = "ip" /\ u[2] = "ip-fragment"
    BY <2>1
  <2>3. Len(s) = 2 /\ s[1] = "ip" /\ s[2] = "ip-fragment"
    BY <1>3, <1>4, <2>1, <2>2 DEF OnTop
  <2> QED
    BY <1>3, <1>6, <2>3 DEF StackOf, Plain, OnTop
<1>7. CASE p.ip /\ IsFirst(p)
  <2>1. /\ Len(u) \in 2 .. 3 /\ u[1] = "ip" /\ u[2] = p.proto /\ (Len(u) = 3 => u[3] = "app")
        /\ segment # <<>> => Len(u) = 2
    BY <1>7 DEF OwnStack
  <2>2. p.proto \in Protos
    BY <1>7, FrameIs
  <2>3. Len(w) = 1 => Len(u) = 2
    BY <1>2, <1>4, <2>1
  <2>4. s[1] = "ip" /\ s[2] = p.proto /\ Len(s) \in 2 .. 3 /\ s \in Seq(LayerNames)
    <3>1. 1 \in 1 .. Len(u) /\ 2 \in 1 .. Len(u) /\ Len(u) + Len(w) \in 2 .. 3
      <4>1. PICK a, b : a = Len(u) /\ b = Len(w)
        OBVIOUS
      <4>2. a \in 2 .. 3 /\ b \in 0 .. 1 /\ (b = 1 => a = 2)
        BY <1>2, <2>1, <2>3, <4>1, Zenon
      <4>3. 1 \in 1 .. a /\ 2 \in 1 .. a /\ a + b \in 2 .. 3
        BY <4>2
      <4> QED
        BY <4>1, <4>3, Zenon
    <3>2. s[1] = u[1] /\ s[2] = u[2] /\ Len(s) = Len(u) + Len(w) /\ s \in Seq(LayerNames)
      BY <1>3, <3>1, Zenon DEF OnTop
    <3> QED
      BY <2>1, <3>1, <3>2
  <2>5. Len(s) = 3 => s[3] = "app"
    <3>1. CASE Len(w) = 1
      <4>1. Len(u) = 2 /\ 1 \in 1 .. Len(w)
        BY <2>3, <3>1
      <4>2. s[Len(u) + 1] = w[1]
        BY <1>3, <4>1, Zenon DEF OnTop
      <4> QED
        BY <1>2, <3>1, <4>1, <4>2
    <3>2. CASE Len(w) = 0
      <4>1. Len(s) = Len(u) + Len(w)
        BY <1>3, Zenon DEF OnTop
      <4>2. ASSUME Len(s) = 3 PROVE 3 \in 1 .. Len(u) /\ Len(u) = 3
        BY <2>1, <3>2, <4>1, <4>2
      <4>3. ASSUME Len(s) = 3 PROVE s[3] = u[3]
        BY <1>3, <4>2, <4>3, Zenon DEF OnTop
      <4> QED
        BY <2>1, <4>2, <4>3
    <3> QED
      BY <1>2, <3>1, <3>2
  <2>6. Plain(s)
    BY <2>2, <2>4, <2>5 DEF Plain
  <2>7. s[Len(s)] \in {"tcp", "udp", "app"}
    BY <2>2, <2>4, <2>5 DEF Protos
  <2> QED
    BY <2>4, <2>6, <2>7 DEF StackOf
<1> QED
  BY <1>5, <1>6, <1>7, FrameIs

(* redissect_datagram takes the marker off, and only the marker.           *)
LEMMA BaseIs ==
  ASSUME NEW p \in Frames, p.ip, NEW u, NEW segment, OwnStack(p, u, segment),
         NEW b, b = Base(u)
  PROVE  /\ b \in Seq(LayerNames)
         /\ IsFirst(p) => b = u
         /\ ~ IsFirst(p) => Len(b) = 1 /\ b[1] = "ip"
<1>1. u \in Seq(LayerNames) /\ p.proto \in Protos
  BY FrameIs DEF OwnStack
<1>2. CASE IsFirst(p)
  <2>1. Len(u) \in 2 .. 3 /\ u[2] = p.proto /\ (Len(u) = 3 => u[3] = "app")
    BY <1>2 DEF OwnStack
  <2>2. u[Len(u)] # "ip-fragment"
    BY <1>1, <2>1 DEF Protos
  <2>3. b = u
    BY <2>2 DEF Base
  <2> QED
    BY <1>1, <1>2, <2>3
<1>3. CASE ~ IsFirst(p)
  <2>1. u = <<"ip", "ip-fragment">>
    BY <1>3 DEF OwnStack
  <2>2. Len(u) = 2 /\ u[1] = "ip" /\ u[2] = "ip-fragment"
    BY <2>1
  <2>3. b = SubSeq(u, 1, 1)
    <3>1. u[Len(u)] = "ip-fragment" /\ Len(u) - 1 = 1
      BY <2>2
    <3> QED
      BY <3>1 DEF Base
  <2>4. SubSeq(u, 1, 1) \in Seq(LayerNames) /\ Len(SubSeq(u, 1, 1)) = 1 /\ SubSeq(u, 1, 1)[1] = u[1]
    BY <1>1, <2>2
  <2> QED
    BY <1>3, <2>2, <2>3, <2>4
<1> QED
  BY <1>2, <1>3

LEMMA DoneStack ==
  ASSUME NEW p \in Frames, p.ip, NEW b \in Seq(LayerNames), NEW u, NEW segment,
         OwnStack(p, u, segment), segment # <<>> => IsFirst(p),
         IsFirst(p) => b = u,
         ~ IsFirst(p) => Len(b) = 1 /\ b[1] = "ip",
         NEW f, TransportStack(p, FALSE, f),
         NEW v, OnTop(b, f, v),
         NEW w, TopLayer(w), segment = <<>> => w = <<>>,
         NEW s, OnTop(v, w, s)
  PROVE  StackOf(p, TRUE, s)
<1>1. /\ f \in Seq(LayerNames) /\ Len(f) \in 1 .. 2 /\ f[1] = p.proto /\ (Len(f) = 2 => f[2] = "app")
      /\ w \in Seq(LayerNames) /\ Len(w) \in 0 .. 1 /\ (Len(w) = 1 => w[1] = "app")
      /\ p.proto \in Protos
  BY FrameIs DEF TransportStack, TopLayer
<1>2. /\ v \in Seq(LayerNames) /\ Len(v) = Len(b) + Len(f)
      /\ \A i \in 1 .. Len(b) : v[i] = b[i]
      /\ \A i \in 1 .. Len(f) : v[Len(b) + i] = f[i]
      /\ \A i \in 1 .. Len(v) : (i \in 1 .. Len(b)) \/ (\E j \in 1 .. Len(f) : i = Len(b) + j)
  BY DEF OnTop
<1>3. /\ s \in Seq(LayerNames) /\ Len(s) = Len(v) + Len(w) /\ DOMAIN s = 1 .. Len(s)
      /\ \A i \in 1 .. Len(v) : s[i] = v[i]
      /\ \A i \in 1 .. Len(w) : s[Len(v) + i] = w[i]
      /\ \A i \in 1 .. Len(s) : (i \in 1 .. Len(v)) \/ (\E j \in 1 .. Len(w) : i = Len(v) + j)
  BY DEF OnTop
<1>4. PICK lb, lf, lv, lw, ls : lb = Len(b) /\ lf = Len(f) /\ lv = Len(v) /\ lw = Len(w) /\ ls = Len(s)
  OBVIOUS
<1>5. lb \in Nat /\ lf \in 1 .. 2 /\ lw \in 0 .. 1 /\ lv = lb + lf /\ ls = lv + lw
  BY <1>1, <1>2, <1>3, <1>4
<1>6. IsFirst(p) => lb \in 2 .. 3 /\ b[1] = "ip" /\ b[2] = p.proto /\ (lb = 3 => b[3] = "app")
  BY <1>4 DEF OwnStack
<1>7. ~ IsFirst(p) => lb = 1 /\ b[1] = "ip" /\ lw = 0
  <2>1. w = <<>> => Len(w) = 0
    BY <1>1
  <2> QED
    BY <1>4, <2>1
<1>8. \A i \in 1 .. lb : b[i] # "ip-fragment"
  BY <1>1, <1>5, <1>6, <1>7 DEF Protos
<1>9. \A i \in 1 .. lf : f[i] # "ip-fragment" /\ f[i] \in {"tcp", "udp", "app"}
  BY <1>1, <1>4 DEF Protos
<1>10. \A i \in 1 .. lw : w[i] = "app"
  BY <1>1, <1>4
<1>11. \A i \in 1 .. lv : v[i] # "ip-fragment"
  <2>1. SUFFICES ASSUME NEW i \in 1 .. lv PROVE v[i] # "ip-fragment"
    OBVIOUS
  <2>2. CASE i \in 1 .. lb
    BY <1>2, <1>4, <1>8, <2>2
  <2>3. ASSUME NEW j \in 1 .. lf, i = lb + j PROVE v[i] # "ip-fragment"
    BY <1>2, <1>4, <1>9, <2>3
  <2> QED
    BY <1>2, <1>4, <2>2, <2>3
<1>12. \A i \in DOMAIN s : s[i] # "ip-fragment"
  <2>1. SUFFICES ASSUME NEW i \in 1 .. ls PROVE s[i] # "ip-fragment"
    BY <1>3, <1>4
  <2>2. CASE i \in 1 .. lv
    BY <1>3, <1>4, <1>11, <2>2
  <2>3. ASSUME NEW j \in 1 .. lw, i = lv + j PROVE s[i] # "ip-fragment"
    BY <1>3, <1>4, <1>10, <2>3
  <2> QED
    BY <1>3, <1>4, <2>2, <2>3
<1>13. s[lb + 1] = p.proto /\ lb + 1 \in 1 .. lv
  <2>1. lb + 1 \in 1 .. lv /\ 1 \in 1 .. lf
    BY <1>5
  <2>2. v[lb + 1] = f[1]
    BY <1>2, <1>4, <2>1
  <2>3. s[lb + 1] = v[lb + 1]
    BY <1>3, <1>4, <2>1
  <2> QED
    BY <1>1, <2>1, <2>2, <2>3
<1>14. s[Len(s)] \in {"tcp", "udp", "app"}
  <2>1. CASE lw = 1
    <3>1. 1 \in 1 .. lw /\ ls = lv + 1
      BY <1>5, <2>1
    <3>2. s[lv + 1] = w[1] /\ w[1] = "app"
      BY <1>3, <1>4, <1>10, <3>1
    <3> QED
      BY <1>4, <3>1, <3>2
  <2>2. CASE lw = 0
    <3>1. ls = lb + lf /\ lf \in 1 .. lf /\ ls \in 1 .. lv
      BY <1>5, <2>2
    <3>2. s[ls] = v[ls] /\ v[lb + lf] = f[lf]
      BY <1>2, <1>3, <1>4, <3>1
    <3> QED
      BY <1>4, <1>9, <3>1, <3>2
  <2> QED
    BY <1>5, <2>1, <2>2
<1>15. CASE IsFirst(p)
  <2>1. 2 \in 1 .. lb /\ 2 \in 1 .. lv
    BY <1>5, <1>6, <1>15
  <2>2. s[2] = p.proto
    BY <1>2, <1>3, <1>4, <1>6, <1>15, <2>1
  <2>3. 2 < lb + 1 /\ 2 \in DOMAIN s /\ lb + 1 \in DOMAIN s
    BY <1>3, <1>4, <1>5, <1>13, <2>1
  <2>4. Doubled(s)
    BY <1>13, <2>2, <2>3 DEF Doubled
  <2> QED
    BY <1>3, <1>12, <1>14, <1>15, <2>4 DEF StackOf
<1>16. CASE ~ IsFirst(p)
  <2>1. ls = 1 + lf /\ 1 \in 1 .. lb /\ 1 \in 1 .. lv /\ lb + 1 = 2
    BY <1>5, <1>7, <1>16
  <2>2. s[1] = "ip" /\ s[2] = p.proto
    BY <1>2, <1>3, <1>4, <1>7, <1>13, <1>16, <2>1
  <2>3. ASSUME ls = 3 PROVE s[3] = "app"
    <3>1. lf = 2 /\ 2 \in 1 .. lf /\ lb + 2 = 3 /\ 3 \in 1 .. lv
      BY <1>5, <1>7, <1>16, <2>1, <2>3
    <3>2. v[lb + 2] = f[2] /\ s[3] = v[3] /\ f[2] = "app"
      BY <1>1, <1>2, <1>3, <1>4, <3>1
    <3> QED
      BY <3>1, <3>2
  <2>4. Plain(s)
    BY <1>1, <1>4, <1>5, <2>1, <2>2, <2>3 DEF Plain
  <2> QED
    BY <1>3, <1>12, <1>14, <1>16, <2>4 DEF StackOf
<1> QED
  BY <1>15, <1>16

(* A packet absorbed as row r, its segment pushed with the number in seq.  *)
Pushes(p, r, seq, segment) ==
  /\ rows' = Append(rows, r)
  /\ PushSegment(r.tuple, seq, segment)
  /\ PushFlow(p, r.tuple, seq, r.stack)
  /\ r.flow = IF r.tuple = {} THEN 0 ELSE seen'[Len(seen')].flow_id
  /\ \/ r.reassembled = {Len(Prefix(r.tuple, segment)) > Len(segment)} /\ r.tuple # {}
     \/ r.reassembled \in {{}, {TRUE}}

RowOf(p, r) ==
  /\ r = [packet |-> r.packet, tuple |-> r.tuple, stack |-> r.stack, done |-> r.done,
          data |-> r.data, flow |-> r.flow, reassembled |-> r.reassembled]
  /\ r.packet = p
  /\ r.done \in BOOLEAN
  /\ r.data \in Seq(Byte)

SegmentOf(p, r, seq, segment) ==
  r.tuple # {} /\ segment # <<>> =>
    \A k \in r.tuple, s \in seq :
      /\ s \in SeqNum
      /\ segment \in SegPayloads
      /\ CameWith(r, k, [seq |-> s, data |-> segment])

(* The names Absorb gives its results.                                     *)
Results(p, own, found, done, tuple, seq, prefix, base, stack, r) ==
  /\ own = dissect_inner(p)
  /\ done => found = dispatch_ip_proto(p, r.data, FALSE)
  /\ ~ done => found.tuple = {} /\ found.seq = {}
  /\ tuple = Tuple(own.tuple, found.tuple)
  /\ seq = Or(found.seq, own.seq)
  /\ base = IF done THEN Base(own.stack) \o found.stack ELSE own.stack
  /\ tuple = {} \/ own.segment = <<>> => prefix = <<>>
  /\ stack = base \o dispatch(prefix)

LEMMA AbsorbNames ==
  ASSUME EngineInv, NEW p \in Frames, Absorb(p)
  PROVE  \E own, found, done, tuple, seq, prefix, base, stack, r :
           /\ done = Completed(p)
           /\ done => r.data = result'.data
           /\ r.tuple = tuple /\ r.stack = stack /\ r.done = done
           /\ RowOf(p, r)
           /\ Results(p, own, found, done, tuple, seq, prefix, base, stack, r)
           /\ Pushes(p, r, seq, own.segment)
<1>1. PICK own : own = dissect_inner(p)
  OBVIOUS
<1>2. PICK found : found = Found(p)
  OBVIOUS
<1>3. PICK done : done = Completed(p)
  OBVIOUS
<1>4. PICK tuple : tuple = Tuple(own.tuple, found.tuple)
  OBVIOUS
<1>5. PICK seq : seq = Or(found.seq, own.seq)
  OBVIOUS
<1>6. PICK base : base = IF done THEN Base(own.stack) \o found.stack ELSE own.stack
  OBVIOUS
<1>7. PICK prefix : prefix = Prefix(tuple, own.segment)
  OBVIOUS
<1>8. PICK stack : stack = base \o dispatch(prefix)
  OBVIOUS
<1>9. PICK data : data = IF done THEN result'.data ELSE <<>>
  OBVIOUS
<1>10. PICK flow : flow = IF tuple = {} THEN 0 ELSE seen'[Len(seen')].flow_id
  OBVIOUS
<1>11. PICK re : re = IF tuple # {} /\ own.segment # <<>>
                      THEN {Len(prefix) > Len(own.segment)}
                      ELSE IF done THEN {TRUE} ELSE {}
  OBVIOUS
<1>12. PICK r : r = [packet |-> p, tuple |-> tuple, stack |-> stack, done |-> done,
                     data |-> data, flow |-> flow, reassembled |-> re]
  OBVIOUS
<1>13. /\ rows' = Append(rows, r)
       /\ PushSegment(tuple, seq, own.segment)
       /\ PushFlow(p, tuple, seq, stack)
       /\ PushFragment(p)
  BY <1>1, <1>2, <1>3, <1>4, <1>5, <1>6, <1>7, <1>8, <1>9, <1>10, <1>11, <1>12, Zenon DEF Absorb
<1>14. /\ r.packet = p /\ r.tuple = tuple /\ r.stack = stack /\ r.done = done
       /\ r.data = data /\ r.flow = flow /\ r.reassembled = re
  BY <1>12
<1>15. Pushes(p, r, seq, own.segment)
  <2>1. \/ re = {Len(prefix) > Len(own.segment)} /\ tuple # {}
        \/ re \in {{}, {TRUE}}
    BY <1>11, Zenon
  <2> QED
    BY <1>7, <1>10, <1>13, <1>14, <2>1, Zenon DEF Pushes
<1>16. done \in BOOLEAN
  BY <1>3 DEF Completed
<1>17. data \in Seq(Byte)
  <2>1. CASE done
    <3>1. Assembled(p, result'.data)
      BY <1>3, <1>13, <2>1, FragmentKeeps DEF EngineInv, TablesInv
    <3> QED
      BY <1>9, <2>1, <3>1 DEF Assembled
  <2>2. CASE ~ done
    BY <1>9, <2>2
  <2> QED
    BY <2>1, <2>2
<1>19. RowOf(p, r)
  BY <1>12, <1>14, <1>16, <1>17 DEF RowOf
<1>20. /\ done => found = dispatch_ip_proto(p, r.data, FALSE)
       /\ ~ done => found.tuple = {} /\ found.seq = {}
  <2>1. done => found = dispatch_ip_proto(p, data, FALSE)
    BY <1>2, <1>3, <1>9 DEF Found
  <2>2. ~ done => found = [tuple |-> {}, stack |-> <<>>, seq |-> {}, payload |-> <<>>]
    BY <1>2, <1>3 DEF Found
  <2>3. ~ done => found.tuple = {} /\ found.seq = {}
    BY <2>2
  <2> QED
    BY <1>14, <2>1, <2>3, Zenon
<1>21. tuple = {} \/ own.segment = <<>> => prefix = <<>>
  BY <1>7 DEF Prefix
<1>22. Results(p, own, found, done, tuple, seq, prefix, base, stack, r)
  BY <1>1, <1>4, <1>5, <1>6, <1>8, <1>20, <1>21, Zenon DEF Results
<1>23. done => r.data = result'.data
  BY <1>9, <1>14
<1> QED
  BY <1>3, <1>14, <1>15, <1>19, <1>22, <1>23, Zenon

(* Own tuples come first; a datagram's is the only one of a later          *)
(* fragment.                                                               *)
LEMMA TupleRead ==
  ASSUME NEW p \in Frames, NEW own, OwnTuple(p, own), NEW found, NEW r, r.packet = p,
         r.done \in BOOLEAN,
         r.done => p.ip /\ TransportIs(p, r.data, FALSE, found),
         ~ r.done => found.tuple = {},
         r.tuple = Tuple(own.tuple, found.tuple)
  PROVE  /\ TupleIsRead(r)
         /\ r.tuple # {} => p.ip /\ (IsFirst(p) \/ r.done)
<1>1. CASE ~ p.ip
  <2>1. r.tuple = {}
    BY <1>1 DEF OwnTuple, Tuple, Or
  <2> QED
    BY <1>1, <2>1 DEF TupleIsRead
<1>2. CASE p.ip /\ IsFirst(p)
  <2>1. own.tuple = {IF Short(p) THEN NoPorts(p.dir) ELSE Ports(p.dir)}
    BY <1>2 DEF OwnTuple
  <2>2. r.tuple = own.tuple
    BY <2>1 DEF Tuple, Or
  <2>3. Portless(r) <=> Short(p)
    BY <1>2 DEF Portless
  <2> QED
    BY <1>2, <2>1, <2>2, <2>3 DEF TupleIsRead
<1>3. CASE p.ip /\ ~ IsFirst(p) /\ r.done
  <2>1. r.tuple = found.tuple
    BY <1>3 DEF OwnTuple, Tuple, Or
  <2>2. found.tuple = {IF Len(r.data) < HdrLen[p.proto] THEN NoPorts(p.dir) ELSE Ports(p.dir)}
    BY <1>3 DEF TransportIs
  <2>3. Portless(r) <=> Len(r.data) < HdrLen[p.proto]
    BY <1>3 DEF Portless, Short
  <2> QED
    BY <1>3, <2>1, <2>2, <2>3, Zenon DEF TupleIsRead
<1>4. CASE p.ip /\ ~ IsFirst(p) /\ ~ r.done
  <2>1. r.tuple = {}
    BY <1>4 DEF OwnTuple, Tuple, Or
  <2> QED
    BY <1>4, <2>1 DEF TupleIsRead
<1> QED
  BY <1>1, <1>2, <1>3, <1>4, FrameIs

(* The number a segment is pushed with is the row's.                       *)
LEMMA SegmentRead ==
  ASSUME NEW p \in Frames, NEW own, OwnSegment(p, own), NEW found, NEW r, r.packet = p,
         r.done \in BOOLEAN, r.data \in Seq(Byte),
         r.done => TransportIs(p, r.data, FALSE, found) /\ Assembled(p, r.data),
         ~ r.done => found.seq = {},
         TupleIsRead(r),
         NEW seq, seq = Or(found.seq, own.seq)
  PROVE  SegmentOf(p, r, seq, own.segment)
<1>1. SUFFICES ASSUME r.tuple # {}, own.segment # <<>>, NEW k \in r.tuple, NEW s \in seq
               PROVE  /\ s \in SeqNum
                      /\ own.segment \in SegPayloads
                      /\ CameWith(r, k, [seq |-> s, data |-> own.segment])
  BY DEF SegmentOf
<1>2. /\ p.ip /\ IsFirst(p) /\ p.proto = "tcp"
      /\ HdrLen["tcp"] < Len(p.data)
      /\ own.segment = FrameTail(p, Len(p.data) - HdrLen["tcp"])
      /\ own.seq = {p.data[1]}
  BY <1>1 DEF OwnSegment
<1>3. own.segment \in SegPayloads
  BY <1>2, EngineAssumption
<1>4. r.tuple = {k}
  BY <1>1 DEF TupleIsRead
<1>5. PICK h, d, e : h = HdrLen["tcp"] /\ d = p.data /\ e = r.data
  OBVIOUS
<1>6. h \in Nat /\ h > 0 /\ d \in Seq(Byte) /\ e \in Seq(Byte) /\ h < Len(d)
  BY <1>2, <1>5, FrameIs
<1>7. CASE r.done /\ h <= Len(e)
  <2>1. found.seq = {e[1]}
    BY <1>2, <1>5, <1>7 DEF TransportIs
  <2>2. s = e[1] /\ SeqOf(r) = e[1]
    BY <1>1, <1>5, <1>7, <2>1 DEF Or, SeqOf
  <2>3. e # <<>>
    BY <1>6, <1>7
  <2>4. e[1] \in SeqNum
    BY <1>2, <1>5, <1>7, <2>3 DEF Assembled
  <2> QED
    BY <1>2, <1>3, <1>4, <2>2, <2>4 DEF CameWith
<1>8. CASE ~ (r.done /\ h <= Len(e))
  <2>1. found.seq = {}
    BY <1>2, <1>5, <1>8 DEF TransportIs
  <2>2. s = d[1] /\ SeqOf(r) = d[1]
    BY <1>1, <1>2, <1>5, <1>8, <2>1 DEF Or, SeqOf
  <2>3. d # <<>>
    BY <1>6
  <2>4. d[1] \in SeqNum
    BY <1>2, <1>5, <2>3, EngineAssumption DEF WellFormed
  <2> QED
    BY <1>2, <1>3, <1>4, <2>2, <2>4 DEF CameWith
<1> QED
  BY <1>7, <1>8

LEMMA AbsorbRow ==
  ASSUME EngineInv, NEW p \in Frames, Absorb(p)
  PROVE  \E r, seq, segment :
           /\ RowOf(p, r) /\ r.stack \in Seq(LayerNames)
           /\ TupleIsRead(r) /\ StackIsRead(r)
           /\ segment \in Seq(Byte) /\ SegmentOf(p, r, seq, segment)
           /\ Pushes(p, r, seq, segment)
<1>1. PICK own, found, done, tuple, seq, prefix, base, stack, r :
           /\ done = Completed(p)
           /\ done => r.data = result'.data
           /\ r.tuple = tuple /\ r.stack = stack /\ r.done = done
           /\ RowOf(p, r)
           /\ Results(p, own, found, done, tuple, seq, prefix, base, stack, r)
           /\ Pushes(p, r, seq, own.segment)
  BY AbsorbNames
<1>2. OwnTuple(p, own) /\ OwnSegment(p, own) /\ OwnStack(p, own.stack, own.segment)
  <2>1. own = dissect_inner(p) /\ reassemble \in BOOLEAN
    BY <1>1 DEF Results, EngineInv, EngineTypeOK
  <2> QED
    BY <2>1, OwnRead
<1>3. r.packet = p /\ r.done \in BOOLEAN /\ r.data \in Seq(Byte)
  BY <1>1 DEF RowOf
<1>4. r.done => p.ip /\ Assembled(p, r.data)
  <2>1. PushFragment(p)
    BY DEF Absorb
  <2> QED
    BY <1>1, <2>1, FragmentKeeps DEF EngineInv, TablesInv
<1>5. r.done => /\ TransportIs(p, r.data, FALSE, found)
                /\ TransportStack(p, FALSE, found.stack)
  <2>1. r.done => found = dispatch_ip_proto(p, r.data, FALSE)
    BY <1>1 DEF Results
  <2> QED
    BY <1>3, <1>4, <2>1, TransportRead
<1>6. /\ ~ r.done => found.tuple = {} /\ found.seq = {}
      /\ r.tuple = Tuple(own.tuple, found.tuple)
      /\ seq = Or(found.seq, own.seq)
  BY <1>1 DEF Results
<1>7. TupleIsRead(r) /\ (r.tuple # {} => p.ip /\ (IsFirst(p) \/ r.done))
  BY <1>2, <1>3, <1>4, <1>5, <1>6, TupleRead
<1>8. SegmentOf(p, r, seq, own.segment)
  BY <1>2, <1>3, <1>4, <1>5, <1>6, <1>7, SegmentRead
<1>9. own.segment \in Seq(Byte)
  BY <1>2 DEF OwnSegment
<1>10. StackOf(p, r.done, r.stack)
  <2>1. PICK w : w = dispatch(prefix)
    OBVIOUS
  <2>2. TopLayer(w) /\ (own.segment = <<>> => w = <<>>)
    <3>1. own.segment = <<>> => prefix = <<>>
      BY <1>1 DEF Results
    <3> QED
      BY <2>1, <3>1, DispatchIs DEF TopLayer
  <2>3. own.segment # <<>> => p.ip /\ IsFirst(p)
    BY <1>2 DEF OwnSegment
  <2>4. PICK u : u = own.stack
    OBVIOUS
  <2>5. OwnStack(p, u, own.segment) /\ u \in Seq(LayerNames) /\ w \in Seq(LayerNames)
    BY <1>2, <2>2, <2>4 DEF OwnStack, TopLayer
  <2>6. CASE ~ r.done
    <3>1. r.stack = u \o w
      BY <1>1, <2>1, <2>4, <2>6 DEF Results
    <3>2. OnTop(u, w, u \o w)
      BY <2>5, PutOnTop
    <3>3. StackOf(p, FALSE, r.stack)
      BY <2>2, <2>3, <2>5, <3>1, <3>2, OnceStack, Zenon
    <3> QED
      BY <1>3, <2>6, <3>3
  <2>7. CASE r.done
    <3>1. PICK b, f : b = Base(u) /\ f = found.stack
      OBVIOUS
    <3>2. /\ b \in Seq(LayerNames) /\ (IsFirst(p) => b = u)
          /\ (~ IsFirst(p) => Len(b) = 1 /\ b[1] = "ip")
      BY <1>4, <2>5, <2>7, <3>1, BaseIs
    <3>3. TransportStack(p, FALSE, f) /\ f \in Seq(LayerNames)
      BY <1>5, <2>7, <3>1 DEF TransportStack
    <3>4. r.stack = (b \o f) \o w
      BY <1>1, <2>1, <2>4, <2>7, <3>1 DEF Results
    <3>5. PICK v : v = b \o f
      OBVIOUS
    <3>6. OnTop(b, f, v) /\ v \in Seq(LayerNames)
      BY <3>2, <3>3, <3>5, PutOnTop DEF OnTop
    <3>7. OnTop(v, w, v \o w)
      BY <2>5, <3>6, PutOnTop
    <3>8. r.stack = v \o w
      BY <3>4, <3>5
    <3>9. StackOf(p, TRUE, r.stack)
      BY <1>4, <2>2, <2>3, <2>5, <2>7, <3>2, <3>3, <3>6, <3>7, <3>8, DoneStack, Zenon
    <3> QED
      BY <1>3, <2>7, <3>9
  <2> QED
    BY <1>3, <2>6, <2>7
<1>11. r.stack \in Seq(LayerNames) /\ StackIsRead(r)
  BY <1>3, <1>7, <1>10 DEF StackOf, StackIsRead
<1> QED
  BY <1>1, <1>7, <1>8, <1>9, <1>11

----------------------------------------------------------------------------
(* The stream table and the flow table.                                    *)

LEMMA TupleTypes ==
  ASSUME NEW r, r.packet \in Frames, TupleIsRead(r)
  PROVE  r.tuple \in SUBSET Directions /\ r.tuple \in SUBSET StreamKeys
<1>1. CASE r.tuple = {}
  BY <1>1
<1>2. CASE r.tuple # {}
  <2>1. r.packet.dir \in Dirs
    BY <1>2, FrameIs DEF TupleIsRead
  <2>2. r.tuple \subseteq {Ports(r.packet.dir), NoPorts(r.packet.dir)}
    BY <1>2 DEF TupleIsRead
  <2> QED
    BY <2>1, <2>2, EngineAssumption DEF Directions
<1> QED
  BY <1>1, <1>2

LEMMA StreamStep ==
  ASSUME NEW r, r.packet \in Frames, TupleIsRead(r), NEW seq, NEW segment,
         SegmentOf(r.packet, r, seq, segment), PushSegment(r.tuple, seq, segment)
  PROVE  [StreamNext]_streamVars
<1>1. CASE r.tuple # {} /\ segment # <<>>
  <2>1. PICK k \in r.tuple, s \in seq : StreamPush(k, s, segment)
    BY <1>1 DEF PushSegment
  <2>2. k \in StreamKeys /\ s \in SeqNum /\ segment \in SegPayloads
    BY <1>1, <2>1, TupleTypes DEF SegmentOf
  <2> QED
    BY <2>1, <2>2 DEF StreamNext
<1>2. CASE ~ (r.tuple # {} /\ segment # <<>>)
  BY <1>2, Zenon DEF PushSegment
<1> QED
  BY <1>1, <1>2

LEMMA FlowPacketIs ==
  ASSUME NEW r, r.packet \in Frames, TupleIsRead(r), StackIsRead(r), NEW seq, NEW t \in r.tuple,
         NEW q, q = FlowPacket(r.packet, t, seq, r.stack)
  PROVE  /\ q \in Packets
         /\ q.src = t[1] /\ q.dst = t[2] /\ q.proto = Number(r.packet.proto)
<1>1. t \in Directions
  BY TupleTypes
<1>2. t[1] \in 1 .. 4 /\ t[2] \in 1 .. 4
  BY <1>1 DEF Directions, Ports, NoPorts, Dirs
<1>3. PICK l, n, f : /\ l = r.stack[Len(r.stack)]
                     /\ n = Number(r.packet.proto)
                     /\ f = IF seq = {} THEN {} ELSE {{"ack"}}
  OBVIOUS
<1>4. l \in {"tcp", "udp", "app"}
  BY <1>3 DEF StackIsRead
<1>5. n \in {6, 17} /\ f \in {{}, {{"ack"}}}
  BY <1>3 DEF Number
<1>6. q = [src |-> t[1], dst |-> t[2], proto |-> n, ts |-> 0, len |-> 1,
           flags |-> f, sni |-> {}, layer |-> {l}]
  BY <1>3 DEF FlowPacket, Number
<1>7. {l} \in {{x} : x \in {"ip", "ip-fragment", "tcp", "udp", "app"}}
  BY <1>4
<1>8. q \in FlowPackets
  BY <1>2, <1>5, <1>6, <1>7 DEF FlowPackets
<1> QED
  BY <1>3, <1>6, <1>8, EngineAssumption

LEMMA FlowStep ==
  ASSUME NEW r, r.packet \in Frames, TupleIsRead(r), StackIsRead(r), NEW seq,
         PushFlow(r.packet, r.tuple, seq, r.stack)
  PROVE  FlowNext /\ frame' = frame + 1
<1>1. CASE r.tuple = {}
  BY <1>1 DEF PushFlow, FlowNext, Untracked
<1>2. CASE r.tuple # {}
  <2>1. PICK t \in r.tuple : Observe(FlowPacket(r.packet, t, seq, r.stack))
    BY <1>2 DEF PushFlow
  <2>2. FlowPacket(r.packet, t, seq, r.stack) \in Packets
    BY <2>1, FlowPacketIs
  <2> QED
    BY <2>1, <2>2 DEF FlowNext, Observe
<1> QED
  BY <1>1, <1>2

(* The flow table keeps what it saw, and sees the packet as the row says.  *)
LEMMA RowSeen ==
  ASSUME FlowTypeOK, NEW r, r.packet \in Frames, TupleIsRead(r), StackIsRead(r), NEW seq,
         PushFlow(r.packet, r.tuple, seq, r.stack),
         r.flow = IF r.tuple = {} THEN 0 ELSE seen'[Len(seen')].flow_id
  PROVE  /\ Rows \subseteq Rows'
         /\ r.flow # 0 => \E s \in Rows' : SeenAs(r, s)
<1>1. CASE r.tuple = {}
  <2>1. seen' = seen
    BY <1>1 DEF PushFlow, Untracked
  <2> QED
    BY <1>1, <2>1 DEF Rows
<1>2. CASE r.tuple # {}
  <2>1. PICK t \in r.tuple : Observe(FlowPacket(r.packet, t, seq, r.stack))
    BY <1>2 DEF PushFlow
  <2>2. PICK q : q = FlowPacket(r.packet, t, seq, r.stack)
    OBVIOUS
  <2>3. q.src = t[1] /\ q.dst = t[2] /\ q.proto = Number(r.packet.proto)
    <3>1. \A x : x = FlowPacket(r.packet, t, seq, r.stack) =>
                 x.src = t[1] /\ x.dst = t[2] /\ x.proto = Number(r.packet.proto)
      BY <2>1, FlowPacketIs
    <3> QED
      BY <2>2, <3>1, Zenon
  <2>4. PICK id, d : seen' = Append(seen, Row(q, id, d))
    BY <2>1, <2>2 DEF Observe, Evict, Fold
  <2>5. PICK x : x = Row(q, id, d)
    OBVIOUS
  <2>6. Rows' = Rows \cup {x}
    BY <2>4, <2>5, RowsGrow
  <2>7. seen'[Len(seen')] = x
    <3>1. PICK S : seen \in Seq(S)
      BY DEF FlowTypeOK
    <3>2. Len(Append(seen, x)) = Len(seen) + 1 /\ Append(seen, x)[Len(seen) + 1] = x
      BY <3>1
    <3> QED
      BY <2>4, <2>5, <3>2
  <2>8. x.packet = q
    BY <2>5 DEF Row
  <2>9. r.flow = x.flow_id
    BY <1>2, <2>7
  <2>10. SeenAs(r, x)
    BY <2>1, <2>3, <2>8, <2>9 DEF SeenAs
  <2> QED
    BY <2>6, <2>10
<1> QED
  BY <1>1, <1>2

----------------------------------------------------------------------------
(* The invariant.                                                          *)

(* The row comes to the end of the packet table.                           *)
LEMMA RowAdded ==
  ASSUME NEW S, NEW q \in Seq(S), NEW x
  PROVE  /\ DOMAIN q = 1 .. Len(q) /\ Len(q) \in Nat
         /\ DOMAIN Append(q, x) = 1 .. (Len(q) + 1)
         /\ Len(Append(q, x)) = Len(q) + 1
         /\ \A i \in DOMAIN q : i \in DOMAIN Append(q, x) /\ Append(q, x)[i] = q[i]
         /\ Append(q, x)[Len(q) + 1] = x
         /\ \A i \in DOMAIN Append(q, x) : (i \in DOMAIN q) \/ (i = Len(q) + 1)
  OBVIOUS

(* A segment joins the ones received only if it was pushed.                *)
OldOrPushed(tuple, seq, segment, k, i) ==
  \/ i \in DOMAIN rcvd[k] /\ rcvd'[k][i] = rcvd[k][i]
  \/ /\ tuple # {} /\ segment # <<>> /\ k \in tuple
     /\ \E s \in seq : rcvd'[k][i] = [seq |-> s, data |-> segment]

LEMMA ReceivedGrows ==
  ASSUME StreamTypeOK, NEW tuple \in SUBSET StreamKeys, NEW seq, NEW segment,
         PushSegment(tuple, seq, segment),
         NEW k \in StreamKeys, NEW i \in DOMAIN rcvd'[k]
  PROVE  OldOrPushed(tuple, seq, segment, k, i)
<1> USE DEF OldOrPushed
<1>1. CASE ~ (tuple # {} /\ segment # <<>>)
  <2>1. rcvd' = rcvd
    BY <1>1 DEF PushSegment, streamVars
  <2> QED
    BY <2>1
<1>2. CASE tuple # {} /\ segment # <<>>
  <2>1. PICK l \in tuple, s \in seq : StreamPush(l, s, segment)
    BY <1>2 DEF PushSegment
  <2>2. CASE StreamPushRefused(l)
    BY <2>2 DEF StreamPushRefused
  <2>3. CASE PushAccepted(l, s, segment)
    <3>1. PICK g : g = [seq |-> s, data |-> segment]
      OBVIOUS
    <3>2. rcvd' = [rcvd EXCEPT ![l] = Append(@, g)] /\ rcvd \in [StreamKeys -> Seq(Segment)]
      BY <2>3, <3>1 DEF PushAccepted, StreamTypeOK
    <3>3. CASE k # l
      BY <3>2, <3>3
    <3>4. CASE k = l
      <4>1. PICK q : q = rcvd[k]
        OBVIOUS
      <4>2. q \in Seq(Segment) /\ rcvd'[k] = Append(q, g)
        BY <3>2, <3>4, <4>1
      <4>3. (i \in DOMAIN q /\ Append(q, g)[i] = q[i]) \/ Append(q, g)[i] = g
        BY <4>2, RowAdded
      <4> QED
        BY <1>2, <2>1, <3>1, <3>4, <4>1, <4>2, <4>3
    <3> QED
      BY <3>3, <3>4
  <2> QED
    BY <2>1, <2>2, <2>3 DEF StreamPush
<1> QED
  BY <1>1, <1>2

LEMMA RowTyped ==
  ASSUME StreamTypeOK', FlowTypeOK', NEW p \in Frames, NEW r, RowOf(p, r),
         r.stack \in Seq(LayerNames), TupleIsRead(r),
         NEW seq, NEW segment \in Seq(Byte), Pushes(p, r, seq, segment),
         r.flow # 0 => \E s \in Rows' : SeenAs(r, s)
  PROVE  r \in EngineRow
<1>1. r.packet = p /\ r.done \in BOOLEAN /\ r.data \in Seq(Byte)
  BY DEF RowOf
<1>2. r.tuple \in SUBSET Directions /\ r.tuple \in SUBSET StreamKeys
  BY <1>1, TupleTypes
<1>3. r.flow \in Nat
  <2>1. CASE r.flow = 0
    BY <2>1
  <2>2. CASE r.flow # 0
    <3>1. PICK s \in Rows' : SeenAs(r, s)
      BY <2>2
    <3>2. PICK i \in DOMAIN seen' : s = seen'[i]
      BY <3>1 DEF Rows
    <3> DEFINE RowType == [packet : Packet, frame : Nat \ {0}, flow_id : Nat, direction : Option(Dir)]
    <3>3. seen' \in Seq(RowType)
      BY DEF FlowTypeOK
    <3>4. seen'[i] \in RowType
      <4> HIDE DEF RowType
      <4> QED
        BY <3>2, <3>3
    <3>5. s.flow_id \in Nat
      BY <3>2, <3>4
    <3> QED
      BY <3>1, <3>5 DEF SeenAs
  <2> QED
    BY <2>1, <2>2
<1>4. r.reassembled \in SUBSET BOOLEAN
  <2>1. CASE r.reassembled \in {{}, {TRUE}}
    BY <2>1
  <2>2. CASE r.reassembled = {Len(Prefix(r.tuple, segment)) > Len(segment)} /\ r.tuple # {}
    <3>1. PICK x : x = Prefix(r.tuple, segment)
      OBVIOUS
    <3>2. x \in Seq(Byte)
      <4>1. PICK k : k = CHOOSE t \in r.tuple : TRUE
        OBVIOUS
      <4>2. k \in StreamKeys
        BY <1>2, <2>2, <4>1
      <4>3. streams'[k].buf \in Seq(Byte)
        BY <4>2 DEF StreamTypeOK, Stream
      <4>4. x = <<>> \/ x = segment \/ x = streams'[k].buf
        BY <3>1, <4>1 DEF Prefix
      <4>5. <<>> \in Seq(Byte)
        OBVIOUS
      <4> QED
        BY <4>3, <4>4, <4>5
    <3>3. Len(x) \in Nat /\ Len(segment) \in Nat
      BY <3>2
    <3>4. (Len(x) > Len(segment)) \in BOOLEAN
      BY <3>3
    <3> QED
      BY <2>2, <3>1, <3>4, Zenon
  <2> QED
    BY <2>1, <2>2 DEF Pushes
<1>5. r = [packet |-> r.packet, tuple |-> r.tuple, stack |-> r.stack, done |-> r.done,
           data |-> r.data, flow |-> r.flow, reassembled |-> r.reassembled]
  BY DEF RowOf
<1>6. /\ r.packet \in Frames /\ r.tuple \in SUBSET Directions /\ r.stack \in Seq(LayerNames)
      /\ r.done \in BOOLEAN /\ r.data \in Seq(Byte) /\ r.flow \in Nat /\ r.reassembled \in SUBSET BOOLEAN
  BY <1>1, <1>2, <1>3, <1>4
<1> QED
  BY <1>5, <1>6, Zenon DEF EngineRow

LEMMA AbsorbKeeps ==
  ASSUME EngineInv, NEW p \in Frames, Absorb(p)
  PROVE  /\ EngineInv'
         /\ [FragNext]_fragVars /\ [StreamNext]_streamVars /\ [FlowNext]_flowVars
<1>1. PICK r, seq, segment :
           /\ RowOf(p, r) /\ r.stack \in Seq(LayerNames)
           /\ TupleIsRead(r) /\ StackIsRead(r)
           /\ segment \in Seq(Byte) /\ SegmentOf(p, r, seq, segment)
           /\ Pushes(p, r, seq, segment)
  BY AbsorbRow
<1>2. r.packet = p /\ r.packet \in Frames
  BY <1>1 DEF RowOf
<1>3. /\ rows' = Append(rows, r)
      /\ PushSegment(r.tuple, seq, segment)
      /\ PushFlow(r.packet, r.tuple, seq, r.stack)
      /\ r.flow = IF r.tuple = {} THEN 0 ELSE seen'[Len(seen')].flow_id
  BY <1>1, <1>2 DEF Pushes
<1>4. PushFragment(p) /\ reassemble' = reassemble
  BY DEF Absorb
<1>5. FragInv /\ StreamInv /\ FlowInv /\ PiecesNumbered
  BY DEF EngineInv, TablesInv
<1>6. [FragNext]_fragVars /\ FragInv' /\ PiecesNumbered'
  BY <1>4, <1>5, FragStep, FragmentKeeps
<1>7. [StreamNext]_streamVars
  BY <1>1, <1>2, <1>3, StreamStep
<1>8. StreamInv'
  BY <1>5, <1>7, StreamNextInv
<1>9. FlowNext /\ frame' = frame + 1
  BY <1>1, <1>2, <1>3, FlowStep
<1>10. FlowInv'
  BY <1>5, <1>9, FlowNextInv
<1>11. StreamTypeOK /\ StreamTypeOK' /\ FlowTypeOK /\ FlowTypeOK'
  BY <1>5, <1>8, <1>10 DEF StreamInv, FlowInv
<1>12. Rows \subseteq Rows' /\ (r.flow # 0 => \E s \in Rows' : SeenAs(r, s))
  BY <1>1, <1>2, <1>3, <1>11, RowSeen
<1>13. r \in EngineRow
  BY <1>1, <1>11, <1>12, RowTyped
<1>14. rows \in Seq(EngineRow) /\ reassemble \in BOOLEAN /\ frame = Len(rows)
  BY DEF EngineInv, EngineTypeOK
<1>15. /\ DOMAIN rows = 1 .. Len(rows) /\ Len(rows) \in Nat
       /\ Len(rows') = Len(rows) + 1
       /\ \A i \in DOMAIN rows : i \in DOMAIN rows' /\ rows'[i] = rows[i]
       /\ Len(rows) + 1 \in DOMAIN rows' /\ rows'[Len(rows) + 1] = r
       /\ \A i \in DOMAIN rows' : (i \in DOMAIN rows) \/ (i = Len(rows) + 1)
  BY <1>3, <1>14, RowAdded
<1>16. EngineTypeOK'
  <2>1. rows' \in Seq(EngineRow)
    BY <1>3, <1>13, <1>14
  <2> QED
    BY <1>4, <1>9, <1>14, <1>15, <2>1 DEF EngineTypeOK
<1>17. RowInv'
  <2>1. ASSUME NEW i \in DOMAIN rows' PROVE TupleIsRead(rows'[i]) /\ StackIsRead(rows'[i])
    BY <1>1, <1>15 DEF EngineInv, RowInv
  <2> QED
    BY <2>1 DEF RowInv
<1>18. RowsInFlows'
  <2>1. ASSUME NEW i \in DOMAIN rows', rows'[i].flow # 0 PROVE \E s \in Rows' : SeenAs(rows'[i], s)
    <3>1. CASE i \in DOMAIN rows
      <4>1. rows'[i] = rows[i]
        BY <1>15, <3>1
      <4>2. PICK s \in Rows : SeenAs(rows[i], s)
        BY <2>1, <3>1, <4>1 DEF EngineInv, RowsInFlows
      <4> QED
        BY <1>12, <4>1, <4>2
    <3>2. CASE i = Len(rows) + 1
      BY <1>12, <1>15, <2>1, <3>2
    <3> QED
      BY <1>15, <3>1, <3>2
  <2> QED
    BY <2>1 DEF RowsInFlows, SeenAs
<1>19. SegmentsAreRows'
  <2>1. ASSUME NEW k \in StreamKeys, NEW i \in DOMAIN rcvd'[k]
        PROVE  \E j \in DOMAIN rows' : CameWith(rows'[j], k, rcvd'[k][i])
    <3>1. CASE i \in DOMAIN rcvd[k] /\ rcvd'[k][i] = rcvd[k][i]
      <4>1. PICK j \in DOMAIN rows : CameWith(rows[j], k, rcvd[k][i])
        BY <3>1 DEF EngineInv, SegmentsAreRows
      <4> QED
        BY <1>15, <3>1, <4>1
    <3>2. CASE /\ r.tuple # {} /\ segment # <<>> /\ k \in r.tuple
               /\ \E s \in seq : rcvd'[k][i] = [seq |-> s, data |-> segment]
      <4>1. PICK s \in seq : rcvd'[k][i] = [seq |-> s, data |-> segment]
        BY <3>2
      <4>2. CameWith(r, k, [seq |-> s, data |-> segment])
        BY <1>1, <3>2, <4>1 DEF SegmentOf
      <4> QED
        BY <1>15, <4>1, <4>2
    <3>3. r.tuple \in SUBSET StreamKeys
      BY <1>1, <1>2, TupleTypes
    <3>4. OldOrPushed(r.tuple, seq, segment, k, i)
      BY <1>3, <1>11, <2>1, <3>3, ReceivedGrows
    <3> QED
      BY <3>1, <3>2, <3>4, Zenon DEF OldOrPushed
  <2> QED
    BY <2>1 DEF SegmentsAreRows
<1> QED
  BY <1>6, <1>7, <1>8, <1>9, <1>10, <1>16, <1>17, <1>18, <1>19 DEF EngineInv, TablesInv

LEMMA EngineInitInv == EngineInit => EngineInv
<1> SUFFICES ASSUME EngineInit PROVE EngineInv
  OBVIOUS
<1>1. TablesInv
  BY FragInitInv, StreamInitInv, FlowInitInv DEF EngineInit, TablesInv
<1>2. rows = <<>> /\ frame = 0 /\ reassemble \in BOOLEAN
  BY DEF EngineInit, FlowInit
<1>3. <<>> \in Seq(EngineRow) /\ Len(<<>>) = 0 /\ DOMAIN <<>> = {}
  OBVIOUS
<1>4. EngineTypeOK
  BY <1>2, <1>3 DEF EngineTypeOK
<1>5. PiecesNumbered
  <2>1. sets = [k \in FragKeys |-> EmptySet] /\ DOMAIN EmptySet.pieces = {}
    BY <1>3 DEF EngineInit, FragInit, EmptySet
  <2> QED
    BY <2>1 DEF PiecesNumbered
<1>6. RowInv /\ RowsInFlows
  BY <1>2, <1>3 DEF RowInv, RowsInFlows
<1>7. SegmentsAreRows
  <2>1. rcvd = [k \in StreamKeys |-> <<>>]
    BY DEF EngineInit, StreamInit
  <2>2. \A k \in StreamKeys : DOMAIN rcvd[k] = {}
    BY <1>3, <2>1
  <2> QED
    BY <2>2 DEF SegmentsAreRows
<1> QED
  BY <1>1, <1>4, <1>5, <1>6, <1>7 DEF EngineInv

LEMMA EngineNextInv ==
  ASSUME EngineInv, [EngineNext]_engineVars
  PROVE  /\ EngineInv'
         /\ [FragNext]_fragVars /\ [StreamNext]_streamVars /\ [FlowNext]_flowVars
<1>1. ASSUME NEW p \in Frames, Absorb(p)
      PROVE  /\ EngineInv'
             /\ [FragNext]_fragVars /\ [StreamNext]_streamVars /\ [FlowNext]_flowVars
  BY <1>1, AbsorbKeeps
<1>2. ASSUME [FragNext]_fragVars, sets' = sets, reassemble' = reassemble, rows' = rows,
             UNCHANGED streamVars, UNCHANGED flowVars
      PROVE  EngineInv'
  <2>1. FragInv' /\ StreamInv' /\ FlowInv'
    BY <1>2, FragNextInv, StreamNextInv, FlowNextInv DEF EngineInv, TablesInv
  <2>2. rcvd' = rcvd /\ seen' = seen /\ frame' = frame
    BY <1>2 DEF streamVars, flowVars
  <2>3. EngineTypeOK' /\ PiecesNumbered'
    BY <1>2, <2>2 DEF EngineInv, EngineTypeOK, PiecesNumbered
  <2>4. RowInv' /\ SegmentsAreRows'
    BY <1>2, <2>2 DEF EngineInv, RowInv, SegmentsAreRows
  <2>5. RowsInFlows'
    BY <1>2, <2>2 DEF EngineInv, RowsInFlows, Rows
  <2> QED
    BY <2>1, <2>3, <2>4, <2>5 DEF EngineInv, TablesInv
<1>3. CASE Finalize
  <2>1. /\ FragFinalize /\ reassemble' = reassemble /\ rows' = rows
        /\ UNCHANGED streamVars /\ UNCHANGED flowVars
    BY <1>3 DEF Finalize
  <2>2. FragNext /\ sets' = sets
    BY <2>1 DEF FragNext, FragFinalize
  <2> QED
    BY <1>2, <2>1, <2>2
<1>4. CASE UNCHANGED engineVars
  <2>1. /\ UNCHANGED fragVars /\ UNCHANGED streamVars /\ UNCHANGED flowVars
        /\ reassemble' = reassemble /\ rows' = rows
    BY <1>4 DEF engineVars
  <2>2. sets' = sets
    BY <2>1 DEF fragVars
  <2> QED
    BY <1>2, <2>1, <2>2
<1> QED
  BY <1>1, <1>3, <1>4 DEF EngineNext

LEMMA EngineAlwaysInv == EngineSpec => []EngineInv
<1>1. EngineInv /\ [EngineNext]_engineVars => EngineInv'
  BY EngineNextInv
<1> QED
  BY <1>1, EngineInitInv, PTL DEF EngineSpec

----------------------------------------------------------------------------
(* What absorb does to the fragment table is what FragTable allows: a push *)
(* per fragment, in capture order, and the counters read at the end.       *)
THEOREM EngineDrivesFragTable == EngineSpec => FragSpec
<1>1. EngineInit => FragInit
  BY DEF EngineInit
<1>2. EngineInv /\ [EngineNext]_engineVars => [FragNext]_fragVars
  BY EngineNextInv
<1> QED
  BY <1>1, <1>2, EngineAlwaysInv, PTL DEF EngineSpec, FragSpec

(* What absorb does to the stream table is what StreamTable allows, also   *)
(* when the sequence number comes from a datagram that was put together.   *)
THEOREM EngineDrivesStreamTable == EngineSpec => StreamSpec
<1>1. EngineInit => StreamInit
  BY DEF EngineInit
<1>2. EngineInv /\ [EngineNext]_engineVars => [StreamNext]_streamVars
  BY EngineNextInv
<1> QED
  BY <1>1, <1>2, EngineAlwaysInv, PTL DEF EngineSpec, StreamSpec

(* What absorb does to the flow table is what FlowTable allows.            *)
THEOREM EngineDrivesFlowTable == EngineSpec => FlowSpec
<1>1. EngineInit => FlowInit
  BY DEF EngineInit
<1>2. EngineInv /\ [EngineNext]_engineVars => [FlowNext]_flowVars
  BY EngineNextInv
<1> QED
  BY <1>1, <1>2, EngineAlwaysInv, PTL DEF EngineSpec, FlowSpec

(* So every result on a table holds while the engine runs all three: what  *)
(* is returned is never half a datagram and is what the loop assembles,    *)
(* losses are counted, the prefix of a stream was received and stays, a    *)
(* flow is its history and its state never moves back, and nothing grows   *)
(* past its limit.                                                         *)
THEOREM TablesHoldInEngine ==
  EngineSpec => /\ [](SetsBounded /\ NeverHalfParsed /\ LossIsCounted /\ AssemblyMatchesLoop)
                /\ [](StreamsBounded /\ BufIsReceived /\ GapsAreExplained /\ UncountedLossIsOverflow)
                /\ PrefixIsStable
                /\ [](IdsInOrder /\ OneFlowPerConversation /\ FlowIsItsHistory)
                /\ []HandshakeByAddressOrder
                /\ StateAdvances
<1>1. FragSpec => [](SetsBounded /\ NeverHalfParsed /\ LossIsCounted /\ AssemblyMatchesLoop)
  BY FragSetsBounded, FragNeverHalfParsed, FragLossCounted, FragAssemblyMatchesLoop, PTL
<1>2. StreamSpec =>
        [](StreamsBounded /\ BufIsReceived /\ GapsAreExplained /\ UncountedLossIsOverflow)
  BY StreamBounded, PrefixIsReceived, GapsExplained, UncountedLossExplained, PTL
<1>3. FlowSpec => [](IdsInOrder /\ OneFlowPerConversation /\ FlowIsItsHistory)
  BY FlowIdsCorrect, ConversationCorrect, HistoryCorrect, PTL
<1> QED
  BY <1>1, <1>2, <1>3, EngineDrivesFragTable, EngineDrivesStreamTable, EngineDrivesFlowTable,
     PrefixStays, HandshakeCorrect, StateOnlyAdvances, PTL

(* The packet table has one row for each packet absorbed, of its type.     *)
THEOREM EngineTypeCorrect == EngineSpec => []EngineTypeOK
<1>1. EngineInv => EngineTypeOK
  BY DEF EngineInv
<1> QED
  BY <1>1, EngineAlwaysInv, PTL

(* Whatever the order in which whole packets and fragments of the two      *)
(* directions arrive, and whatever the tables refuse or abandon, the       *)
(* packets of one conversation that are in a flow are in the same flow,    *)
(* but for those filed under ports 0.                                      *)
THEOREM EngineFragmentsJoin == EngineSpec => []FragmentsJoinTheirFlow
<1>1. ASSUME EngineInv, OneFlowPerConversation PROVE FragmentsJoinTheirFlow
  <2>1. \A i \in DOMAIN rows : rows[i] \in EngineRow /\ TupleIsRead(rows[i])
    BY <1>1 DEF EngineInv, EngineTypeOK, RowInv
  <2>2. ASSUME NEW i \in DOMAIN rows, rows[i].done
        PROVE  rows[i].tuple = {IF Portless(rows[i]) THEN NoPorts(rows[i].packet.dir)
                                ELSE Ports(rows[i].packet.dir)}
    BY <2>1, <2>2 DEF TupleIsRead
  <2>3. ASSUME NEW i \in DOMAIN rows, rows[i].flow # 0
        PROVE  \E s \in Rows :
                 /\ s.flow_id = rows[i].flow
                 /\ s.packet.proto = Number(rows[i].packet.proto)
                 /\ {s.packet.src, s.packet.dst} = IF Portless(rows[i]) THEN {1, 3} ELSE {2, 4}
    <3>1. PICK s \in Rows : SeenAs(rows[i], s)
      BY <1>1, <2>3 DEF EngineInv, RowsInFlows
    <3>2. PICK t \in rows[i].tuple : s.packet.src = t[1] /\ s.packet.dst = t[2]
      BY <3>1 DEF SeenAs
    <3>3. t = IF Portless(rows[i]) THEN NoPorts(rows[i].packet.dir) ELSE Ports(rows[i].packet.dir)
      BY <2>1, <3>2 DEF TupleIsRead
    <3>4. {t[1], t[2]} = IF Portless(rows[i]) THEN {1, 3} ELSE {2, 4}
      BY <3>3 DEF Ports, NoPorts
    <3> QED
      BY <3>1, <3>2, <3>4 DEF SeenAs
  <2>4. ASSUME NEW i \in DOMAIN rows, NEW j \in DOMAIN rows,
               OneConversation(rows[i].packet, rows[j].packet),
               rows[i].flow # 0, rows[j].flow # 0
        PROVE  rows[i].flow = rows[j].flow <=> (Portless(rows[i]) <=> Portless(rows[j]))
    <3>1. PICK s \in Rows : /\ s.flow_id = rows[i].flow
                            /\ s.packet.proto = Number(rows[i].packet.proto)
                            /\ {s.packet.src, s.packet.dst} = IF Portless(rows[i]) THEN {1, 3} ELSE {2, 4}
      BY <2>3, <2>4
    <3>2. PICK u \in Rows : /\ u.flow_id = rows[j].flow
                            /\ u.packet.proto = Number(rows[j].packet.proto)
                            /\ {u.packet.src, u.packet.dst} = IF Portless(rows[j]) THEN {1, 3} ELSE {2, 4}
      BY <2>3, <2>4
    <3>3. {1, 3} # {2, 4}
      OBVIOUS
    <3>4. SameConversation(s.packet, u.packet) <=> (Portless(rows[i]) <=> Portless(rows[j]))
      BY <2>4, <3>1, <3>2, <3>3 DEF SameConversation, OneConversation, Portless, Short
    <3>5. SameConversation(s.packet, u.packet) <=> s.flow_id = u.flow_id
      BY <1>1, <2>4, <3>1, <3>2 DEF OneFlowPerConversation
    <3> QED
      BY <3>1, <3>2, <3>4, <3>5
  <2> QED
    BY <2>2, <2>4 DEF FragmentsJoinTheirFlow
<1>2. EngineSpec => []OneFlowPerConversation
  BY EngineDrivesFlowTable, ConversationCorrect, PTL
<1> QED
  BY <1>1, <1>2, EngineAlwaysInv, PTL

(* A sequence has fewer values than places iff two places share one.       *)
LEMMA LayersCount ==
  ASSUME NEW s \in Seq(LayerNames)
  PROVE  Cardinality(Layers(s)) < Len(s) <=> Doubled(s)
<1>1. s \in [1 .. Len(s) -> LayerNames] /\ DOMAIN s = 1 .. Len(s) /\ Len(s) \in Nat
  OBVIOUS
<1>2. s \in Surjection(1 .. Len(s), Layers(s))
  BY <1>1 DEF Surjection, Layers
<1>3. IsFiniteSet(1 .. Len(s)) /\ Cardinality(1 .. Len(s)) = Len(s)
  <2>1. PICK n : n = Len(s)
    OBVIOUS
  <2>2. n \in Nat /\ 1 \in Int /\ n \in Int
    BY <1>1, <2>1
  <2>3. IsFiniteSet(1 .. n) /\ Cardinality(1 .. n) = IF 1 > n THEN 0 ELSE n - 1 + 1
    BY <2>2, FS_Interval
  <2> QED
    BY <2>1, <2>2, <2>3
<1>4. /\ IsFiniteSet(Layers(s)) /\ Cardinality(Layers(s)) <= Len(s)
      /\ Cardinality(Layers(s)) = Len(s) <=> s \in Injection(1 .. Len(s), Layers(s))
  BY <1>2, <1>3, FS_Surjection
<1>5. Cardinality(Layers(s)) \in Nat
  BY <1>4, FS_CardinalityType
<1>6. s \in Injection(1 .. Len(s), Layers(s)) <=> \A i, j \in 1 .. Len(s) : s[i] = s[j] => i = j
  BY <1>1, <1>2 DEF Injection, Surjection, IsInjective
<1>7. (\A i, j \in 1 .. Len(s) : s[i] = s[j] => i = j) <=> ~ Doubled(s)
  BY <1>1 DEF Doubled
<1> QED
  BY <1>1, <1>4, <1>5, <1>6, <1>7

(* A row names a layer twice exactly when a first fragment arrives last.   *)
THEOREM EngineLayersOnce == EngineSpec => []LayersOnce
<1>1. ASSUME NEW s \in Seq(LayerNames), Plain(s) PROVE ~ Doubled(s)
  <2>1. SUFFICES ASSUME NEW i \in DOMAIN s, NEW j \in DOMAIN s, i < j, s[i] = s[j] PROVE FALSE
    BY DEF Doubled
  <2>2. Len(s) \in 1 .. 3 /\ i \in 1 .. Len(s) /\ j \in 1 .. Len(s)
    BY <1>1, <2>1 DEF Plain
  <2>3. \/ i = 1 /\ j = 2 /\ Len(s) >= 2
        \/ i = 1 /\ j = 3 /\ Len(s) = 3
        \/ i = 2 /\ j = 3 /\ Len(s) = 3
    BY <2>1, <2>2
  <2> QED
    BY <1>1, <2>1, <2>3 DEF Plain, Protos
<1>2. ASSUME EngineInv PROVE LayersOnce
  <2>1. ASSUME NEW i \in DOMAIN rows
        PROVE  /\ rows[i].done => "ip-fragment" \notin Layers(rows[i].stack)
               /\ Cardinality(Layers(rows[i].stack)) < Len(rows[i].stack)
                    <=> rows[i].done /\ IsFirst(rows[i].packet)
    <3>1. PICK s : s = rows[i].stack
      OBVIOUS
    <3>2. s \in Seq(LayerNames)
      <4>1. rows[i] \in EngineRow
        BY <1>2, <2>1 DEF EngineInv, EngineTypeOK
      <4> QED
        BY <3>1, <4>1 DEF EngineRow
    <3>3. /\ IF rows[i].done /\ IsFirst(rows[i].packet) THEN Doubled(s) ELSE Plain(s)
          /\ rows[i].done => \A n \in DOMAIN s : s[n] # "ip-fragment"
      BY <1>2, <2>1, <3>1 DEF EngineInv, RowInv, StackIsRead
    <3>4. Doubled(s) <=> rows[i].done /\ IsFirst(rows[i].packet)
      BY <1>1, <3>2, <3>3
    <3>5. rows[i].done => "ip-fragment" \notin Layers(s)
      BY <3>3 DEF Layers
    <3>6. Cardinality(Layers(s)) < Len(s) <=> Doubled(s)
      BY <3>2, LayersCount
    <3> QED
      BY <3>1, <3>4, <3>5, <3>6, Zenon
  <2> QED
    BY <2>1, Zenon DEF LayersOnce
<1> QED
  BY <1>2, EngineAlwaysInv, PTL

(* Every byte of a stream came, for its sequence number, in a frame that   *)
(* starts with the TCP header; never in a later fragment, whole as its     *)
(* datagram may be by then.                                                *)
THEOREM EngineStreamFromFirsts == EngineSpec => []StreamIsFromFirsts
<1>1. ASSUME EngineInv, BufIsReceived, NEW k \in StreamKeys, NEW n \in 1 .. Len(streams[k].buf)
      PROVE  \E i \in DOMAIN rows :
               LET p == rows[i].packet
                   q == WrapAdd(streams[k].base_seq, n - 1)
               IN  /\ p.ip /\ p.proto = "tcp" /\ IsFirst(p) /\ rows[i].tuple = {k}
                   /\ IF p.pad = <<>> THEN streams[k].buf[n] \in BytesAt(rows[i], q)
                      ELSE BytesAt(rows[i], q) # {}
  <2>1. PICK q, b : q = WrapAdd(streams[k].base_seq, n - 1) /\ b = streams[k].buf[n]
    OBVIOUS
  <2>2. PICK i \in DOMAIN rcvd[k] : Carries(rcvd[k][i], q, b)
    BY <1>1, <2>1 DEF BufIsReceived
  <2>3. PICK j \in DOMAIN rows : CameWith(rows[j], k, rcvd[k][i])
    BY <1>1, <2>2 DEF EngineInv, SegmentsAreRows
  <2>4. PICK g, r : g = rcvd[k][i] /\ r = rows[j]
    OBVIOUS
  <2>5. PICK p : p = r.packet
    OBVIOUS
  <2>6. PICK h : h = HdrLen["tcp"]
    OBVIOUS
  <2>7. PICK d : d = p.data
    OBVIOUS
  <2>8. PICK f : f = FrameTail(p, Len(d) - h)
    OBVIOUS
  <2>9. /\ p.ip /\ p.proto = "tcp" /\ IsFirst(p) /\ r.tuple = {k}
        /\ h < Len(d) /\ g.seq = SeqOf(r) /\ g.data = f
    BY <2>3, <2>4, <2>5, <2>6, <2>7, <2>8 DEF CameWith
  <2>10. p \in Frames
    <3>1. rows[j] \in EngineRow
      BY <1>1 DEF EngineInv, EngineTypeOK
    <3> QED
      BY <2>4, <2>5, <3>1 DEF EngineRow
  <2>11. h \in Nat /\ d \in Seq(Byte) /\ p.pad \in Seq(Byte) /\ Len(d) \in Nat
    BY <2>6, <2>7, <2>9, <2>10, FrameIs
  <2>12. PICK l : l = Len(d) - h
    OBVIOUS
  <2>13. l \in Nat /\ l <= Len(d) /\ Len(d) - l = h
    BY <2>9, <2>11, <2>12
  <2>14. TailOfFrame(p, l)
    BY <2>7, <2>11, <2>13, TailIs, Zenon
  <2>15. Len(f) = l /\ (p.pad = <<>> => \A m \in 1 .. l : f[m] = d[Len(d) - l + m])
    BY <2>7, <2>8, <2>12, <2>14, Zenon DEF TailOfFrame
  <2>16. PICK m \in 1 .. Len(f) : WrapAdd(SeqOf(r), m - 1) = q /\ f[m] = b
    BY <2>2, <2>4, <2>9 DEF Carries
  <2>17. h + m \in h + 1 .. Len(d) /\ (h + m) - h - 1 = m - 1
    BY <2>9, <2>11, <2>12, <2>15, <2>16
  <2>18. h + m \in {x \in h + 1 .. Len(d) : WrapAdd(SeqOf(r), x - h - 1) = q}
    BY <2>16, <2>17
  <2>19. d[h + m] \in BytesAt(r, q)
    BY <2>5, <2>6, <2>7, <2>18, Zenon DEF BytesAt
  <2>20. p.pad = <<>> => b = d[h + m]
    BY <2>13, <2>15, <2>16
  <2>21. /\ p.ip /\ p.proto = "tcp" /\ IsFirst(p) /\ r.tuple = {k}
         /\ IF p.pad = <<>> THEN b \in BytesAt(r, q) ELSE BytesAt(r, q) # {}
    BY <2>9, <2>19, <2>20
  <2> QED
    BY <2>1, <2>4, <2>5, <2>21, Zenon
<1>2. EngineInv /\ BufIsReceived => StreamIsFromFirsts
  BY <1>1, Zenon DEF StreamIsFromFirsts
<1>3. EngineSpec => []BufIsReceived
  BY EngineDrivesStreamTable, PrefixIsReceived, PTL
<1> QED
  BY <1>2, <1>3, EngineAlwaysInv, PTL
=============================================================================
