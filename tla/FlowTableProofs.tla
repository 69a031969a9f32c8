-------------------------- MODULE FlowTableProofs --------------------------
(***************************************************************************)
(* What the flow table guarantees for every capture, every set of          *)
(* endpoints and every capacity: how flows are numbered, which packets     *)
(* share one, what it has counted, and that its state never goes back.     *)
(***************************************************************************)
EXTENDS FlowTable, FiniteSetTheorems, SequenceTheorems, NaturalsInduction,
        WellFoundedInduction, TLAPS

(* A row that joined a flow joined the one of its tuple, and a tuple       *)
(* refused once finds the table full ever after: nothing leaves it.        *)
JoinedItsFlow(r) ==
  /\ r.packet \in Packets
  /\ r.frame <= frame
  /\ r.flow_id = 0 => Key(r.packet) \notin FlowsPresent /\ Cardinality(FlowsPresent) >= MaxFlows
  /\ r.flow_id # 0 => /\ Key(r.packet) \in FlowsPresent
                      /\ flows[Key(r.packet)].id = r.flow_id
                      /\ r.direction = {Direction(r.packet)}

Linked ==
  /\ IsFiniteSet(FlowsPresent) /\ IsFiniteSet(Rows)
  /\ \A k \in FlowsPresent : flows[k].first_frame <= frame
  /\ \A k, l \in FlowsPresent : flows[k].id = flows[l].id => k = l
  /\ \A r \in Rows : JoinedItsFlow(r)

(* What a flow has recorded of the packets of rows, whichever opened it.   *)
Counts(f, rows) ==
  /\ \A d \in Dir : f.packets[d] = Cardinality(Sent(rows, d))
  /\ f.syn_count = Cardinality(Flagged(rows, "syn"))
  /\ f.fin_count = Cardinality(Flagged(rows, "fin"))
  /\ f.rst_count = Cardinality(Flagged(rows, "rst"))

Flags(f, rows) ==
  /\ \A d \in Dir : /\ f.tcp_flags[d] = FlagsOf(Sent(rows, d))
                    /\ f.fin[d] <=> Flagged(Sent(rows, d), "fin") # {}
  /\ f.saw_reset <=> Flagged(rows, "rst") # {}
  /\ f.syn_c2s <=> Flagged(Sent(rows, "c2s"), "syn") \ Flagged(rows, "ack") # {}
  /\ f.synack_s2c <=> Flagged(Sent(rows, "s2c"), "syn") \cap Flagged(rows, "ack") # {}

Names(f, rows) ==
  /\ Named(rows) = {} => f.sni = {}
  /\ \A r \in First(Named(rows)) : f.sni = r.packet.sni
  /\ Specific(rows) = {} => f.service \subseteq {"tcp", "udp"}
  /\ \A r \in First(Specific(rows)) : f.service = r.packet.layer

(* The interval holds every packet and ends at packets.                    *)
Spans(f, rows) ==
  /\ \A r \in rows : /\ f.first_ts <= r.packet.ts /\ r.packet.ts <= f.last_ts
                     /\ f.first_frame <= r.frame /\ r.frame <= f.last_frame
  /\ \E r, s \in rows : r.packet.ts = f.first_ts /\ s.packet.ts = f.last_ts
  /\ \E r, s \in rows : r.frame = f.first_frame /\ s.frame = f.last_frame

Recorded(f, rows) == Counts(f, rows) /\ Flags(f, rows) /\ Names(f, rows)

Weighed(f) == \A d \in Dir : f.bytes[d] = Total(Lengths(f, d))

History ==
  \A k \in FlowsPresent : /\ Recorded(flows[k], RowsOf(flows[k]))
                     /\ Spans(flows[k], RowsOf(flows[k]))
                     /\ Weighed(flows[k])

FlowInv == FlowTypeOK /\ IdsInOrder /\ Linked /\ History

----------------------------------------------------------------------------

(* A set of naturals that is not empty has a least element.                *)
LEMMA FlowLeastNatural ==
  ASSUME NEW T \in SUBSET Nat, T # {}
  PROVE  \E m \in T : \A n \in T : m <= n
<1>1. PICK m \in T : \A n \in T : ~ (<<n, m>> \in OpToRel(<, Nat))
  BY NatLessThanWellFounded, WFMin, Zenon
<1>2. \A n \in T : ~ (n < m)
  BY <1>1, Zenon DEF OpToRel
<1> QED
  BY <1>2

(* t holds the running sums of w up to place N.                            *)
RunningSums(w, N, t) ==
  /\ t[0] = 0
  /\ \A n \in 1 .. N : t[n] = t[n - 1] + w[n]

(* Every sequence of numbers has running sums, and one of them only: the   *)
(* function that Total defines by recursion is it.                         *)
LEMMA SumsExist ==
  ASSUME NEW w \in Seq(Nat)
  PROVE  \E t \in [0 .. Len(w) -> Nat] : RunningSums(w, Len(w), t)
<1> DEFINE T == {m \in 0 .. Len(w) : ~ \E t \in [0 .. m -> Nat] : RunningSums(w, m, t)}
<1>1. Len(w) \in Nat /\ \A n \in 1 .. Len(w) : w[n] \in Nat
  OBVIOUS
<1>2. CASE T = {}
  BY <1>1, <1>2
<1>3. CASE T # {}
  <2>1. PICK m \in T : \A n \in T : m <= n
    <3>1. T \in SUBSET Nat
      OBVIOUS
    <3> HIDE DEF T
    <3> QED
      BY <1>3, <3>1, FlowLeastNatural
  <2>2. m \in 0 .. Len(w) /\ ~ \E t \in [0 .. m -> Nat] : RunningSums(w, m, t)
    BY <2>1
  <2>3. m # 0
    <3>1. [n \in 0 .. 0 |-> 0] \in [0 .. 0 -> Nat] /\ RunningSums(w, 0, [n \in 0 .. 0 |-> 0])
      BY DEF RunningSums
    <3> QED
      BY <2>2, <3>1
  <2>4. m - 1 \in 0 .. Len(w) /\ m - 1 \notin T /\ m \in Nat
    <3>1. m \in Nat /\ m - 1 \in 0 .. Len(w)
      BY <1>1, <2>2, <2>3
    <3> HIDE DEF T
    <3> QED
      BY <2>1, <3>1
  <2>5. PICK t \in [0 .. (m - 1) -> Nat] : RunningSums(w, m - 1, t)
    BY <2>4
  <2> DEFINE u == [n \in 0 .. m |-> IF n = m THEN t[m - 1] + w[m] ELSE t[n]]
  <2>6. u \in [0 .. m -> Nat] /\ RunningSums(w, m, u)
    BY <1>1, <2>2, <2>3, <2>4, <2>5 DEF RunningSums
  <2> QED
    BY <2>2, <2>6
<1> QED
  BY <1>2, <1>3

LEMMA SumsAgree ==
  ASSUME NEW w, NEW M \in Nat, NEW t, RunningSums(w, M, t), NEW u, RunningSums(w, M, u)
  PROVE  t[M] = u[M]
<1> DEFINE T == {m \in 0 .. M : t[m] # u[m]}
<1>1. CASE T = {}
  BY <1>1
<1>2. CASE T # {}
  <2>1. PICK m \in T : \A n \in T : m <= n
    <3>1. T \in SUBSET Nat
      OBVIOUS
    <3> HIDE DEF T
    <3> QED
      BY <1>2, <3>1, FlowLeastNatural
  <2>2. m \in 0 .. M /\ t[m] # u[m] /\ m \in Nat
    BY <2>1
  <2>3. m # 0
    BY <2>2 DEF RunningSums
  <2>4. m - 1 \in 0 .. M /\ m - 1 \notin T
    BY <2>1, <2>2, <2>3
  <2>5. t[m] = t[m - 1] + w[m] /\ u[m] = u[m - 1] + w[m]
    BY <2>2, <2>3 DEF RunningSums
  <2> QED
    BY <2>2, <2>4, <2>5
<1> QED
  BY <1>1, <1>2

LEMMA TotalIsSum ==
  ASSUME NEW w \in Seq(Nat)
  PROVE  \E t \in [0 .. Len(w) -> Nat] : RunningSums(w, Len(w), t) /\ Total(w) = t[Len(w)]
<1> DEFINE Is(t) == t = [n \in 0 .. Len(w) |-> IF n = 0 THEN 0 ELSE t[n - 1] + w[n]]
           c == CHOOSE t : Is(t)
<1>1. PICK t \in [0 .. Len(w) -> Nat] : RunningSums(w, Len(w), t)
  BY SumsExist
<1>2. Is(t)
  BY <1>1 DEF RunningSums
<1>3. Is(c)
  BY <1>2
<1>4. Total(w) = c[Len(w)]
  BY DEF Total
<1>5. RunningSums(w, Len(w), c)
  <2>1. c = [n \in 0 .. Len(w) |-> IF n = 0 THEN 0 ELSE c[n - 1] + w[n]]
    BY <1>3
  <2> HIDE DEF c
  <2>2. Len(w) \in Nat
    OBVIOUS
  <2>3. \A n \in 0 .. Len(w) : c[n] = IF n = 0 THEN 0 ELSE c[n - 1] + w[n]
    BY <2>1
  <2> QED
    BY <2>2, <2>3 DEF RunningSums
<1>6. t[Len(w)] = c[Len(w)]
  <2>1. Len(w) \in Nat /\ Len(w) \in 0 .. Len(w) /\ Len(w) <= Len(w)
    OBVIOUS
  <2> HIDE DEF c
  <2> QED
    BY <1>1, <1>5, <2>1, SumsAgree
<1> QED
  BY <1>1, <1>4, <1>6

(* One more number, and no number but 0.                                   *)
LEMMA TotalAppend ==
  ASSUME NEW w \in Seq(Nat), NEW x \in Nat
  PROVE  Total(Append(w, x)) = Total(w) + x /\ Total(w) \in Nat
<1> DEFINE v == Append(w, x)
           N == Len(w)
<1>1. v \in Seq(Nat) /\ Len(v) = N + 1 /\ v[N + 1] = x /\ N \in Nat
      /\ \A n \in 1 .. N : w[n] = v[n]
  OBVIOUS
<1>2. PICK t \in [0 .. N -> Nat] : RunningSums(w, N, t) /\ Total(w) = t[N]
  BY TotalIsSum
<1>3. PICK u \in [0 .. N + 1 -> Nat] : RunningSums(v, N + 1, u) /\ Total(v) = u[N + 1]
  <2> HIDE DEF v
  <2> QED
    BY <1>1, TotalIsSum
<1> HIDE DEF v, N
<1>4. t[N] = u[N]
  <2>1. N + 1 \in Nat /\ N <= N + 1 /\ N \in 0 .. N
    BY <1>1
  <2>2. RunningSums(w, N, u)
    <3>1. \A n \in 1 .. N : n \in 1 .. N + 1 /\ w[n] = v[n]
      BY <1>1
    <3>2. u[0] = 0 /\ \A n \in 1 .. N + 1 : u[n] = u[n - 1] + v[n]
      BY <1>3 DEF RunningSums
    <3> QED
      BY <3>1, <3>2 DEF RunningSums
  <2>3. N \in Nat /\ RunningSums(w, N, t)
    BY <1>1, <1>2
  <2> QED
    BY <2>1, <2>2, <2>3, SumsAgree
<1>5. u[N + 1] = u[N] + x
  BY <1>1, <1>3 DEF RunningSums
<1> QED
  BY <1>1, <1>2, <1>3, <1>4, <1>5 DEF v

LEMMA TotalZero ==
  ASSUME NEW w \in Seq(Nat), \A n \in 1 .. Len(w) : w[n] = 0
  PROVE  Total(w) = 0
<1>1. PICK t \in [0 .. Len(w) -> Nat] : RunningSums(w, Len(w), t) /\ Total(w) = t[Len(w)]
  BY TotalIsSum
<1>2. RunningSums(w, Len(w), [n \in 0 .. Len(w) |-> 0])
  BY DEF RunningSums
<1>3. Len(w) \in Nat /\ [n \in 0 .. Len(w) |-> 0][Len(w)] = 0
  OBVIOUS
<1> QED
  BY <1>1, <1>2, <1>3, SumsAgree

----------------------------------------------------------------------------
(* The packets of the capture are packets, and their flags names of bits.  *)
LEMMA PacketTypes ==
  ASSUME NEW p \in Packets
  PROVE  /\ p \in Packet
         /\ p.src \in Endpoint /\ p.dst \in Endpoint /\ p.proto \in Proto
         /\ p.src \in Int /\ p.dst \in Int /\ p.ts \in Int /\ p.len \in Nat
         /\ UNION p.flags \in SUBSET Flag
         /\ p.sni \in Option(Name) /\ p.layer \in Option(Layer)
         /\ Key(p) \in FlowKeys
         /\ Direction(p) \in Dir
<1>1. p \in Packet
  BY FlowAssumption
<1>2. /\ p.src \in Endpoint /\ p.dst \in Endpoint /\ p.proto \in Proto /\ p.ts \in Int
      /\ p.len \in Nat /\ p.flags \in Option(SUBSET Flag)
      /\ p.sni \in Option(Name) /\ p.layer \in Option(Layer)
  BY <1>1, Zenon DEF Packet
<1>3. p.src \in Int /\ p.dst \in Int
  BY <1>2, FlowAssumption
<1>4. UNION p.flags \in SUBSET Flag
  BY <1>2 DEF Option
<1>5. Key(p) \in FlowKeys
  BY <1>2, <1>3 DEF Key, FlowKeys, Forward
<1>6. Direction(p) \in Dir
  BY DEF Direction, Dir
<1> QED
  BY <1>1, <1>2, <1>3, <1>4, <1>5, <1>6

(* A flow as it is made has its type.                                      *)
LEMMA NewFlowType ==
  ASSUME NEW id \in Nat, NEW ts \in Int, NEW frm \in Nat
  PROVE  /\ NewFlow(id, ts, frm) \in Flow
         /\ NewFlow(id, ts, frm).id = id
<1>1. /\ Both(0) \in [Dir -> Nat] /\ Both({}) \in [Dir -> SUBSET Flag]
      /\ Both(FALSE) \in [Dir -> BOOLEAN]
  BY DEF Both
<1>2. {} \in Option(Layer) /\ {} \in Option(Name)
  BY DEF Option
<1> QED
  BY <1>1, <1>2 DEF NewFlow, Flow

(* Field by field, g is flow f after packet p as frame frm; a packet       *)
(* without flags is one with no flag set.                                  *)
FoldsTo(f, p, frm, g) ==
  LET d == Direction(p)
      flags == UNION p.flags
  IN  /\ g \in Flow
      /\ g.id = f.id
      /\ g.first_ts = Lower(f.first_ts, p.ts) /\ g.last_ts = Higher(f.last_ts, p.ts)
      /\ g.first_frame = Lower(f.first_frame, frm)
      /\ g.last_frame = Higher(f.last_frame, frm)
      /\ g.packets = [f.packets EXCEPT ![d] = @ + 1]
      /\ g.bytes = [f.bytes EXCEPT ![d] = @ + p.len]
      /\ g.tcp_flags = [f.tcp_flags EXCEPT ![d] = @ \cup flags]
      /\ g.syn_count = f.syn_count + (IF "syn" \in flags THEN 1 ELSE 0)
      /\ g.fin_count = f.fin_count + (IF "fin" \in flags THEN 1 ELSE 0)
      /\ g.rst_count = f.rst_count + (IF "rst" \in flags THEN 1 ELSE 0)
      /\ g.fin = [f.fin EXCEPT ![d] = @ \/ "fin" \in flags]
      /\ g.syn_c2s <=> f.syn_c2s \/ ("syn" \in flags /\ d = "c2s" /\ "ack" \notin flags)
      /\ g.synack_s2c <=> f.synack_s2c \/ ("syn" \in flags /\ d = "s2c" /\ "ack" \in flags)
      /\ g.saw_reset <=> f.saw_reset \/ "rst" \in flags
      /\ g.sni = TakeFirst(f.sni, p.sni)
      /\ g.service = Service(f.service, p.layer)

LEMMA FoldedFields ==
  ASSUME NEW f \in Flow, NEW p \in Packets, NEW frm \in Nat
  PROVE  FoldsTo(f, p, frm, Folded(f, p, frm))
<1> DEFINE d == Direction(p)
           fl == UNION p.flags
           a == [Widen(f, p.ts, frm) EXCEPT !.packets[d] = @ + 1, !.bytes[d] = @ + p.len]
           h == WithFlags(a, d, fl)
<1>1. d \in Dir /\ fl \in SUBSET Flag /\ p.ts \in Int /\ p.len \in Nat
  BY PacketTypes
<1>2. /\ f.first_ts \in Int /\ f.last_ts \in Int /\ f.first_frame \in Nat /\ f.last_frame \in Nat
      /\ f.packets \in [Dir -> Nat] /\ f.bytes \in [Dir -> Nat]
      /\ f.tcp_flags \in [Dir -> SUBSET Flag] /\ f.fin \in [Dir -> BOOLEAN]
      /\ f.syn_count \in Nat /\ f.fin_count \in Nat /\ f.rst_count \in Nat
      /\ f.syn_c2s \in BOOLEAN /\ f.synack_s2c \in BOOLEAN /\ f.saw_reset \in BOOLEAN
      /\ f.service \in Option(Layer) /\ f.sni \in Option(Name) /\ f.id \in Nat
  BY DEF Flow
<1>3. /\ a.id = f.id
      /\ a.first_ts = Lower(f.first_ts, p.ts) /\ a.last_ts = Higher(f.last_ts, p.ts)
      /\ a.first_frame = Lower(f.first_frame, frm) /\ a.last_frame = Higher(f.last_frame, frm)
      /\ a.packets = [f.packets EXCEPT ![d] = @ + 1]
      /\ a.bytes = [f.bytes EXCEPT ![d] = @ + p.len]
      /\ a.tcp_flags = f.tcp_flags /\ a.fin = f.fin
      /\ a.syn_count = f.syn_count /\ a.fin_count = f.fin_count /\ a.rst_count = f.rst_count
      /\ a.syn_c2s = f.syn_c2s /\ a.synack_s2c = f.synack_s2c /\ a.saw_reset = f.saw_reset
      /\ a.service = f.service /\ a.sni = f.sni
  BY DEF Widen, Flow
<1>4. a \in Flow
  <2> DEFINE w == Widen(f, p.ts, frm)
             x == [w.packets EXCEPT ![d] = @ + 1]
             y == [w.bytes EXCEPT ![d] = @ + p.len]
  <2>1. w \in Flow
    BY <1>1 DEF Widen, Flow, Lower, Higher
  <2>2. w.packets \in [Dir -> Nat] /\ w.bytes \in [Dir -> Nat]
    BY <2>1 DEF Flow
  <2>3. x \in [Dir -> Nat] /\ y \in [Dir -> Nat]
    BY <1>1, <2>2
  <2>4. a = [w EXCEPT !.packets = x, !.bytes = y]
    OBVIOUS
  <2> HIDE DEF w, x, y
  <2>5. [w EXCEPT !.packets = x, !.bytes = y] \in Flow
    BY <2>1, <2>3 DEF Flow
  <2> QED
    BY <2>4, <2>5
<1> HIDE DEF a, d, fl
<1>5. /\ h.id = a.id
      /\ h.first_ts = a.first_ts /\ h.last_ts = a.last_ts
      /\ h.first_frame = a.first_frame /\ h.last_frame = a.last_frame
      /\ h.packets = a.packets /\ h.bytes = a.bytes
      /\ h.tcp_flags = [a.tcp_flags EXCEPT ![d] = @ \cup fl]
      /\ h.syn_count = a.syn_count + (IF "syn" \in fl THEN 1 ELSE 0)
      /\ h.fin_count = a.fin_count + (IF "fin" \in fl THEN 1 ELSE 0)
      /\ h.rst_count = a.rst_count + (IF "rst" \in fl THEN 1 ELSE 0)
      /\ h.fin = [a.fin EXCEPT ![d] = @ \/ "fin" \in fl]
      /\ h.service = a.service /\ h.sni = a.sni
  BY <1>4 DEF WithFlags, Flow, Count
<1>6. /\ h.syn_c2s <=> a.syn_c2s \/ ("syn" \in fl /\ d = "c2s" /\ "ack" \notin fl)
      /\ h.synack_s2c <=> a.synack_s2c \/ ("syn" \in fl /\ d = "s2c" /\ "ack" \in fl)
      /\ h.saw_reset <=> a.saw_reset \/ "rst" \in fl
  BY <1>4 DEF WithFlags, Flow
<1>7. h \in Flow
  <2> DEFINE tf == [a.tcp_flags EXCEPT ![d] = @ \cup fl]
             fi == [a.fin EXCEPT ![d] = @ \/ "fin" \in fl]
             s1 == a.syn_c2s \/ ("syn" \in fl /\ d = "c2s" /\ "ack" \notin fl)
             s2 == a.synack_s2c \/ ("syn" \in fl /\ d = "s2c" /\ "ack" \in fl)
             s3 == a.saw_reset \/ "rst" \in fl
             c1 == a.syn_count + (IF "syn" \in fl THEN 1 ELSE 0)
             c2 == a.fin_count + (IF "fin" \in fl THEN 1 ELSE 0)
             c3 == a.rst_count + (IF "rst" \in fl THEN 1 ELSE 0)
  <2>1. /\ a.tcp_flags \in [Dir -> SUBSET Flag] /\ a.fin \in [Dir -> BOOLEAN]
        /\ a.syn_count \in Nat /\ a.fin_count \in Nat /\ a.rst_count \in Nat
    BY <1>4 DEF Flow
  <2>2. tf \in [Dir -> SUBSET Flag]
    BY <2>1, <1>1
  <2>3. fi \in [Dir -> BOOLEAN]
    BY <2>1, <1>1
  <2>4. s1 \in BOOLEAN /\ s2 \in BOOLEAN /\ s3 \in BOOLEAN
    BY Zenon
  <2>5. c1 \in Nat /\ c2 \in Nat /\ c3 \in Nat
    BY <2>1 DEF Count
  <2>6. h = [a EXCEPT !.tcp_flags = tf, !.syn_count = c1, !.syn_c2s = s1, !.synack_s2c = s2,
                      !.fin_count = c2, !.fin = fi, !.rst_count = c3, !.saw_reset = s3]
    BY <1>4 DEF WithFlags, Flow, Count
  <2> HIDE DEF tf, fi, s1, s2, s3, c1, c2, c3, h
  <2>7. [a EXCEPT !.tcp_flags = tf, !.syn_count = c1, !.syn_c2s = s1, !.synack_s2c = s2,
                  !.fin_count = c2, !.fin = fi, !.rst_count = c3, !.saw_reset = s3] \in Flow
    BY <1>4, <2>2, <2>3, <2>4, <2>5 DEF Flow
  <2> QED
    BY <2>6, <2>7
<1> DEFINE b == IF p.flags = {} THEN a ELSE h
           g == Folded(f, p, frm)
<1>8. b \in Flow
  BY <1>4, <1>7
<1>9. g = [b EXCEPT !.sni = TakeFirst(@, p.sni), !.service = Service(@, p.layer)]
  BY DEF Folded, a, d, fl
<1>10. /\ b.id = f.id
       /\ b.first_ts = Lower(f.first_ts, p.ts) /\ b.last_ts = Higher(f.last_ts, p.ts)
       /\ b.first_frame = Lower(f.first_frame, frm) /\ b.last_frame = Higher(f.last_frame, frm)
       /\ b.packets = [f.packets EXCEPT ![d] = @ + 1]
       /\ b.bytes = [f.bytes EXCEPT ![d] = @ + p.len]
       /\ b.service = f.service /\ b.sni = f.sni
  <2> HIDE DEF h
  <2> QED
    BY <1>3, <1>5
<1>11. /\ b.tcp_flags = [f.tcp_flags EXCEPT ![d] = @ \cup fl]
       /\ b.syn_count = f.syn_count + (IF "syn" \in fl THEN 1 ELSE 0)
       /\ b.fin_count = f.fin_count + (IF "fin" \in fl THEN 1 ELSE 0)
       /\ b.rst_count = f.rst_count + (IF "rst" \in fl THEN 1 ELSE 0)
       /\ b.fin = [f.fin EXCEPT ![d] = @ \/ "fin" \in fl]
  <2> HIDE DEF h
  <2>1. CASE p.flags = {}
    <3>1. fl = {}
      BY <2>1 DEF fl
    <3>2. /\ [f.tcp_flags EXCEPT ![d] = @ \cup fl] = f.tcp_flags
          /\ [f.fin EXCEPT ![d] = @ \/ "fin" \in fl] = f.fin
      BY <1>1, <1>2, <3>1
    <3> QED
      BY <1>2, <1>3, <2>1, <3>1, <3>2 DEF Count
  <2>2. CASE p.flags # {}
    BY <1>3, <1>5, <2>2
  <2> QED
    BY <2>1, <2>2
<1>12. /\ b.syn_c2s <=> f.syn_c2s \/ ("syn" \in fl /\ d = "c2s" /\ "ack" \notin fl)
       /\ b.synack_s2c <=> f.synack_s2c \/ ("syn" \in fl /\ d = "s2c" /\ "ack" \in fl)
       /\ b.saw_reset <=> f.saw_reset \/ "rst" \in fl
  <2> HIDE DEF h
  <2>1. CASE p.flags = {}
    <3>1. fl = {}
      BY <2>1 DEF fl
    <3> QED
      BY <1>2, <1>3, <2>1, <3>1
  <2>2. CASE p.flags # {}
    BY <1>3, <1>6, <2>2
  <2> QED
    BY <2>1, <2>2
<1> HIDE DEF b
<1>13. g \in Flow
  <2>1. /\ b.sni \in Option(Name) /\ b.service \in Option(Layer)
        /\ p.sni \in Option(Name) /\ p.layer \in Option(Layer)
    BY <1>8, PacketTypes DEF Flow
  <2>2. TakeFirst(b.sni, p.sni) \in Option(Name) /\ Service(b.service, p.layer) \in Option(Layer)
    BY <2>1 DEF TakeFirst, Service
  <2> HIDE DEF g
  <2> QED
    BY <1>8, <1>9, <2>2 DEF Flow
<1>14. /\ g.id = b.id
       /\ g.first_ts = b.first_ts /\ g.last_ts = b.last_ts
       /\ g.first_frame = b.first_frame /\ g.last_frame = b.last_frame
       /\ g.packets = b.packets /\ g.bytes = b.bytes /\ g.tcp_flags = b.tcp_flags
       /\ g.syn_count = b.syn_count /\ g.fin_count = b.fin_count /\ g.rst_count = b.rst_count
       /\ g.fin = b.fin
       /\ g.syn_c2s = b.syn_c2s /\ g.synack_s2c = b.synack_s2c /\ g.saw_reset = b.saw_reset
       /\ g.sni = TakeFirst(b.sni, p.sni) /\ g.service = Service(b.service, p.layer)
  <2> HIDE DEF g
  <2> QED
    BY <1>8, <1>9 DEF Flow
<1> HIDE DEF g
<1> QED
  BY <1>10, <1>11, <1>12, <1>13, <1>14 DEF g, d, fl, FoldsTo

----------------------------------------------------------------------------
(* One more row, in each of the ways rows are looked at.                   *)
LEMMA AddSent ==
  ASSUME NEW rows, NEW r, NEW d
  PROVE  /\ r.direction = {d} => Sent(rows \cup {r}, d) = Sent(rows, d) \cup {r}
         /\ r.direction # {d} => Sent(rows \cup {r}, d) = Sent(rows, d)
BY DEF Sent

LEMMA AddFlagged ==
  ASSUME NEW rows, NEW r, NEW x
  PROVE  /\ x \in UNION r.packet.flags => Flagged(rows \cup {r}, x) = Flagged(rows, x) \cup {r}
         /\ x \notin UNION r.packet.flags => Flagged(rows \cup {r}, x) = Flagged(rows, x)
BY DEF Flagged

LEMMA AddFlags ==
  ASSUME NEW rows, NEW r
  PROVE  FlagsOf(rows \cup {r}) = FlagsOf(rows) \cup UNION r.packet.flags
BY DEF FlagsOf

LEMMA AddNamed ==
  ASSUME NEW rows, NEW r
  PROVE  /\ r.packet.sni # {} => Named(rows \cup {r}) = Named(rows) \cup {r}
         /\ r.packet.sni = {} => Named(rows \cup {r}) = Named(rows)
BY DEF Named

LEMMA AddSpecific ==
  ASSUME NEW rows, NEW r
  PROVE  \/ Specific(rows \cup {r}) = Specific(rows)
         \/ Specific(rows \cup {r}) = Specific(rows) \cup {r}
BY DEF Specific

(* How many rows a direction or a flag has after one more.                 *)
LEMMA AddSentCount ==
  ASSUME NEW rows, IsFiniteSet(rows), NEW r, r \notin rows, NEW d
  PROVE  /\ Cardinality(Sent(rows, d)) \in Nat
         /\ Cardinality(Sent(rows \cup {r}, d)) =
              Cardinality(Sent(rows, d)) + (IF r.direction = {d} THEN 1 ELSE 0)
<1>1. IsFiniteSet(Sent(rows, d)) /\ r \notin Sent(rows, d)
  <2>1. Sent(rows, d) \subseteq rows
    BY DEF Sent
  <2> QED
    BY <2>1, FS_Subset
<1>2. /\ Cardinality(Sent(rows, d)) \in Nat
      /\ Cardinality(Sent(rows, d) \cup {r}) = Cardinality(Sent(rows, d)) + 1
  BY <1>1, FS_AddElement, FS_CardinalityType
<1>3. /\ r.direction = {d} => Sent(rows \cup {r}, d) = Sent(rows, d) \cup {r}
      /\ r.direction # {d} => Sent(rows \cup {r}, d) = Sent(rows, d)
  BY AddSent, Zenon
<1>4. CASE r.direction = {d}
  BY <1>2, <1>3, <1>4
<1>5. CASE r.direction # {d}
  BY <1>2, <1>3, <1>5
<1> QED
  BY <1>4, <1>5

LEMMA AddFlaggedCount ==
  ASSUME NEW rows, IsFiniteSet(rows), NEW r, r \notin rows, NEW x
  PROVE  /\ Cardinality(Flagged(rows, x)) \in Nat
         /\ Cardinality(Flagged(rows \cup {r}, x)) =
              Cardinality(Flagged(rows, x)) + (IF x \in UNION r.packet.flags THEN 1 ELSE 0)
<1>1. IsFiniteSet(Flagged(rows, x)) /\ r \notin Flagged(rows, x)
  <2>1. Flagged(rows, x) \subseteq rows
    BY DEF Flagged
  <2> QED
    BY <2>1, FS_Subset
<1>2. /\ Cardinality(Flagged(rows, x)) \in Nat
      /\ Cardinality(Flagged(rows, x) \cup {r}) = Cardinality(Flagged(rows, x)) + 1
  BY <1>1, FS_AddElement, FS_CardinalityType
<1>3. /\ x \in UNION r.packet.flags => Flagged(rows \cup {r}, x) = Flagged(rows, x) \cup {r}
      /\ x \notin UNION r.packet.flags => Flagged(rows \cup {r}, x) = Flagged(rows, x)
  BY AddFlagged, Zenon
<1> QED
  BY <1>2, <1>3

(* The earliest of the rows stays the earliest when a later one is added.  *)
LEMMA AddLater ==
  ASSUME NEW rows, NEW r, r.frame \in Nat, \A s \in rows : s.frame \in Nat /\ s.frame < r.frame
  PROVE  First(rows \cup {r}) = IF rows = {} THEN {r} ELSE First(rows)
BY DEF First

(* A flow that has recorded rows has, after folding a packet in, recorded  *)
(* the row of that packet too.                                             *)
LEMMA FoldRecords ==
  ASSUME NEW f \in Flow, NEW p \in Packets, NEW frm \in Nat,
         NEW rows, IsFiniteSet(rows), NEW r,
         r.packet = p, r.direction = {Direction(p)}, r.frame = frm,
         \A s \in rows : s.frame \in Nat /\ s.frame < frm,
         Recorded(f, rows)
  PROVE  Recorded(Folded(f, p, frm), rows \cup {r})
<1> DEFINE more == rows \cup {r}
           g == Folded(f, p, frm)
           d == Direction(p)
           flags == UNION p.flags
<1> USE DEF Recorded
<1>0. FoldsTo(f, p, frm, g)
  BY FoldedFields
<1>1. r \notin rows
  OBVIOUS
<1>2. Counts(g, more)
  <2>1. \A e \in Dir : g.packets[e] = f.packets[e] + (IF r.direction = {e} THEN 1 ELSE 0)
    <3>1. f.packets \in [Dir -> Nat] /\ d \in Dir
      BY PacketTypes DEF Flow
    <3>2. g.packets = [f.packets EXCEPT ![d] = @ + 1]
      BY <1>0 DEF FoldsTo
    <3> QED
      BY <3>1, <3>2 DEF Count
  <2>2. /\ g.syn_count = f.syn_count + (IF "syn" \in flags THEN 1 ELSE 0)
        /\ g.fin_count = f.fin_count + (IF "fin" \in flags THEN 1 ELSE 0)
        /\ g.rst_count = f.rst_count + (IF "rst" \in flags THEN 1 ELSE 0)
    BY <1>0 DEF FoldsTo
  <2> HIDE DEF g, d
  <2>3. ASSUME NEW e \in Dir PROVE g.packets[e] = Cardinality(Sent(more, e))
    <3>1. /\ Cardinality(Sent(rows, e)) \in Nat
          /\ Cardinality(Sent(more, e)) =
               Cardinality(Sent(rows, e)) + (IF r.direction = {e} THEN 1 ELSE 0)
      BY <1>1, AddSentCount, Zenon
    <3> QED
      BY <2>1, <3>1 DEF Counts
  <2>4. \A x : Cardinality(Flagged(more, x)) =
                 Cardinality(Flagged(rows, x)) + (IF x \in flags THEN 1 ELSE 0)
    BY <1>1, AddFlaggedCount, Zenon
  <2> HIDE DEF more, flags
  <2> QED
    BY <2>2, <2>3, <2>4 DEF Counts
<1>3. Flags(g, more)
  <2>0. d \in Dir /\ f.tcp_flags \in [Dir -> SUBSET Flag] /\ f.fin \in [Dir -> BOOLEAN]
    BY PacketTypes DEF Flow
  <2>1. /\ g.tcp_flags = [f.tcp_flags EXCEPT ![d] = @ \cup flags]
        /\ g.fin = [f.fin EXCEPT ![d] = @ \/ "fin" \in flags]
        /\ g.syn_c2s <=> f.syn_c2s \/ ("syn" \in flags /\ d = "c2s" /\ "ack" \notin flags)
        /\ g.synack_s2c <=> f.synack_s2c \/ ("syn" \in flags /\ d = "s2c" /\ "ack" \in flags)
        /\ g.saw_reset <=> f.saw_reset \/ "rst" \in flags
    BY <1>0 DEF FoldsTo
  <2> HIDE DEF g, d, flags
  <2>2. ASSUME NEW e \in Dir
        PROVE  /\ g.tcp_flags[e] = FlagsOf(Sent(more, e))
               /\ g.fin[e] <=> Flagged(Sent(more, e), "fin") # {}
    <3>1. CASE e = d
      <4>1. Sent(more, e) = Sent(rows, e) \cup {r}
        BY <3>1 DEF d, Sent
      <4>2. FlagsOf(Sent(more, e)) = FlagsOf(Sent(rows, e)) \cup flags
        BY <4>1, AddFlags, Zenon DEF flags
      <4>5. Flagged(Sent(more, e), "fin") # {} <=>
                 Flagged(Sent(rows, e), "fin") # {} \/ "fin" \in flags
        BY <4>1 DEF flags, Flagged
      <4>3. g.tcp_flags[e] = f.tcp_flags[e] \cup flags /\ g.fin[e] = (f.fin[e] \/ "fin" \in flags)
        BY <2>0, <2>1, <3>1
      <4> QED
        BY <4>2, <4>3, <4>5 DEF Flags
    <3>2. CASE e # d
      <4>1. Sent(more, e) = Sent(rows, e)
        BY <3>2 DEF d, Sent
      <4>2. g.tcp_flags[e] = f.tcp_flags[e] /\ g.fin[e] = f.fin[e]
        BY <2>0, <2>1, <3>2
      <4> QED
        BY <4>1, <4>2 DEF Flags
    <3> QED
      BY <3>1, <3>2
  <2>3. g.saw_reset <=> Flagged(more, "rst") # {}
    <3>1. Flagged(more, "rst") # {} <=> Flagged(rows, "rst") # {} \/ "rst" \in flags
      BY DEF Flagged, flags
    <3> QED
      BY <2>1, <3>1, Zenon DEF Flags
  <2>4. g.syn_c2s <=> Flagged(Sent(more, "c2s"), "syn") \ Flagged(more, "ack") # {}
    <3>1. Flagged(Sent(more, "c2s"), "syn") \ Flagged(more, "ack") # {}
          <=> \/ Flagged(Sent(rows, "c2s"), "syn") \ Flagged(rows, "ack") # {}
              \/ "syn" \in flags /\ d = "c2s" /\ "ack" \notin flags
      BY <1>1 DEF Flagged, Sent, flags, d
    <3> QED
      BY <2>1, <3>1, Zenon DEF Flags
  <2>5. g.synack_s2c <=> Flagged(Sent(more, "s2c"), "syn") \cap Flagged(more, "ack") # {}
    <3>1. Flagged(Sent(more, "s2c"), "syn") \cap Flagged(more, "ack") # {}
          <=> \/ Flagged(Sent(rows, "s2c"), "syn") \cap Flagged(rows, "ack") # {}
              \/ "syn" \in flags /\ d = "s2c" /\ "ack" \in flags
      BY <1>1 DEF Flagged, Sent, flags, d
    <3> QED
      BY <2>1, <3>1, Zenon DEF Flags
  <2> QED
    BY <2>2, <2>3, <2>4, <2>5 DEF Flags
<1>4. Names(g, more)
  <2>1. g.sni = TakeFirst(f.sni, p.sni) /\ g.service = Service(f.service, p.layer)
    BY <1>0 DEF FoldsTo
  <2> HIDE DEF g
  <2>2. /\ Named(more) = {} => g.sni = {}
        /\ \A x \in First(Named(more)) : g.sni = x.packet.sni
    <3>1. CASE Named(rows) = {}
      <4>1. f.sni = {}
        BY <3>1 DEF Names
      <4>2. g.sni = p.sni
        BY <2>1, <4>1 DEF TakeFirst
      <4>3. \A x \in Named(more) : x = r
        BY <3>1 DEF Named
      <4>4. \A x \in First(Named(more)) : x = r
        BY <4>3 DEF First
      <4>5. Named(more) = {} => p.sni = {}
        BY DEF Named
      <4> QED
        BY <4>2, <4>4, <4>5
    <3>2. CASE Named(rows) # {}
      <4>1. \A s \in Named(rows) : s.frame \in Nat /\ s.frame < r.frame
        BY DEF Named
      <4>2. First(Named(rows) \cup {r}) = First(Named(rows))
        BY <3>2, <4>1, AddLater
      <4>3. First(Named(more)) = First(Named(rows)) /\ Named(more) # {}
        BY <3>2, <4>2, AddNamed
      <4>4. ASSUME NEW x \in First(Named(more)) PROVE g.sni = x.packet.sni
        <5>1. f.sni = x.packet.sni /\ x.packet.sni # {}
          BY <4>3, <4>4 DEF Names, First, Named
        <5> QED
          BY <2>1, <5>1 DEF TakeFirst
      <4> QED
        BY <4>3, <4>4
    <3> QED
      BY <3>1, <3>2
  <2>3. /\ Specific(more) = {} => g.service \subseteq {"tcp", "udp"}
        /\ \A x \in First(Specific(more)) : g.service = x.packet.layer
    <3>1. CASE Specific(rows) = {}
      <4>1. f.service \subseteq {"tcp", "udp"}
        BY <3>1 DEF Names
      <4>2. g.service = IF p.layer # {} THEN p.layer ELSE f.service
        BY <2>1, <4>1 DEF Service
      <4>3. \A x \in Specific(more) : x = r
        BY <3>1 DEF Specific
      <4>4. \A x \in First(Specific(more)) : x = r /\ p.layer # {}
        BY <4>3 DEF First, Specific
      <4>5. Specific(more) = {} => p.layer \subseteq {"tcp", "udp"}
        BY DEF Specific
      <4> QED
        BY <4>1, <4>2, <4>4, <4>5
    <3>2. CASE Specific(rows) # {}
      <4>1. \A s \in Specific(rows) : s.frame \in Nat /\ s.frame < r.frame
        BY DEF Specific
      <4>2. First(Specific(rows) \cup {r}) = First(Specific(rows))
        BY <3>2, <4>1, AddLater
      <4>3. First(Specific(more)) = First(Specific(rows)) /\ Specific(more) # {}
        <5>1. Specific(more) = Specific(rows) \/ Specific(more) = Specific(rows) \cup {r}
          BY AddSpecific, Zenon
        <5> QED
          BY <3>2, <4>2, <5>1
      <4>4. ASSUME NEW x \in First(Specific(more)) PROVE g.service = x.packet.layer
        <5>1. f.service = x.packet.layer /\ ~ (x.packet.layer \subseteq {"tcp", "udp"})
          BY <4>3, <4>4 DEF Names, First, Specific
        <5> QED
          BY <2>1, <5>1 DEF Service
      <4> QED
        BY <4>3, <4>4
    <3> QED
      BY <3>1, <3>2
  <2> QED
    BY <2>2, <2>3 DEF Names
<1> QED
  BY <1>2, <1>3, <1>4

(* A flow just made has recorded nothing.                                  *)
LEMMA NewRecords ==
  ASSUME NEW id, NEW ts, NEW frm
  PROVE  Recorded(NewFlow(id, ts, frm), {})
<1> DEFINE f == NewFlow(id, ts, frm)
<1>1. /\ \A d \in Dir : f.packets[d] = 0 /\ f.tcp_flags[d] = {} /\ f.fin[d] = FALSE
      /\ f.syn_count = 0 /\ f.fin_count = 0 /\ f.rst_count = 0
      /\ f.syn_c2s = FALSE /\ f.synack_s2c = FALSE /\ f.saw_reset = FALSE
      /\ f.sni = {} /\ f.service = {}
  BY DEF NewFlow, Both
<1> HIDE DEF f
<1>2. /\ \A d : Sent({}, d) = {}
      /\ \A x : Flagged({}, x) = {}
      /\ FlagsOf({}) = {} /\ Named({}) = {} /\ Specific({}) = {} /\ First({}) = {}
  BY DEF Sent, Flagged, FlagsOf, Named, Specific, First
<1>3. Counts(f, {})
  BY <1>1, <1>2, FS_EmptySet DEF Counts
<1>4. Flags(f, {})
  <2>1. {} \ {} = {} /\ {} \cap {} = {}
    OBVIOUS
  <2> QED
    BY <1>1, <1>2, <2>1, Zenon DEF Flags
<1>5. Names(f, {})
  BY <1>1, <1>2 DEF Names
<1> QED
  BY <1>3, <1>4, <1>5 DEF Recorded, f

(* Folding a packet in widens the interval to it, or starts one at it.     *)
LEMMA FoldSpans ==
  ASSUME NEW f \in Flow, NEW p \in Packets, NEW frm \in Nat, NEW rows, NEW r,
         r.packet = p, r.frame = frm,
         \A s \in rows : s.packet.ts \in Int /\ s.frame \in Nat,
         \/ Spans(f, rows)
         \/ /\ rows = {}
            /\ f.first_ts = p.ts /\ f.last_ts = p.ts
            /\ f.first_frame = frm /\ f.last_frame = frm
  PROVE  Spans(Folded(f, p, frm), rows \cup {r})
<1> DEFINE g == Folded(f, p, frm)
           more == rows \cup {r}
<1>1. /\ f.first_ts \in Int /\ f.last_ts \in Int /\ p.ts \in Int
      /\ f.first_frame \in Nat /\ f.last_frame \in Nat
  BY PacketTypes DEF Flow
<1>2. FoldsTo(f, p, frm, g)
  BY FoldedFields
<1>3. /\ g.first_ts = IF f.first_ts <= p.ts THEN f.first_ts ELSE p.ts
      /\ g.last_ts = IF f.last_ts >= p.ts THEN f.last_ts ELSE p.ts
      /\ g.first_frame = IF f.first_frame <= frm THEN f.first_frame ELSE frm
      /\ g.last_frame = IF f.last_frame >= frm THEN f.last_frame ELSE frm
  BY <1>2 DEF FoldsTo, Lower, Higher
<1> HIDE DEF g
<1>4. r \in more /\ \A s \in rows : s \in more
  OBVIOUS
<1>5. \A s \in more : s = r \/ s \in rows
  OBVIOUS
<1> HIDE DEF more
<1>6. ASSUME Spans(f, rows) PROVE Spans(g, more)
  <2>1. \A s \in more : /\ g.first_ts <= s.packet.ts /\ s.packet.ts <= g.last_ts
                        /\ g.first_frame <= s.frame /\ s.frame <= g.last_frame
    BY <1>1, <1>3, <1>5, <1>6 DEF Spans
  <2>2. PICK a \in rows, b \in rows : a.packet.ts = f.first_ts /\ b.packet.ts = f.last_ts
    BY <1>6 DEF Spans
  <2>3. PICK c \in rows, e \in rows : c.frame = f.first_frame /\ e.frame = f.last_frame
    BY <1>6 DEF Spans
  <2>4. \E x, y \in more : x.packet.ts = g.first_ts /\ y.packet.ts = g.last_ts
    <3>1. (\E x \in more : x.packet.ts = g.first_ts) /\ (\E y \in more : y.packet.ts = g.last_ts)
      BY <1>1, <1>3, <1>4, <2>2
    <3> QED
      BY <3>1
  <2>5. \E x, y \in more : x.frame = g.first_frame /\ y.frame = g.last_frame
    <3>1. (\E x \in more : x.frame = g.first_frame) /\ (\E y \in more : y.frame = g.last_frame)
      BY <1>1, <1>3, <1>4, <2>3
    <3> QED
      BY <3>1
  <2> QED
    BY <2>1, <2>4, <2>5 DEF Spans
<1>7. ASSUME rows = {}, f.first_ts = p.ts, f.last_ts = p.ts, f.first_frame = frm, f.last_frame = frm
      PROVE  Spans(g, more)
  <2>1. g.first_ts = p.ts /\ g.last_ts = p.ts /\ g.first_frame = frm /\ g.last_frame = frm
    BY <1>3, <1>7
  <2>2. \A s \in more : s = r
    BY <1>5, <1>7
  <2>3. \A s \in more : /\ g.first_ts <= s.packet.ts /\ s.packet.ts <= g.last_ts
                        /\ g.first_frame <= s.frame /\ s.frame <= g.last_frame
    BY <1>1, <2>1, <2>2
  <2> QED
    BY <1>4, <2>1, <2>3 DEF Spans
<1> QED
  BY <1>6, <1>7 DEF g, more

----------------------------------------------------------------------------
(* Two packets have one canonical tuple exactly when they belong to one    *)
(* conversation.                                                           *)
LEMMA KeyIsConversation ==
  ASSUME NEW p \in Packets, NEW q \in Packets
  PROVE  Key(p) = Key(q) <=> SameConversation(p, q)
<1>1. p.src \in Int /\ p.dst \in Int /\ q.src \in Int /\ q.dst \in Int
  BY PacketTypes
<1>2. /\ Key(p).src = IF p.src <= p.dst THEN p.src ELSE p.dst
      /\ Key(p).dst = IF p.src <= p.dst THEN p.dst ELSE p.src
      /\ Key(p).proto = p.proto
  BY DEF Key, Forward
<1>3. /\ Key(q).src = IF q.src <= q.dst THEN q.src ELSE q.dst
      /\ Key(q).dst = IF q.src <= q.dst THEN q.dst ELSE q.src
      /\ Key(q).proto = q.proto
  BY DEF Key, Forward
<1>4. Key(p) = Key(q) <=>
        Key(p).src = Key(q).src /\ Key(p).dst = Key(q).dst /\ Key(p).proto = Key(q).proto
  BY DEF Key
<1>5. {p.src, p.dst} = {q.src, q.dst} <=>
        (p.src = q.src /\ p.dst = q.dst) \/ (p.src = q.dst /\ p.dst = q.src)
  OBVIOUS
<1> QED
  BY <1>1, <1>2, <1>3, <1>4, <1>5 DEF SameConversation

LEMMA RowsGrow ==
  ASSUME FlowTypeOK, NEW r, seen' = Append(seen, r)
  PROVE  Rows' = Rows \cup {r}
<1>1. /\ DOMAIN seen = 1 .. Len(seen) /\ Len(seen) \in Nat
      /\ DOMAIN seen' = 1 .. (Len(seen) + 1)
      /\ \A i \in DOMAIN seen : seen'[i] = seen[i]
      /\ seen'[Len(seen) + 1] = r
  BY DEF FlowTypeOK
<1> QED
  BY <1>1 DEF Rows

(* The rows have their types.                                              *)
LEMMA RowTypes ==
  ASSUME FlowTypeOK, Linked, NEW r \in Rows
  PROVE  /\ r.frame \in Nat /\ r.flow_id \in Nat /\ r.packet \in Packets
         /\ r.packet.ts \in Int /\ r.packet.len \in Nat
<1>1. r.frame \in Nat /\ r.flow_id \in Nat
  <2>1. PICK i \in DOMAIN seen : r = seen[i]
    BY DEF Rows
  <2> DEFINE RowType == [packet : Packet, frame : Nat \ {0}, flow_id : Nat, direction : Option(Dir)]
  <2>2. seen \in Seq(RowType)
    BY DEF FlowTypeOK
  <2>3. seen[i] \in RowType
    <3> HIDE DEF RowType
    <3> QED
      BY <2>2
  <2> QED
    BY <2>1, <2>3
<1>2. r.packet \in Packets
  BY DEF Linked, JoinedItsFlow
<1> QED
  BY <1>1, <1>2, PacketTypes

(* What one more row adds to the bytes of a flow.                          *)
LEMMA LengthsType ==
  ASSUME FlowTypeOK, Linked, NEW f, NEW d
  PROVE  Lengths(f, d) \in Seq(Nat) /\ Len(Lengths(f, d)) = Len(seen)
<1>1. \A i \in 1 .. Len(seen) : seen[i].packet.len \in Nat
  <2>1. \A i \in 1 .. Len(seen) : seen[i] \in Rows
    BY DEF Rows, FlowTypeOK
  <2> QED
    BY <2>1, RowTypes
<1>2. Len(seen) \in Nat
  BY DEF FlowTypeOK
<1>3. Lengths(f, d) \in [1 .. Len(seen) -> Nat]
  BY <1>1 DEF Lengths
<1> QED
  BY <1>2, <1>3

LEMMA RowAddsBytes ==
  ASSUME FlowTypeOK, Linked, NEW r, r.packet \in Packets, seen' = Append(seen, r), NEW f, NEW d
  PROVE  /\ Total(Lengths(f, d)) \in Nat
         /\ r.flow_id = f.id /\ r.direction = {d} =>
              Total(Lengths(f, d))' = Total(Lengths(f, d)) + r.packet.len
         /\ r.flow_id # f.id \/ r.direction # {d} =>
              Total(Lengths(f, d))' = Total(Lengths(f, d))
<1> DEFINE x == IF r.flow_id = f.id /\ r.direction = {d} THEN r.packet.len ELSE 0
<1>1. Lengths(f, d) \in Seq(Nat) /\ Len(Lengths(f, d)) = Len(seen)
  BY LengthsType
<1>2. r.packet.len \in Nat
  BY PacketTypes
<1>3. x \in Nat
  BY <1>2
<1>4. Lengths(f, d)' = Append(Lengths(f, d), x)
  <2>1. /\ Len(seen) \in Nat /\ Len(seen') = Len(seen) + 1
        /\ \A i \in 1 .. Len(seen) : seen'[i] = seen[i]
        /\ seen'[Len(seen) + 1] = r
    BY DEF FlowTypeOK
  <2>2. Lengths(f, d)' = [i \in 1 .. Len(seen) + 1 |-> IF i = Len(seen) + 1 THEN x ELSE Lengths(f, d)[i]]
    BY <2>1 DEF Lengths
  <2> HIDE DEF x
  <2>3. PICK w : w = Lengths(f, d)
    OBVIOUS
  <2>4. w \in Seq(Nat) /\ Len(w) = Len(seen)
    BY <1>1, <2>3
  <2>5. Append(w, x) = [i \in 1 .. Len(seen) + 1 |-> IF i = Len(seen) + 1 THEN x ELSE w[i]]
    <3> DEFINE v == [i \in 1 .. Len(seen) + 1 |-> IF i = Len(seen) + 1 THEN x ELSE w[i]]
    <3>1. /\ Append(w, x) \in Seq(Nat) /\ Len(Append(w, x)) = Len(seen) + 1
          /\ \A i \in 1 .. Len(seen) : Append(w, x)[i] = w[i]
          /\ Append(w, x)[Len(seen) + 1] = x
      BY <1>3, <2>1, <2>4
    <3>2. v \in Seq(Nat) /\ Len(v) = Len(seen) + 1
      BY <1>3, <2>1, <2>4
    <3>3. \A i \in 1 .. Len(seen) + 1 : Append(w, x)[i] = v[i]
      BY <2>1, <3>1
    <3> HIDE DEF v
    <3>4. v = Append(w, x)
      BY <3>1, <3>2, <3>3, SeqEqual
    <3> QED
      BY <3>4 DEF v
  <2> QED
    BY <2>2, <2>3, <2>5
<1> HIDE DEF x
<1>5. Total(Lengths(f, d))' = Total(Append(Lengths(f, d), x))
  BY <1>4
<1>6. Total(Lengths(f, d)) \in Nat /\ Total(Lengths(f, d))' = Total(Lengths(f, d)) + x
  BY <1>1, <1>3, <1>5, TotalAppend
<1> QED
  BY <1>6 DEF x

(* The flow a packet is folded into, and the table after it.               *)
LEMMA FoldFacts ==
  ASSUME FlowTypeOK, IdsInOrder, NEW p \in Packets, Fold(p)
  PROVE  /\ Key(p) \in FlowKeys
         /\ Entry(p) \in Flow /\ Entry(p).id # 0
         /\ flows' = [flows EXCEPT ![Key(p)] = Folded(Entry(p), p, frame + 1)]
         /\ flows'[Key(p)] = Folded(Entry(p), p, frame + 1)
         /\ flows'[Key(p)] \in Flow /\ flows'[Key(p)].id = Entry(p).id
         /\ \A k \in FlowKeys : k # Key(p) => flows'[k] = flows[k]
         /\ FlowsPresent' = FlowsPresent \cup {Key(p)}
<1>1. Key(p) \in FlowKeys /\ p.ts \in Int /\ frame + 1 \in Nat
  BY PacketTypes DEF FlowTypeOK
<1>2. Entry(p) \in Flow /\ Entry(p).id # 0
  <2>1. CASE Key(p) \in FlowsPresent
    BY <2>1 DEF Entry, FlowsPresent, FlowTypeOK
  <2>2. CASE Key(p) \notin FlowsPresent
    <3>1. Entry(p) = NewFlow(next_id, p.ts, frame + 1)
      BY <2>2 DEF Entry, FrameNumber
    <3>2. next_id \in Nat /\ next_id # 0
      BY DEF FlowTypeOK
    <3>3. NewFlow(next_id, p.ts, frame + 1) \in Flow /\ NewFlow(next_id, p.ts, frame + 1).id = next_id
      BY <1>1, <3>2, NewFlowType
    <3> QED
      BY <3>1, <3>2, <3>3
  <2> QED
    BY <2>1, <2>2
<1>3. flows' = [flows EXCEPT ![Key(p)] = Folded(Entry(p), p, frame + 1)]
  BY DEF Fold, FrameNumber
<1>4. FoldsTo(Entry(p), p, frame + 1, Folded(Entry(p), p, frame + 1))
  BY <1>1, <1>2, FoldedFields
<1>5. /\ Folded(Entry(p), p, frame + 1) \in Flow
      /\ Folded(Entry(p), p, frame + 1).id = Entry(p).id
  BY <1>4 DEF FoldsTo
<1>6. /\ flows'[Key(p)] = Folded(Entry(p), p, frame + 1)
      /\ \A k \in FlowKeys : k # Key(p) => flows'[k] = flows[k]
  BY <1>1, <1>3 DEF FlowTypeOK
<1>7. FlowsPresent' = FlowsPresent \cup {Key(p)}
  BY <1>1, <1>2, <1>5, <1>6 DEF FlowsPresent
<1> QED
  BY <1>1, <1>2, <1>3, <1>5, <1>6, <1>7

LEMMA FoldTypes ==
  ASSUME FlowTypeOK, IdsInOrder, NEW p \in Packets, Fold(p), frame' = frame + 1
  PROVE  FlowTypeOK'
<1> DEFINE RowType == [packet : Packet, frame : Nat \ {0}, flow_id : Nat, direction : Option(Dir)]
<1>1. flows' \in [FlowKeys -> Flow]
  BY FoldFacts DEF FlowTypeOK
<1>2. next_id' \in Nat \ {0} /\ flows_evicted' \in Nat /\ frame' \in Nat
  BY DEF Fold, NextId, FlowTypeOK
<1>3. Row(p, Entry(p).id, {Direction(p)}) \in RowType
  <2>1. Entry(p).id \in Nat /\ frame + 1 \in Nat \ {0}
    BY FoldFacts DEF Flow, FlowTypeOK
  <2>2. p \in Packet /\ {Direction(p)} \in Option(Dir)
    BY PacketTypes DEF Option
  <2> QED
    BY <2>1, <2>2 DEF Row, FrameNumber
<1>4. seen' \in Seq(RowType)
  BY <1>3 DEF Fold, FlowTypeOK
<1> QED
  BY <1>1, <1>2, <1>4 DEF FlowTypeOK

(* Numbering after a packet joined a flow or opened one.                   *)
LEMMA FoldNumbers ==
  ASSUME FlowTypeOK, IdsInOrder, Linked, NEW p \in Packets, Fold(p), frame' = frame + 1
  PROVE  /\ IdsInOrder'
         /\ IsFiniteSet(FlowsPresent')
         /\ \A k \in FlowsPresent' : flows'[k].first_frame <= frame'
         /\ \A k, l \in FlowsPresent' : flows'[k].id = flows'[l].id => k = l
<1> DEFINE k0 == Key(p)
           g == Folded(Entry(p), p, frame + 1)
<1>1. /\ k0 \in FlowKeys /\ Entry(p) \in Flow /\ Entry(p).id # 0
      /\ flows'[k0] = g /\ flows'[k0].id = Entry(p).id
      /\ \A k \in FlowKeys : k # k0 => flows'[k] = flows[k]
      /\ FlowsPresent' = FlowsPresent \cup {k0}
  BY FoldFacts
<1>2. FoldsTo(Entry(p), p, frame + 1, g)
  BY <1>1, FoldedFields DEF FlowTypeOK
<1>3. g.first_frame = IF Entry(p).first_frame <= frame + 1 THEN Entry(p).first_frame ELSE frame + 1
  BY <1>2 DEF FoldsTo, Lower
<1> HIDE DEF g, k0
<1>4. /\ Cardinality(FlowsPresent) \in Nat
      /\ \A k \in FlowsPresent : k \in FlowKeys /\ flows[k].id \in Nat /\ flows[k].first_frame \in Nat
      /\ \A k \in FlowsPresent : flows[k].id \in 1 .. Cardinality(FlowsPresent)
      /\ next_id = Cardinality(FlowsPresent) + 1 /\ frame \in Nat
  BY FS_CardinalityType DEF Linked, IdsInOrder, FlowTypeOK, Flow, FlowsPresent
<1>5. CASE k0 \in FlowsPresent
  <2>1. Entry(p) = flows[k0] /\ FlowsPresent' = FlowsPresent
    BY <1>1, <1>5 DEF Entry, k0
  <2>2. g.first_frame = flows[k0].first_frame
    BY <1>3, <1>4, <1>5, <2>1 DEF Linked
  <2>3. \A k \in FlowsPresent : flows'[k].id = flows[k].id /\ flows'[k].first_frame = flows[k].first_frame
    BY <1>1, <1>4, <2>1, <2>2
  <2>4. next_id' = next_id
    BY <1>4, <1>5, <2>1 DEF Fold, NextId
  <2> QED
    BY <1>4, <2>1, <2>3, <2>4 DEF IdsInOrder, Linked
<1>6. CASE k0 \notin FlowsPresent
  <2>1. Entry(p).id = next_id /\ Entry(p).first_frame = frame + 1
    BY <1>6 DEF Entry, k0, NewFlow, FrameNumber
  <2>2. g.first_frame = frame + 1
    BY <1>3, <2>1
  <2>3. next_id' = next_id + 1
    BY <2>1 DEF Fold, NextId
  <2>4. IsFiniteSet(FlowsPresent') /\ Cardinality(FlowsPresent') = Cardinality(FlowsPresent) + 1
    BY <1>1, <1>6, FS_AddElement DEF Linked
  <2>5. \A k \in FlowsPresent : flows'[k] = flows[k]
    BY <1>1, <1>4, <1>6
  <2>6. flows'[k0].id = next_id /\ flows'[k0].first_frame = frame + 1
    BY <1>1, <2>1, <2>2
  <2>7. {flows'[k].id : k \in FlowsPresent'} = {flows[k].id : k \in FlowsPresent} \cup {next_id}
    BY <1>1, <2>5, <2>6
  <2>8. {flows'[k].id : k \in FlowsPresent'} = 1 .. Cardinality(FlowsPresent')
    BY <1>4, <2>4, <2>7 DEF IdsInOrder
  <2>9. \A k, l \in FlowsPresent' :
          flows'[k].id < flows'[l].id => flows'[k].first_frame < flows'[l].first_frame
    BY <1>1, <1>4, <2>5, <2>6 DEF IdsInOrder, Linked
  <2>10. /\ \A k \in FlowsPresent' : flows'[k].first_frame <= frame'
         /\ \A k, l \in FlowsPresent' : flows'[k].id = flows'[l].id => k = l
    BY <1>1, <1>4, <2>5, <2>6 DEF Linked
  <2> QED
    BY <1>4, <2>3, <2>4, <2>8, <2>9, <2>10 DEF IdsInOrder
<1> QED
  BY <1>5, <1>6

(* A packet that joins a flow is a row of it, and the tuples refused       *)
(* before stay out: a table that was full can open none.                   *)
LEMMA FoldLinks ==
  ASSUME FlowTypeOK, IdsInOrder, Linked, NEW p \in Packets, Fold(p), frame' = frame + 1
  PROVE  IsFiniteSet(Rows') /\ \A r \in Rows' : JoinedItsFlow(r)'
<1>0. PICK new : new = Row(p, Entry(p).id, {Direction(p)})
  OBVIOUS
<1>1. Rows' = Rows \cup {new}
  BY <1>0, RowsGrow DEF Fold
<1>2. /\ new.packet = p /\ new.frame = frame + 1
      /\ new.flow_id = Entry(p).id /\ new.direction = {Direction(p)}
  BY <1>0 DEF Row, FrameNumber
<1>3. /\ Key(p) \in FlowKeys /\ Entry(p).id # 0 /\ flows'[Key(p)].id = Entry(p).id
      /\ \A k \in FlowKeys : k # Key(p) => flows'[k] = flows[k]
      /\ FlowsPresent' = FlowsPresent \cup {Key(p)}
  BY FoldFacts
<1>4. JoinedItsFlow(new)'
  <2>1. new.frame <= frame'
    BY <1>2 DEF FlowTypeOK
  <2> QED
    BY <1>2, <1>3, <2>1 DEF JoinedItsFlow
<1>5. ASSUME NEW r \in Rows PROVE JoinedItsFlow(r)'
  <2>1. JoinedItsFlow(r) /\ r.packet \in Packets /\ r.frame <= frame'
    BY RowTypes DEF Linked, JoinedItsFlow, FlowTypeOK
  <2>2. CASE r.flow_id = 0
    <3>1. Key(r.packet) \notin FlowsPresent /\ Cardinality(FlowsPresent) >= MaxFlows
      BY <2>1, <2>2 DEF JoinedItsFlow
    <3>2. Key(p) \in FlowsPresent
      BY <3>1 DEF Fold, FlowTableFull
    <3>3. FlowsPresent' = FlowsPresent
      BY <1>3, <3>2
    <3> QED
      BY <2>1, <2>2, <3>1, <3>3 DEF JoinedItsFlow
  <2>3. CASE r.flow_id # 0
    <3>1. /\ Key(r.packet) \in FlowsPresent /\ flows[Key(r.packet)].id = r.flow_id
          /\ r.direction = {Direction(r.packet)}
      BY <2>1, <2>3 DEF JoinedItsFlow
    <3>2. Key(r.packet) = Key(p) => Entry(p) = flows[Key(r.packet)]
      BY <3>1 DEF Entry
    <3>3. Key(r.packet) \in FlowsPresent' /\ flows'[Key(r.packet)].id = r.flow_id
      BY <1>3, <3>1, <3>2 DEF FlowsPresent
    <3> QED
      BY <2>1, <2>3, <3>1, <3>3 DEF JoinedItsFlow
  <2> QED
    BY <2>2, <2>3
<1>6. IsFiniteSet(Rows')
  BY <1>1, FS_AddElement DEF Linked
<1> QED
  BY <1>1, <1>4, <1>5, <1>6

(* The packet is added to the history of its flow and of no other.         *)
LEMMA FoldHistory ==
  ASSUME FlowTypeOK, IdsInOrder, Linked, History, NEW p \in Packets, Fold(p), frame' = frame + 1
  PROVE  History'
<1> DEFINE new == Row(p, Entry(p).id, {Direction(p)})
           k0 == Key(p)
           e == Entry(p)
<1>1. Rows' = Rows \cup {new}
  BY RowsGrow DEF Fold
<1>2. /\ new.packet = p /\ new.frame = frame + 1
      /\ new.flow_id = e.id /\ new.direction = {Direction(p)}
  BY DEF Row, FrameNumber
<1>3. /\ k0 \in FlowKeys /\ e \in Flow /\ e.id # 0
      /\ flows'[k0] = Folded(e, p, frame + 1) /\ flows'[k0].id = e.id
      /\ \A k \in FlowKeys : k # k0 => flows'[k] = flows[k]
      /\ FlowsPresent' = FlowsPresent \cup {k0}
  BY FoldFacts
<1>4. ASSUME NEW k \in FlowsPresent, k # k0
      PROVE  /\ flows'[k] = flows[k]
             /\ flows[k].id # e.id
             /\ RowsOf(flows[k])' = RowsOf(flows[k])
  <2>1. flows'[k] = flows[k]
    BY <1>3, <1>4 DEF FlowsPresent
  <2>2. flows[k].id # e.id
    <3>1. CASE k0 \in FlowsPresent
      BY <1>4, <3>1 DEF Linked, Entry
    <3>2. CASE k0 \notin FlowsPresent
      <4>1. e.id = Cardinality(FlowsPresent) + 1
        BY <3>2 DEF Entry, NewFlow, IdsInOrder
      <4>2. flows[k].id \in 1 .. Cardinality(FlowsPresent) /\ Cardinality(FlowsPresent) \in Nat
        BY <1>4, FS_CardinalityType DEF IdsInOrder, Linked
      <4> QED
        BY <4>1, <4>2
    <3> QED
      BY <3>1, <3>2
  <2> HIDE DEF new, e
  <2> QED
    BY <1>1, <1>2, <2>1, <2>2 DEF RowsOf
<1> DEFINE rows == RowsOf(e)
<1>5. RowsOf(flows[k0])' = rows \cup {new}
  <2> HIDE DEF new, e
  <2> QED
    BY <1>1, <1>2, <1>3 DEF RowsOf, rows
<1>6. \A s \in rows : s \in Rows /\ s.frame \in Nat /\ s.frame < frame + 1 /\ s.packet.ts \in Int
  <2>1. ASSUME NEW s \in Rows PROVE s.frame \in Nat /\ s.packet.ts \in Int /\ s.frame <= frame
    BY RowTypes DEF Linked, JoinedItsFlow
  <2> QED
    BY <2>1 DEF RowsOf, FlowTypeOK
<1>7. IsFiniteSet(rows)
  <2>1. rows \subseteq Rows /\ IsFiniteSet(Rows)
    BY DEF RowsOf, Linked
  <2> QED
    BY <2>1, FS_Subset, Zenon
<1>8. ASSUME k0 \notin FlowsPresent, NEW r \in Rows PROVE r.flow_id # e.id
  <2>1. e.id = Cardinality(FlowsPresent) + 1
    BY <1>8 DEF Entry, NewFlow, IdsInOrder
  <2>2. r.flow_id = 0 \/ r.flow_id \in {flows[k].id : k \in FlowsPresent}
    BY <1>8 DEF Linked, JoinedItsFlow
  <2>3. Cardinality(FlowsPresent) \in Nat
    BY FS_CardinalityType DEF Linked
  <2>4. r.flow_id = 0 \/ r.flow_id \in 1 .. Cardinality(FlowsPresent)
    BY <2>2, Zenon DEF IdsInOrder
  <2> QED
    BY <2>1, <2>3, <2>4
<1>9. /\ Recorded(e, rows)
      /\ \/ Spans(e, rows)
         \/ /\ rows = {}
            /\ e.first_ts = p.ts /\ e.last_ts = p.ts
            /\ e.first_frame = frame + 1 /\ e.last_frame = frame + 1
  <2>1. CASE k0 \in FlowsPresent
    <3>1. e = flows[k0]
      BY <2>1 DEF Entry
    <3> QED
      BY <2>1, <3>1 DEF History
  <2>2. CASE k0 \notin FlowsPresent
    <3>1. e = NewFlow(next_id, p.ts, frame + 1)
      BY <2>2 DEF Entry, FrameNumber
    <3>4. rows = {}
      BY <1>8, <2>2 DEF RowsOf
    <3>5. /\ e.first_ts = p.ts /\ e.last_ts = p.ts
          /\ e.first_frame = frame + 1 /\ e.last_frame = frame + 1
      BY <3>1 DEF NewFlow
    <3>6. Recorded(e, rows)
      BY <3>1, <3>4, NewRecords
    <3> QED
      BY <3>4, <3>5, <3>6
  <2> QED
    BY <2>1, <2>2
<1>10. frame + 1 \in Nat
  BY DEF FlowTypeOK
<1> HIDE DEF e, rows, new
<1>11. Recorded(flows'[k0], rows \cup {new})
  BY <1>2, <1>3, <1>6, <1>7, <1>9, <1>10, FoldRecords
<1>12. Spans(flows'[k0], rows \cup {new})
  BY <1>2, <1>3, <1>6, <1>9, <1>10, FoldSpans
<1>13. Weighed(flows[k0])'
  <2>1. PICK g : g = flows'[k0]
    OBVIOUS
  <2>2. PICK r : r = new
    OBVIOUS
  <2>3. ASSUME NEW d
        PROVE  /\ Total(Lengths(g, d)) \in Nat
               /\ Total(Lengths(g, d))' =
                    Total(Lengths(g, d)) + (IF Direction(p) = d THEN p.len ELSE 0)
    <3>1. r.packet = p /\ r.flow_id = g.id /\ r.direction = {Direction(p)} /\ seen' = Append(seen, r)
      BY <1>2, <1>3, <2>1, <2>2 DEF Fold, new, e
    <3>2. {Direction(p)} = {d} <=> Direction(p) = d
      OBVIOUS
    <3>3. r.packet \in Packets
      BY <3>1
    <3>4. /\ Total(Lengths(g, d)) \in Nat
          /\ r.direction = {d} => Total(Lengths(g, d))' = Total(Lengths(g, d)) + r.packet.len
          /\ r.direction # {d} => Total(Lengths(g, d))' = Total(Lengths(g, d))
      BY <3>1, <3>3, RowAddsBytes
    <3> QED
      BY <3>1, <3>2, <3>4
  <2>4. \A d : Lengths(g, d) = Lengths(e, d)
    BY <1>3, <2>1 DEF Lengths
  <2>5. \A d \in Dir : e.bytes[d] = Total(Lengths(e, d))
    <3>1. CASE k0 \in FlowsPresent
      <4>1. e = flows[k0]
        BY <3>1 DEF Entry, e
      <4> QED
        BY <3>1, <4>1 DEF History, Weighed
    <3>2. CASE k0 \notin FlowsPresent
      <4>1. \A d \in Dir : e.bytes[d] = 0
        BY <3>2 DEF Entry, e, NewFlow, Both
      <4>2. \A s \in Rows : s.flow_id # e.id
        BY <1>8, <3>2
      <4>3. ASSUME NEW d PROVE Total(Lengths(e, d)) = 0
        <5>1. Lengths(e, d) \in Seq(Nat) /\ Len(Lengths(e, d)) = Len(seen)
          BY LengthsType
        <5>2. \A i \in 1 .. Len(seen) : Lengths(e, d)[i] = 0
          <6>1. \A i \in 1 .. Len(seen) : seen[i] \in Rows
            BY DEF Rows, FlowTypeOK
          <6> QED
            BY <4>2, <6>1 DEF Lengths
        <5> QED
          BY <5>1, <5>2, TotalZero
      <4> QED
        BY <4>1, <4>3
    <3> QED
      BY <3>1, <3>2
  <2>6. g.bytes = [e.bytes EXCEPT ![Direction(p)] = @ + p.len]
    <3>1. FoldsTo(e, p, frame + 1, g)
      BY <1>3, <1>10, <2>1, FoldedFields
    <3> QED
      BY <3>1 DEF FoldsTo
  <2>7. e.bytes \in [Dir -> Nat] /\ p.len \in Nat
    BY <1>3, PacketTypes DEF Flow
  <2>8. \A d \in Dir : g.bytes[d] = Total(Lengths(g, d))'
    BY <2>3, <2>4, <2>5, <2>6, <2>7
  <2> QED
    BY <2>1, <2>8 DEF Weighed
<1>14. ASSUME NEW k \in FlowsPresent'
       PROVE  /\ Recorded(flows'[k], RowsOf(flows[k])')
              /\ Spans(flows'[k], RowsOf(flows[k])')
              /\ Weighed(flows[k])'
  <2>1. CASE k = k0
    BY <1>5, <1>11, <1>12, <1>13, <2>1
  <2>2. CASE k # k0
    <3>1. k \in FlowsPresent
      BY <1>3, <1>14, <2>2
    <3>2. flows'[k] = flows[k] /\ RowsOf(flows[k])' = RowsOf(flows[k])
      BY <1>4, <2>2, <3>1
    <3>3. Weighed(flows[k])'
      <4>1. PICK f, r : f = flows[k] /\ r = new
        OBVIOUS
      <4>2. Weighed(f) /\ flows'[k] = f /\ f.id # e.id
        BY <1>4, <2>2, <3>1, <4>1 DEF History
      <4>3. r.packet \in Packets /\ r.flow_id # f.id /\ seen' = Append(seen, r)
        BY <1>2, <4>1, <4>2 DEF Fold, new, e
      <4>4. \A d : Total(Lengths(f, d)) \in Nat /\ Total(Lengths(f, d))' = Total(Lengths(f, d))
        BY <4>3, RowAddsBytes
      <4> QED
        BY <4>2, <4>4 DEF Weighed
    <3> QED
      BY <3>1, <3>2, <3>3 DEF History
  <2> QED
    BY <2>1, <2>2
<1> QED
  BY <1>14 DEF History

----------------------------------------------------------------------------
LEMMA FlowInitInv == FlowInit => FlowInv
<1> SUFFICES ASSUME FlowInit PROVE FlowInv
  OBVIOUS
<1>1. NoFlow \in Flow /\ NoFlow.id = 0
  BY NewFlowType DEF NoFlow
<1>2. FlowTypeOK
  BY <1>1 DEF FlowInit, FlowTypeOK
<1>3. FlowsPresent = {} /\ Rows = {}
  BY <1>1 DEF FlowInit, FlowsPresent, Rows
<1>4. IsFiniteSet({}) /\ Cardinality({}) = 0
  BY FS_EmptySet
<1>5. IdsInOrder
  BY <1>3, <1>4 DEF FlowInit, IdsInOrder
<1>6. Linked
  BY <1>3, <1>4 DEF Linked
<1>7. History
  BY <1>3 DEF History
<1> QED
  BY <1>2, <1>5, <1>6, <1>7 DEF FlowInv

LEMMA UntrackedInv ==
  ASSUME FlowInv, Untracked
  PROVE  FlowInv'
<1> USE DEF FlowInv
<1>1. UNCHANGED <<flows, next_id, flows_evicted, seen>> /\ frame' = frame + 1
  BY DEF Untracked
<1>2. FlowsPresent' = FlowsPresent /\ Rows' = Rows /\ \A k : RowsOf(flows[k])' = RowsOf(flows[k])
  BY <1>1 DEF FlowsPresent, Rows, RowsOf
<1>3. FlowTypeOK' /\ IdsInOrder'
  BY <1>1, <1>2 DEF FlowTypeOK, IdsInOrder
<1>4. Linked'
  <2>1. \A k \in FlowsPresent : flows[k].first_frame \in Nat
    BY DEF FlowsPresent, FlowTypeOK, Flow
  <2>2. \A k \in FlowsPresent' : flows'[k].first_frame <= frame'
    BY <1>1, <1>2, <2>1 DEF Linked, FlowTypeOK
  <2>3. ASSUME NEW r \in Rows PROVE JoinedItsFlow(r)'
    <3>1. r.frame <= frame'
      BY <1>1, RowTypes DEF Linked, JoinedItsFlow, FlowTypeOK
    <3> QED
      BY <1>1, <1>2, <3>1 DEF Linked, JoinedItsFlow
  <2> QED
    BY <1>1, <1>2, <2>2, <2>3 DEF Linked
<1>5. History'
  <2>1. \A k : Weighed(flows[k])' <=> Weighed(flows[k])
    BY <1>1 DEF Weighed, Lengths
  <2> QED
    BY <1>1, <1>2, <2>1 DEF History
<1> QED
  BY <1>3, <1>4, <1>5

(* A packet refused belongs to no flow and changes none.                   *)
LEMMA EvictInv ==
  ASSUME FlowInv, NEW p \in Packets, Evict(p), frame' = frame + 1
  PROVE  FlowInv'
<1> USE DEF FlowInv
<1>0. PICK new : new = Row(p, 0, {})
  OBVIOUS
<1>1. UNCHANGED <<flows, next_id>> /\ Rows' = Rows \cup {new} /\ FlowsPresent' = FlowsPresent
  BY <1>0, RowsGrow DEF Evict, FlowsPresent
<1>2. new.packet = p /\ new.frame = frame + 1 /\ new.flow_id = 0 /\ new.direction = {}
  BY <1>0 DEF Row, FrameNumber
<1>3. FlowTypeOK'
  <2> DEFINE RowType == [packet : Packet, frame : Nat \ {0}, flow_id : Nat, direction : Option(Dir)]
  <2>1. Row(p, 0, {}) \in RowType
    <3>1. p \in Packet /\ {} \in Option(Dir) /\ frame + 1 \in Nat \ {0}
      BY PacketTypes DEF Option, FlowTypeOK
    <3> QED
      BY <3>1 DEF Row, FrameNumber
  <2>2. seen' \in Seq(RowType)
    BY <2>1 DEF Evict, FlowTypeOK
  <2> QED
    BY <1>1, <2>2 DEF Evict, FlowTypeOK
<1>4. IdsInOrder'
  BY <1>1 DEF IdsInOrder
<1>5. Linked'
  <2>1. \A k \in FlowsPresent : flows[k].first_frame \in Nat
    BY DEF FlowsPresent, FlowTypeOK, Flow
  <2>2. \A k \in FlowsPresent' : flows'[k].first_frame <= frame'
    BY <1>1, <2>1 DEF Linked, FlowTypeOK
  <2>3. ASSUME NEW r \in Rows PROVE JoinedItsFlow(r)'
    <3>1. r.frame <= frame'
      BY RowTypes DEF Linked, JoinedItsFlow, FlowTypeOK
    <3> QED
      BY <1>1, <3>1 DEF Linked, JoinedItsFlow
  <2>4. JoinedItsFlow(new)'
    <3>1. new.frame <= frame'
      BY <1>2 DEF FlowTypeOK
    <3> QED
      BY <1>1, <1>2, <3>1 DEF JoinedItsFlow, Evict, FlowTableFull
  <2>5. IsFiniteSet(Rows')
    BY <1>1, FS_AddElement DEF Linked
  <2> QED
    BY <1>1, <2>2, <2>3, <2>4, <2>5 DEF Linked
<1>6. History'
  <2>1. ASSUME NEW k \in FlowsPresent PROVE RowsOf(flows[k])' = RowsOf(flows[k])
    BY <1>1, <1>2, <2>1 DEF RowsOf, FlowsPresent
  <2>2. ASSUME NEW k \in FlowsPresent PROVE Weighed(flows[k])'
    <3>1. PICK f : f = flows[k]
      OBVIOUS
    <3>2. Weighed(f) /\ f.id # 0 /\ flows'[k] = f /\ seen' = Append(seen, new)
      BY <1>0, <1>1, <2>2, <3>1 DEF History, FlowsPresent, Evict
    <3>3. \A d : Total(Lengths(f, d)) \in Nat /\ Total(Lengths(f, d))' = Total(Lengths(f, d))
      BY <1>2, <3>2, RowAddsBytes
    <3> QED
      BY <3>2, <3>3 DEF Weighed
  <2> QED
    BY <1>1, <2>1, <2>2 DEF History
<1> QED
  BY <1>3, <1>4, <1>5, <1>6

LEMMA FlowNextInv == FlowInv /\ [FlowNext]_flowVars => FlowInv'
<1> SUFFICES ASSUME FlowInv, [FlowNext]_flowVars PROVE FlowInv'
  OBVIOUS
<1>1. CASE Untracked
  BY <1>1, UntrackedInv
<1>2. ASSUME NEW p \in Packets, Observe(p) PROVE FlowInv'
  <2>1. CASE Evict(p)
    BY <1>2, <2>1, EvictInv DEF Observe
  <2>2. CASE Fold(p)
    <3>1. frame' = frame + 1
      BY <1>2 DEF Observe
    <3>2. FlowTypeOK' /\ IdsInOrder' /\ History'
      BY <2>2, <3>1, FoldTypes, FoldNumbers, FoldHistory DEF FlowInv
    <3>3. Linked'
      <4>1. /\ IsFiniteSet(FlowsPresent')
            /\ \A k \in FlowsPresent' : flows'[k].first_frame <= frame'
            /\ \A k, l \in FlowsPresent' : flows'[k].id = flows'[l].id => k = l
        BY <2>2, <3>1, FoldNumbers DEF FlowInv
      <4>2. IsFiniteSet(Rows') /\ \A r \in Rows' : JoinedItsFlow(r)'
        BY <2>2, <3>1, FoldLinks DEF FlowInv
      <4> QED
        BY <4>1, <4>2 DEF Linked
    <3> QED
      BY <3>2, <3>3 DEF FlowInv
  <2> QED
    BY <1>2, <2>1, <2>2 DEF Observe
<1>3. CASE UNCHANGED flowVars
  <2>1. /\ flows' = flows /\ next_id' = next_id /\ flows_evicted' = flows_evicted
        /\ frame' = frame /\ seen' = seen
    BY <1>3 DEF flowVars
  <2>2. FlowsPresent' = FlowsPresent /\ Rows' = Rows
    BY <2>1 DEF FlowsPresent, Rows
  <2>3. FlowTypeOK' /\ IdsInOrder'
    BY <2>1, <2>2 DEF FlowInv, FlowTypeOK, IdsInOrder
  <2>4. Linked'
    BY <2>1, <2>2 DEF FlowInv, Linked, JoinedItsFlow
  <2>5. History'
    <3>1. \A k : Weighed(flows[k])' <=> Weighed(flows[k])
      BY <2>1 DEF Weighed, Lengths
    <3> QED
      BY <2>1, <2>2, <3>1 DEF FlowInv, History, RowsOf
  <2> QED
    BY <2>3, <2>4, <2>5 DEF FlowInv
<1> QED
  BY <1>1, <1>2, <1>3 DEF FlowNext

LEMMA Invariance == FlowSpec => []FlowInv
BY FlowInitInv, FlowNextInv, PTL DEF FlowSpec

----------------------------------------------------------------------------
(* Every variable of the flow table keeps its type, for every capture.     *)
THEOREM FlowTypeCorrect == FlowSpec => []FlowTypeOK
BY Invariance, PTL DEF FlowInv

(* Flows are numbered in the order of their first frames, whatever the     *)
(* capacity: the comparison of a flow's id with next_id in observe never   *)
(* takes an old flow for the one just inserted.                            *)
THEOREM FlowIdsCorrect == FlowSpec => []IdsInOrder
BY Invariance, PTL DEF FlowInv

(* Every packet of a conversation carries its flow's id, and no packet of  *)
(* another does, however the conversations interleave and whichever were   *)
(* refused at capacity.                                                    *)
THEOREM ConversationCorrect == FlowSpec => []OneFlowPerConversation
<1>1. FlowInv => OneFlowPerConversation
  <2> SUFFICES ASSUME FlowInv, NEW r \in Rows, NEW s \in Rows
               PROVE  /\ SameConversation(r.packet, s.packet) => r.flow_id = s.flow_id
                      /\ r.flow_id = s.flow_id /\ r.flow_id # 0 =>
                           SameConversation(r.packet, s.packet)
    BY DEF OneFlowPerConversation
  <2>1. JoinedItsFlow(r) /\ JoinedItsFlow(s)
    BY DEF FlowInv, Linked
  <2>2. Key(r.packet) = Key(s.packet) <=> SameConversation(r.packet, s.packet)
    BY <2>1, KeyIsConversation DEF JoinedItsFlow
  <2> QED
    BY <2>1, <2>2 DEF JoinedItsFlow, FlowInv, Linked
<1> QED
  BY <1>1, Invariance, PTL

(* Every counter, flag, name and bound of a flow is that of the packets    *)
(* that carry its id.                                                      *)
THEOREM HistoryCorrect == FlowSpec => []FlowIsItsHistory
<1>1. FlowInv => FlowIsItsHistory
  BY DEF FlowInv, History, Recorded, Counts, Flags, Names, Spans, Weighed, FlowIsItsHistory
<1> QED
  BY <1>1, Invariance, PTL

(* Which endpoint opened the connection is read off the order of the       *)
(* addresses: for every capture, a handshake opened by the endpoint that   *)
(* sorts second leaves the flow Partial.                                   *)
THEOREM HandshakeCorrect == FlowSpec => []HandshakeByAddressOrder
<1>1. FlowInv => HandshakeByAddressOrder
  <2> SUFFICES ASSUME FlowInv, NEW k \in FlowsPresent, k.proto = 6,
                      Flagged(RowsOf(flows[k]), "fin") = {}, Flagged(RowsOf(flows[k]), "rst") = {}
               PROVE  LET sent(d, flags) ==
                            \E r \in Sent(RowsOf(flows[k]), d) : r.packet.flags = {flags}
                      IN  State(k, flows[k]) = IF ~ sent("c2s", {"syn"}) THEN Partial
                                               ELSE IF sent("s2c", {"syn", "ack"}) THEN Established
                                               ELSE SynSent
    BY DEF HandshakeByAddressOrder
  <2> DEFINE f == flows[k]
             rows == RowsOf(flows[k])
             opened == \E r \in Sent(rows, "c2s") : r.packet.flags = {{"syn"}}
             answered == \E r \in Sent(rows, "s2c") : r.packet.flags = {{"syn", "ack"}}
  <2>1. Flags(f, rows)
    BY DEF FlowInv, History, Recorded
  <2>2. ~ f.saw_reset /\ ~ f.fin["c2s"] /\ ~ f.fin["s2c"]
    <3>1. Flagged(Sent(rows, "c2s"), "fin") = {} /\ Flagged(Sent(rows, "s2c"), "fin") = {}
      BY DEF Flagged, Sent
    <3>2. "c2s" \in Dir /\ "s2c" \in Dir
      BY DEF Dir
    <3> HIDE DEF f, rows
    <3> QED
      BY <2>1, <3>1, <3>2 DEF Flags, rows
  <2>3. ASSUME NEW r \in rows
        PROVE  /\ "syn" \in UNION r.packet.flags /\ "ack" \notin UNION r.packet.flags
                    <=> r.packet.flags = {{"syn"}}
               /\ "syn" \in UNION r.packet.flags /\ "ack" \in UNION r.packet.flags
                    <=> r.packet.flags = {{"syn", "ack"}}
    <3>1. "fin" \notin UNION r.packet.flags /\ "rst" \notin UNION r.packet.flags
      BY <2>3 DEF Flagged
    <3>2. r.packet \in Packets
      BY <2>3, RowTypes DEF RowsOf, FlowInv
    <3>3. r.packet.flags \in Option(SUBSET Flag)
      BY <3>2, FlowAssumption DEF Packet
    <3>4. CASE r.packet.flags = {}
      BY <3>4
    <3>5. ASSUME NEW x \in SUBSET Flag, r.packet.flags = {x} 
          PROVE  /\ "syn" \in UNION r.packet.flags /\ "ack" \notin UNION r.packet.flags
                      <=> r.packet.flags = {{"syn"}}
                 /\ "syn" \in UNION r.packet.flags /\ "ack" \in UNION r.packet.flags
                      <=> r.packet.flags = {{"syn", "ack"}}
      <4>1. UNION r.packet.flags = x
        BY <3>5
      <4>2. x \subseteq {"syn", "ack"}
        BY <3>1, <3>5, <4>1 DEF Flag
      <4>3. \A y : {x} = {y} <=> x = y
        OBVIOUS
      <4>4. /\ "syn" \in x /\ "ack" \notin x <=> x = {"syn"}
            /\ "syn" \in x /\ "ack" \in x <=> x = {"syn", "ack"}
        BY <4>2
      <4> QED
        BY <3>5, <4>1, <4>3, <4>4
    <3> QED
      BY <3>3, <3>4, <3>5 DEF Option
  <2>4. f.syn_c2s <=> opened
    <3>1. f.syn_c2s <=> \E r \in rows : /\ r.direction = {"c2s"} /\ "syn" \in UNION r.packet.flags
                                        /\ "ack" \notin UNION r.packet.flags
      <4>1. f.syn_c2s <=> Flagged(Sent(rows, "c2s"), "syn") \ Flagged(rows, "ack") # {}
        BY <2>1 DEF Flags
      <4> HIDE DEF f, rows
      <4> QED
        BY <4>1 DEF Flagged, Sent
    <3> HIDE DEF f, rows
    <3> QED
      BY <2>3, <3>1 DEF Sent
  <2>5. f.synack_s2c <=> answered
    <3>1. f.synack_s2c <=> \E r \in rows : /\ r.direction = {"s2c"} /\ "syn" \in UNION r.packet.flags
                                           /\ "ack" \in UNION r.packet.flags
      <4>1. f.synack_s2c <=> Flagged(Sent(rows, "s2c"), "syn") \cap Flagged(rows, "ack") # {}
        BY <2>1 DEF Flags
      <4> HIDE DEF f, rows
      <4> QED
        BY <4>1 DEF Flagged, Sent
    <3> HIDE DEF f, rows
    <3> QED
      BY <2>3, <3>1 DEF Sent
  <2>6. State(k, f) = IF ~ opened THEN Partial ELSE IF answered THEN Established ELSE SynSent
    <3> HIDE DEF f, rows, opened, answered
    <3> QED
      BY <2>2, <2>4, <2>5 DEF State
  <2> QED
    BY <2>6
<1> QED
  BY <1>1, Invariance, PTL

(* No packet, in whatever order SYN, FIN and RST come, takes the state of  *)
(* a flow back.                                                            *)
THEOREM StateOnlyAdvances == FlowSpec => StateAdvances
<1>1. ASSUME FlowInv, [FlowNext]_flowVars, NEW k \in FlowsPresent
      PROVE  State(k, flows[k]) <= State(k, flows'[k])
  <2>1. \A f : State(k, f) \in Int
    BY DEF State, Partial, SynSent, Established, Closing, Closed, Reset
  <2>2. CASE flows'[k] = flows[k]
    BY <2>1, <2>2
  <2>3. ASSUME NEW p \in Packets, Fold(p), k = Key(p)
        PROVE  State(k, flows[k]) <= State(k, flows'[k])
    <3> DEFINE f == flows[k]
               g == flows'[k]
    <3>1. f \in Flow /\ frame + 1 \in Nat
      BY <1>1 DEF FlowInv, FlowTypeOK, FlowsPresent
    <3>2. g = Folded(f, p, frame + 1)
      <4>1. Entry(p) = f
        BY <1>1, <2>3 DEF Entry
      <4> QED
        BY <1>1, <2>3, <4>1, FoldFacts DEF FlowInv
    <3>3. FoldsTo(f, p, frame + 1, g)
      BY <3>1, <3>2, FoldedFields
    <3>4. /\ f.saw_reset => g.saw_reset
          /\ f.syn_c2s => g.syn_c2s
          /\ f.synack_s2c => g.synack_s2c
      BY <3>3 DEF FoldsTo
    <3>5. ASSUME NEW d \in Dir PROVE f.fin[d] => g.fin[d]
      <4>1. f.fin \in [Dir -> BOOLEAN]
        BY <3>1 DEF Flow
      <4>2. g.fin = [f.fin EXCEPT ![Direction(p)] = @ \/ "fin" \in UNION p.flags]
        BY <3>3 DEF FoldsTo
      <4> HIDE DEF f, g
      <4> QED
        BY <4>1, <4>2
    <3>6. (f.fin["c2s"] => g.fin["c2s"]) /\ (f.fin["s2c"] => g.fin["s2c"])
      BY <3>5 DEF Dir
    <3> HIDE DEF f, g
    <3>7. State(k, f) <= State(k, g)
      BY <3>4, <3>6 DEF State, Partial, SynSent, Established, Closing, Closed, Reset
    <3> QED
      BY <3>7 DEF f, g
  <2>4. ASSUME NEW p \in Packets, Fold(p), k # Key(p) PROVE flows'[k] = flows[k]
    BY <1>1, <2>4, FoldFacts DEF FlowInv, FlowsPresent
  <2> QED
    BY <1>1, <2>2, <2>3, <2>4 DEF FlowNext, Observe, Untracked, Evict, flowVars
<1>2. FlowInv /\ [FlowNext]_flowVars => [\A k \in FlowsPresent : State(k, flows[k]) <= State(k, flows'[k])]_flowVars
  BY <1>1
<1> QED
  BY <1>2, Invariance, PTL DEF FlowSpec, StateAdvances
============================================================================
