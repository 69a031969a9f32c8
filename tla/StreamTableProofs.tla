------------------------- MODULE StreamTableProofs -------------------------
(***************************************************************************)
(* What TCP reassembly guarantees for every capacity, every modulus of     *)
(* sequence numbers and every order in which segments come: the limits     *)
(* hold, the prefix handed to dissection was received at those sequence    *)
(* numbers, never changes, and ends only where the code gives up.          *)
(***************************************************************************)
EXTENDS StreamTable, FiniteSetTheorems, SequenceTheorems, NaturalsInduction, WellFoundedInduction, TLAPS

(* A set of naturals that is not empty has a least element.                *)
LEMMA LeastNatural ==
  ASSUME NEW T \in SUBSET Nat, T # {}
  PROVE  \E m \in T : \A n \in T : m <= n
<1>1. PICK m \in T : \A n \in T : ~ (<<n, m>> \in OpToRel(<, Nat))
  BY NatLessThanWellFounded, WFMin, Zenon
<1>2. \A n \in T : ~ (n < m)
  BY <1>1, Zenon DEF OpToRel
<1> QED
  BY <1>2

----------------------------------------------------------------------------
(* Sequence numbers close to one another, on either side of the wrap.      *)
LEMMA ModNear ==
  ASSUME NEW S \in Nat \ {0}, NEW x \in Int
  PROVE  /\ 0 <= x /\ x < S => x % S = x
         /\ S <= x /\ x < 2 * S => x % S = x - S
         /\ -S <= x /\ x < 0 => x % S = x + S
<1>1. ASSUME 0 <= x, x < S PROVE x % S = x
  BY <1>1
<1>2. ASSUME S <= x, x < 2 * S PROVE x % S = x - S
  BY <1>2
<1>3. ASSUME -S <= x, x < 0 PROVE x % S = x + S
  BY <1>3
<1> QED
  BY <1>1, <1>2, <1>3

LEMMA WrapSubIs ==
  ASSUME NEW seq \in SeqNum, NEW base \in SeqNum
  PROVE  /\ WrapSub(seq, base) = IF base <= seq THEN seq - base ELSE seq - base + SeqSpace
         /\ WrapSub(seq, base) \in SeqNum
<1>1. /\ SeqSpace \in Nat \ {0} /\ seq - base \in Int
      /\ -SeqSpace <= seq - base /\ seq - base < SeqSpace
  BY StreamAssumption DEF SeqNum
<1>2. WrapSub(seq, base) = IF base <= seq THEN seq - base ELSE seq - base + SeqSpace
  <2>1. PICK x \in Int : x = seq - base
    BY <1>1
  <2>2. x % SeqSpace = IF 0 <= x THEN x ELSE x + SeqSpace
    BY <1>1, <2>1, ModNear
  <2> QED
    BY <2>1, <2>2 DEF WrapSub, SeqNum
<1> QED
  BY <1>1, <1>2 DEF SeqNum

LEMMA WrapAddIs ==
  ASSUME NEW base \in SeqNum, NEW n \in 0 .. SeqSpace
  PROVE  /\ WrapAdd(base, n) = IF base + n < SeqSpace THEN base + n ELSE base + n - SeqSpace
         /\ WrapAdd(base, n) \in SeqNum
<1>1. /\ SeqSpace \in Nat \ {0} /\ base + n \in Int
      /\ 0 <= base + n /\ base + n < 2 * SeqSpace
  BY StreamAssumption DEF SeqNum
<1>2. WrapAdd(base, n) = IF base + n < SeqSpace THEN base + n ELSE base + n - SeqSpace
  <2>1. PICK x \in Int : x = base + n
    BY <1>1
  <2>2. x % SeqSpace = IF x < SeqSpace THEN x ELSE x - SeqSpace
    BY <1>1, <2>1, ModNear
  <2> QED
    BY <1>1, <2>1, <2>2 DEF WrapAdd, SeqNum
<1> QED
  BY <1>1, <1>2 DEF SeqNum

(* Byte p of the stream is byte p - o of a segment o behind its start.     *)
LEMMA SameNumber ==
  ASSUME NEW q \in SeqNum, NEW base \in SeqNum, NEW p \in 1 .. SeqSpace,
         NEW o, o = WrapSub(q, base), o < p
  PROVE  WrapAdd(q, p - o - 1) = WrapAdd(base, p - 1)
<1>1. /\ SeqSpace \in Int /\ q \in Int /\ base \in Int /\ p \in Int /\ o \in Int
      /\ 0 <= q /\ q < SeqSpace /\ 0 <= base /\ base < SeqSpace
      /\ 1 <= p /\ p <= SeqSpace /\ 0 <= o
  BY WrapSubIs, StreamAssumption DEF SeqNum
<1>2. /\ base <= q => o = q - base
      /\ q < base => o = q - base + SeqSpace
  BY <1>1, WrapSubIs
<1>3. p - o - 1 \in 0 .. SeqSpace /\ p - 1 \in 0 .. SeqSpace
  BY <1>1
<1>4. PICK m \in 0 .. SeqSpace : m = p - o - 1
  BY <1>3
<1>5. WrapAdd(q, m) = IF q + m < SeqSpace THEN q + m ELSE q + m - SeqSpace
  BY WrapAddIs
<1>6. PICK l \in 0 .. SeqSpace : l = p - 1
  BY <1>3
<1>7. WrapAdd(base, l) = IF base + l < SeqSpace THEN base + l ELSE base + l - SeqSpace
  BY WrapAddIs
<1>8. WrapAdd(q, m) = WrapAdd(base, l)
  BY <1>1, <1>2, <1>4, <1>5, <1>6, <1>7
<1> QED
  BY <1>4, <1>6, <1>8

LEMMA CarriesAt ==
  ASSUME NEW g \in Segment, NEW base \in SeqNum, NEW p \in 1 .. SeqSpace,
         NEW o, o = WrapSub(g.seq, base), o < p, p - o <= Len(g.data)
  PROVE  Carries(g, WrapAdd(base, p - 1), g.data[p - o])
<1>1. g.seq \in SeqNum /\ g.data \in Seq(Byte)
  BY DEF Segment
<1>2. WrapAdd(g.seq, p - o - 1) = WrapAdd(base, p - 1)
  BY <1>1, SameNumber
<1>3. o \in Int
  <2>1. o \in SeqNum
    BY <1>1, WrapSubIs
  <2> QED
    BY <2>1, StreamAssumption DEF SeqNum
<1>4. PICK n \in 1 .. Len(g.data) : n = p - o
  BY <1>1, <1>3
<1>5. n - 1 = p - o - 1
  BY <1>4
<1> QED
  BY <1>2, <1>4, <1>5 DEF Carries

(* A segment sits flush against the buffer iff that is its offset.         *)
LEMMA FlushOffset ==
  ASSUME NEW seq \in SeqNum, NEW base \in SeqNum, NEW n \in 0 .. SeqSpace
  PROVE  /\ seq = WrapAdd(base, n) /\ n < SeqSpace => WrapSub(seq, base) = n
         /\ seq = WrapAdd(base, n) /\ n = SeqSpace => WrapSub(seq, base) = 0
         /\ WrapSub(seq, base) = n => seq = WrapAdd(base, n)
<1>1. WrapAdd(base, n) = IF base + n < SeqSpace THEN base + n ELSE base + n - SeqSpace
  BY WrapAddIs
<1>2. WrapSub(seq, base) = IF base <= seq THEN seq - base ELSE seq - base + SeqSpace
  BY WrapSubIs
<1> QED
  BY <1>1, <1>2, StreamAssumption DEF SeqNum

----------------------------------------------------------------------------
(* The turns of the drain loop are those that Drain defines by recursion:  *)
(* they exist, and stay in every set that a turn stays in.                 *)
Turns(s, N, f) == f[0] = s /\ \A n \in 1 .. N : f[n] = DrainOne(f[n - 1])

LEMMA TurnsExist ==
  ASSUME NEW s, NEW N \in Nat, NEW D, s \in D, \A x \in D : DrainOne(x) \in D
  PROVE  \E f \in [0 .. N -> D] : Turns(s, N, f)
<1> DEFINE T == {m \in 0 .. N : ~ \E f \in [0 .. m -> D] : Turns(s, m, f)}
<1>1. CASE T = {}
  BY <1>1
<1>2. CASE T # {}
  <2>1. PICK m \in T : \A n \in T : m <= n
    <3>1. T \in SUBSET Nat
      OBVIOUS
    <3> HIDE DEF T
    <3> QED
      BY <1>2, <3>1, LeastNatural
  <2>2. m \in 0 .. N /\ ~ \E f \in [0 .. m -> D] : Turns(s, m, f)
    BY <2>1
  <2>3. m # 0
    <3>1. [n \in 0 .. 0 |-> s] \in [0 .. 0 -> D] /\ Turns(s, 0, [n \in 0 .. 0 |-> s])
      BY DEF Turns
    <3> QED
      BY <2>2, <3>1
  <2>4. m - 1 \in 0 .. N /\ m - 1 \notin T /\ m \in Nat
    <3>1. m \in Nat /\ m - 1 \in 0 .. N
      BY <2>2, <2>3
    <3> HIDE DEF T
    <3> QED
      BY <2>1, <3>1
  <2>5. PICK f \in [0 .. (m - 1) -> D] : Turns(s, m - 1, f)
    BY <2>4
  <2> DEFINE h == [n \in 0 .. m |-> IF n = m THEN DrainOne(f[m - 1]) ELSE f[n]]
  <2>6. h \in [0 .. m -> D] /\ Turns(s, m, h)
    BY <2>2, <2>3, <2>4, <2>5 DEF Turns
  <2> QED
    BY <2>2, <2>6
<1> QED
  BY <1>1, <1>2

LEMMA TurnsAgree ==
  ASSUME NEW s, NEW N \in Nat, NEW f, Turns(s, N, f), NEW h, Turns(s, N, h)
  PROVE  f[N] = h[N]
<1> DEFINE T == {m \in 0 .. N : f[m] # h[m]}
<1>1. CASE T = {}
  BY <1>1
<1>2. CASE T # {}
  <2>1. PICK m \in T : \A n \in T : m <= n
    <3>1. T \in SUBSET Nat
      OBVIOUS
    <3> HIDE DEF T
    <3> QED
      BY <1>2, <3>1, LeastNatural
  <2>2. m \in 0 .. N /\ f[m] # h[m] /\ m \in Nat
    BY <2>1
  <2>3. m # 0
    BY <2>2 DEF Turns
  <2>4. m - 1 \in 0 .. N /\ m - 1 \notin T
    BY <2>1, <2>2, <2>3
  <2>5. f[m] = DrainOne(f[m - 1]) /\ h[m] = DrainOne(h[m - 1])
    BY <2>2, <2>3 DEF Turns
  <2> QED
    BY <2>2, <2>4, <2>5
<1> QED
  BY <1>1, <1>2

LEMMA DrainTurns ==
  ASSUME NEW s, Len(s.pending) \in Nat, NEW D, s \in D, \A x \in D : DrainOne(x) \in D
  PROVE  \E f \in [0 .. Len(s.pending) -> D] :
            Turns(s, Len(s.pending), f) /\ Drain(s) = f[Len(s.pending)]
<1> DEFINE N == Len(s.pending)
           Is(t) == t = [n \in 0 .. N |-> IF n = 0 THEN s ELSE DrainOne(t[n - 1])]
           c == CHOOSE t : Is(t)
<1>1. PICK f \in [0 .. N -> D] : Turns(s, N, f)
  BY TurnsExist
<1>2. Is(f)
  BY <1>1 DEF Turns
<1>3. Is(c)
  BY <1>2
<1>4. Drain(s) = c[N]
  BY DEF Drain
<1>5. Turns(s, N, c)
  <2>1. c = [n \in 0 .. N |-> IF n = 0 THEN s ELSE DrainOne(c[n - 1])]
    BY <1>3
  <2> HIDE DEF c
  <2>2. \A n \in 0 .. N : c[n] = IF n = 0 THEN s ELSE DrainOne(c[n - 1])
    BY <2>1
  <2> QED
    BY <2>2 DEF Turns
<1> HIDE DEF c, N
<1>6. f[N] = c[N]
  BY <1>1, <1>5, TurnsAgree DEF N
<1> QED
  BY <1>1, <1>4, <1>6 DEF N

----------------------------------------------------------------------------
(* One stream against the set G of the segments pushed to it.  Where a     *)
(* segment starts in it:                                                   *)
Offset(x, g) == WrapSub(g.seq, x.base_seq)

BufLen(x) == Len(x.buf)
DataLen(g) == Len(g.data)
PendLen(x) == Len(x.pending)

(* Segments as push accepts them.                                          *)
Pushed(G) == \A g \in G : g \in Segment /\ g.data \in SegPayloads /\ g.data # <<>>

Genuine(x, G) ==
  \A p \in 1 .. BufLen(x) : \E g \in G : Carries(g, WrapAdd(x.base_seq, p - 1), x.buf[p])

(* What waits was received, and starts behind the buffer's first byte and  *)
(* below the cap, so that being flush against the buffer is having its     *)
(* length as offset.                                                       *)
Held(x, G) ==
  \A j \in DOMAIN x.pending :
    /\ x.pending[j] \in G
    /\ 0 < Offset(x, x.pending[j])
    /\ Offset(x, x.pending[j]) < MaxStreamBytes

Waiting(x, g) == \E j \in DOMAIN x.pending : x.pending[j] = g

(* Until the stream is marked truncated, a segment that reaches past the   *)
(* buffer is waiting, unless it starts beyond the cap.                     *)
Complete(x, G) ==
  \A g \in G : Offset(x, g) < MaxStreamBytes /\ Offset(x, g) + DataLen(g) > BufLen(x) => Waiting(x, g)

(* A stream between the turns of the drain loop: the cap comes after it.   *)
Sound(x, G) ==
  /\ x \in Stream
  /\ x.base_seq # None
  /\ BufLen(x) <= SeqSpace
  /\ Genuine(x, G)
  /\ Held(x, G)
  /\ ~ x.truncated => Complete(x, G)

(* The invariant of a stream that is held.                                 *)
Whole(x, G) ==
  /\ Sound(x, G)
  /\ BufLen(x) <= MaxStreamBytes
  /\ PendLen(x) <= MaxPending
  /\ ~ x.truncated => Flush(x) = {}

Got(k) == {rcvd[k][i] : i \in DOMAIN rcvd[k]}

AbsentIsEmpty ==
  \A k \in StreamKeys : k \notin StreamsPresent => streams[k] = NoStream /\ rcvd[k] = <<>>

HeldIsWhole ==
  \A k \in StreamsPresent : /\ Pushed(Got(k))
                     /\ Whole(streams[k], Got(k))
                     /\ Len(streams[k].pending) < Len(rcvd[k])

StreamInv ==
  /\ StreamTypeOK
  /\ Cardinality(StreamsPresent) <= MaxStreams
  /\ AbsentIsEmpty
  /\ HeldIsWhole
  /\ UncountedLossIsOverflow

----------------------------------------------------------------------------
LEMMA OffsetType ==
  ASSUME NEW x \in Stream, x.base_seq # None, NEW g \in Segment
  PROVE  /\ x.base_seq \in SeqNum /\ g.seq \in SeqNum
         /\ Offset(x, g) \in SeqNum /\ Offset(x, g) \in Nat /\ Offset(x, g) < SeqSpace
<1>1. x.base_seq \in SeqNum /\ g.seq \in SeqNum
  BY DEF Stream, Segment
<1>2. Offset(x, g) \in SeqNum
  BY <1>1, WrapSubIs DEF Offset
<1> QED
  BY <1>1, <1>2, StreamAssumption DEF SeqNum

LEMMA BufLenType ==
  ASSUME NEW x \in Stream
  PROVE  /\ x.buf \in Seq(Byte) /\ BufLen(x) \in Nat
         /\ x.pending \in Seq(Segment) /\ PendLen(x) \in Nat
BY DEF Stream, BufLen, PendLen

LEMMA DataType ==
  ASSUME NEW G, Pushed(G), NEW g \in G
  PROVE  /\ g \in Segment /\ g.data \in Seq(Byte)
         /\ DataLen(g) \in Nat /\ DataLen(g) > 0
         /\ MaxStreamBytes + DataLen(g) <= SeqSpace
<1>1. g \in Segment /\ g.data \in SegPayloads /\ g.data # <<>>
  BY DEF Pushed
<1>2. g.data \in Seq(Byte)
  BY <1>1 DEF Segment
<1>3. DataLen(g) \in Nat /\ DataLen(g) > 0
  BY <1>1, <1>2 DEF DataLen
<1>4. \A p \in SegPayloads : MaxStreamBytes + Len(p) <= SeqSpace
  BY StreamAssumption
<1>5. MaxStreamBytes + DataLen(g) <= SeqSpace
  BY <1>1, <1>4, Zenon DEF DataLen
<1> QED
  BY <1>1, <1>2, <1>3, <1>5

(* A waiting segment is flush against the buffer iff its offset is the     *)
(* length of the buffer.                                                   *)
LEMMA FlushIs ==
  ASSUME NEW x \in Stream, x.base_seq # None, BufLen(x) <= SeqSpace,
         NEW g \in Segment, 0 < Offset(x, g)
  PROVE  g.seq = BufEnd(x) <=> Offset(x, g) = BufLen(x)
<1>1. /\ x.base_seq \in SeqNum /\ g.seq \in SeqNum
      /\ BufLen(x) \in 0 .. SeqSpace
  BY OffsetType, BufLenType, StreamAssumption
<1>2. BufEnd(x) = WrapAdd(x.base_seq, BufLen(x))
  BY DEF BufEnd, BufLen
<1>3. Offset(x, g) = WrapSub(g.seq, x.base_seq)
  BY DEF Offset
<1>4. /\ g.seq = BufEnd(x) /\ BufLen(x) < SeqSpace => Offset(x, g) = BufLen(x)
      /\ g.seq = BufEnd(x) /\ BufLen(x) = SeqSpace => Offset(x, g) = 0
      /\ Offset(x, g) = BufLen(x) => g.seq = BufEnd(x)
  BY <1>1, <1>2, <1>3, FlushOffset
<1> QED
  BY <1>1, <1>4, OffsetType, StreamAssumption

LEMMA Joined ==
  ASSUME NEW S, NEW u \in Seq(S), NEW w \in Seq(S)
  PROVE  /\ u \o w \in Seq(S)
         /\ Len(u) \in Nat /\ Len(w) \in Nat /\ Len(u \o w) = Len(u) + Len(w)
         /\ \A p \in 1 .. Len(u) : (u \o w)[p] = u[p]
         /\ \A p \in (Len(u) + 1) .. Len(u \o w) : (u \o w)[p] = w[p - Len(u)]
OBVIOUS

(* What a turn of the drain loop that finds a flush segment does.          *)
TurnTakes(x, i, y) ==
  /\ y \in Stream
  /\ y.base_seq = x.base_seq /\ y.truncated = x.truncated
  /\ y.buf = x.buf \o x.pending[i].data
  /\ y.pending = DropAt(x.pending, i)

LEMMA DropAtType ==
  ASSUME NEW S, NEW q \in Seq(S), NEW i \in DOMAIN q
  PROVE  /\ DropAt(q, i) \in Seq(S)
         /\ Len(DropAt(q, i)) = Len(q) - 1
         /\ \A j \in DOMAIN DropAt(q, i) : \E l \in DOMAIN q : DropAt(q, i)[j] = q[l]
         /\ \A l \in DOMAIN q : l # i => \E j \in DOMAIN DropAt(q, i) : DropAt(q, i)[j] = q[l]
<1> DEFINE d == DropAt(q, i)
<1>1. /\ Len(q) \in Nat /\ DOMAIN q = 1 .. Len(q) /\ i \in 1 .. Len(q) /\ Len(q) - 1 \in Nat
  OBVIOUS
<1>2. d = [j \in 1 .. (Len(q) - 1) |-> IF j < i THEN q[j] ELSE q[j + 1]]
  BY DEF DropAt
<1>3. /\ DOMAIN d = 1 .. (Len(q) - 1)
      /\ \A j \in 1 .. (Len(q) - 1) : d[j] = IF j < i THEN q[j] ELSE q[j + 1]
  BY <1>2
<1>4. d \in [1 .. (Len(q) - 1) -> S]
  BY <1>1, <1>2
<1> HIDE DEF d
<1>5. d \in Seq(S) /\ Len(d) = Len(q) - 1
  <2>1. PICK n \in Nat : n = Len(q) - 1
    BY <1>1
  <2>2. d \in [1 .. n -> S]
    BY <1>4, <2>1
  <2>3. d \in Seq(S) /\ Len(d) = n
    BY <2>2
  <2> QED
    BY <2>1, <2>3
<1>6. \A j \in DOMAIN d : \E l \in DOMAIN q : d[j] = q[l]
  BY <1>1, <1>3
<1>7. ASSUME NEW l \in DOMAIN q, l # i
      PROVE  \E j \in DOMAIN d : d[j] = q[l]
  <2>1. CASE l < i
    BY <1>1, <1>3, <2>1
  <2>2. CASE ~ (l < i)
    <3>1. l - 1 \in DOMAIN d /\ ~ (l - 1 < i) /\ (l - 1) + 1 = l
      BY <1>1, <1>3, <1>7, <2>2
    <3>2. d[l - 1] = q[l]
      BY <1>3, <3>1
    <3> QED
      BY <3>1, <3>2
  <2> QED
    BY <2>1, <2>2
<1> QED
  BY <1>5, <1>6, <1>7 DEF d

LEMMA DrainOneTakes ==
  ASSUME NEW x \in Stream, Flush(x) # {}
  PROVE  \E i \in Flush(x) : TurnTakes(x, i, DrainOne(x))
<1>1. Flush(x) \in SUBSET Nat
  BY DEF Flush, Stream
<1>2. \E i \in Flush(x) : \A j \in Flush(x) : i <= j
  BY <1>1, LeastNatural
<1> DEFINE i == CHOOSE i \in Flush(x) : \A j \in Flush(x) : i <= j
<1>3. i \in Flush(x)
  BY <1>2
<1>4. DrainOne(x) = [x EXCEPT !.buf = @ \o x.pending[i].data, !.pending = DropAt(@, i)]
  BY DEF DrainOne
<1> HIDE DEF i
<1>5. i \in DOMAIN x.pending /\ x.pending \in Seq(Segment) /\ x.buf \in Seq(Byte)
  BY <1>3 DEF Flush, Stream
<1>6. x.pending[i] \in Segment
  BY <1>5
<1>7. x.pending[i].data \in Seq(Byte)
  BY <1>6 DEF Segment
<1>8. DropAt(x.pending, i) \in Seq(Segment)
  BY <1>5, DropAtType
<1>9. x.buf \o x.pending[i].data \in Seq(Byte)
  BY <1>5, <1>7
<1>10. PICK b \in Seq(Byte), q \in Seq(Segment) :
          b = x.buf \o x.pending[i].data /\ q = DropAt(x.pending, i)
  BY <1>8, <1>9
<1>11. DrainOne(x) = [x EXCEPT !.buf = b, !.pending = q]
  BY <1>4, <1>10
<1>12. PICK y : y = DrainOne(x)
  OBVIOUS
<1>13. /\ y \in Stream /\ y.base_seq = x.base_seq /\ y.truncated = x.truncated
       /\ y.buf = b /\ y.pending = q
  BY <1>11, <1>12 DEF Stream
<1>14. TurnTakes(x, i, DrainOne(x))
  BY <1>10, <1>12, <1>13 DEF TurnTakes
<1> QED
  BY <1>3, <1>14

(* The buffer of x is kept by y.                                           *)
Extends(x, y) ==
  /\ y.base_seq = x.base_seq
  /\ BufLen(x) <= BufLen(y)
  /\ \A p \in 1 .. BufLen(x) : y.buf[p] = x.buf[p]

(* Bytes of a segment appended where they belong.                          *)
LEMMA GenuineGrows ==
  ASSUME NEW x \in Stream, x.base_seq # None, NEW y \in Stream, Extends(x, y),
         NEW G, Genuine(x, G), NEW g \in Segment,
         BufLen(y) <= SeqSpace, Offset(x, g) <= BufLen(x),
         BufLen(y) <= Offset(x, g) + DataLen(g),
         \A p \in (BufLen(x) + 1) .. BufLen(y) : y.buf[p] = g.data[p - Offset(x, g)]
  PROVE  Genuine(y, G \cup {g})
<1> DEFINE o == Offset(x, g)
<1>1. /\ x.base_seq \in SeqNum /\ y.base_seq = x.base_seq /\ o \in Nat
      /\ BufLen(x) \in Nat /\ BufLen(y) \in Nat /\ DataLen(g) \in Nat /\ SeqSpace \in Nat
  <2>1. y.base_seq = x.base_seq
    BY DEF Extends
  <2>2. BufLen(x) \in Nat /\ BufLen(y) \in Nat /\ DataLen(g) \in Nat
    BY BufLenType DEF Segment, DataLen
  <2>3. x.base_seq \in SeqNum /\ o \in Nat
    BY OffsetType
  <2>4. SeqSpace \in Nat
    BY StreamAssumption
  <2> QED
    BY <2>1, <2>2, <2>3, <2>4
<1>2. SUFFICES ASSUME NEW p \in 1 .. BufLen(y)
               PROVE  \E h \in G \cup {g} : Carries(h, WrapAdd(y.base_seq, p - 1), y.buf[p])
  BY DEF Genuine
<1>3. CASE p <= BufLen(x)
  <2>1. p \in 1 .. BufLen(x) /\ y.buf[p] = x.buf[p]
    BY <1>1, <1>3 DEF Extends
  <2> QED
    BY <1>1, <2>1 DEF Genuine
<1>4. CASE ~ (p <= BufLen(x))
  <2>1. p \in (BufLen(x) + 1) .. BufLen(y) /\ p \in 1 .. SeqSpace /\ o < p /\ p - o <= DataLen(g)
    BY <1>1, <1>4
  <2>2. y.buf[p] = g.data[p - o]
    BY <2>1
  <2>3. o = WrapSub(g.seq, x.base_seq)
    BY DEF Offset
  <2> HIDE DEF o
  <2>4. Carries(g, WrapAdd(x.base_seq, p - 1), g.data[p - o])
    <3>1. p - o <= Len(g.data)
      BY <2>1, Zenon DEF DataLen
    <3> QED
      BY <1>1, <2>1, <2>3, <3>1, CarriesAt
  <2> QED
    BY <1>1, <2>2, <2>4
<1> QED
  BY <1>3, <1>4

(* A turn of the loop keeps the stream sound and its prefix.               *)
LEMMA TurnKeeps ==
  ASSUME NEW G, Pushed(G), NEW x, Sound(x, G), NEW i \in Flush(x), NEW y, TurnTakes(x, i, y)
  PROVE  Sound(y, G) /\ Extends(x, y) /\ PendLen(y) = PendLen(x) - 1
<1>0. PICK g : g = x.pending[i]
  OBVIOUS
<1>1. /\ x \in Stream /\ x.base_seq # None /\ BufLen(x) <= SeqSpace
      /\ i \in DOMAIN x.pending /\ g.seq = BufEnd(x)
      /\ g \in G /\ 0 < Offset(x, g) /\ Offset(x, g) < MaxStreamBytes
  BY <1>0 DEF Sound, Held, Flush
<1>2. /\ g \in Segment /\ g.data \in Seq(Byte)
      /\ DataLen(g) \in Nat /\ DataLen(g) > 0 /\ MaxStreamBytes + DataLen(g) <= SeqSpace
  BY <1>1, DataType
<1>3. Offset(x, g) = BufLen(x)
  BY <1>1, <1>2, FlushIs
<1>4. /\ x.buf \in Seq(Byte) /\ BufLen(x) \in Nat /\ x.pending \in Seq(Segment)
      /\ MaxStreamBytes \in Nat /\ SeqSpace \in Nat
  BY <1>1, BufLenType, StreamAssumption DEF Stream
<1>5. /\ y \in Stream /\ y.base_seq = x.base_seq /\ y.truncated = x.truncated
      /\ y.buf = x.buf \o g.data /\ y.pending = DropAt(x.pending, i)
  BY <1>0 DEF TurnTakes
<1>6. \A h : Offset(y, h) = Offset(x, h)
  BY <1>5 DEF Offset
<1>7. /\ BufLen(y) = BufLen(x) + DataLen(g)
      /\ \A p \in 1 .. BufLen(x) : y.buf[p] = x.buf[p]
      /\ \A p \in (BufLen(x) + 1) .. BufLen(y) : y.buf[p] = g.data[p - BufLen(x)]
  <2>1. PICK u \in Seq(Byte), w \in Seq(Byte) : u = x.buf /\ w = g.data
    BY <1>2, <1>4
  <2>2. PICK v : v = u \o w /\ v = y.buf
    BY <1>5, <2>1
  <2>3. /\ Len(v) = Len(u) + Len(w)
        /\ \A p \in 1 .. Len(u) : v[p] = u[p]
        /\ \A p \in (Len(u) + 1) .. Len(v) : v[p] = w[p - Len(u)]
    <3>1. u \in Seq(Byte) /\ w \in Seq(Byte)
      BY <2>1
    <3>2. v = u \o w
      BY <2>2
    <3> QED
      BY <3>1, <3>2, Joined
  <2>4. Len(u) = BufLen(x) /\ Len(w) = DataLen(g) /\ Len(v) = BufLen(y)
    BY <2>1, <2>2, Zenon DEF BufLen, DataLen
  <2> QED
    BY <2>1, <2>2, <2>3, <2>4, Zenon
<1>8. Extends(x, y)
  <2>1. BufLen(x) <= BufLen(y)
    BY <1>2, <1>4, <1>7
  <2>2. Len(x.buf) <= Len(y.buf) /\ \A p \in 1 .. Len(x.buf) : y.buf[p] = x.buf[p]
    BY <1>7, <2>1, Zenon DEF BufLen
  <2> QED
    BY <1>5, <2>2 DEF Extends, BufLen
<1>9. BufLen(y) <= SeqSpace
  BY <1>1, <1>2, <1>3, <1>4, <1>7
<1>10. Genuine(y, G)
  <2>1. Genuine(x, G)
    BY DEF Sound
  <2>2. BufLen(y) <= Offset(x, g) + DataLen(g) /\ Offset(x, g) <= BufLen(x)
    BY <1>2, <1>3, <1>4, <1>7
  <2>3. \A p \in (BufLen(x) + 1) .. BufLen(y) : y.buf[p] = g.data[p - Offset(x, g)]
    BY <1>3, <1>7
  <2>4. Genuine(y, G \cup {g})
    BY <1>1, <1>2, <1>5, <1>8, <1>9, <2>1, <2>2, <2>3, GenuineGrows
  <2>5. G \cup {g} = G
    BY <1>1
  <2> QED
    BY <2>4, <2>5
<1>11. /\ PendLen(y) = PendLen(x) - 1
       /\ \A j \in DOMAIN y.pending : \E l \in DOMAIN x.pending : y.pending[j] = x.pending[l]
       /\ \A l \in DOMAIN x.pending : l # i => \E j \in DOMAIN y.pending : y.pending[j] = x.pending[l]
  <2>1. PICK q \in Seq(Segment) : q = x.pending
    BY <1>4
  <2>2. PICK d : d = DropAt(q, i)
    OBVIOUS
  <2>3. /\ Len(d) = Len(q) - 1
        /\ \A j \in DOMAIN d : \E l \in DOMAIN q : d[j] = q[l]
        /\ \A l \in DOMAIN q : l # i => \E j \in DOMAIN d : d[j] = q[l]
    <3>1. q \in Seq(Segment) /\ i \in DOMAIN q
      BY <1>1, <2>1
    <3> QED
      BY <2>2, <3>1, DropAtType
  <2>4. d = y.pending /\ Len(d) = PendLen(y) /\ Len(q) = PendLen(x)
    BY <1>5, <2>1, <2>2, Zenon DEF PendLen
  <2> QED
    BY <2>1, <2>3, <2>4, Zenon
<1>12. Held(y, G)
  <2>1. Held(x, G)
    BY DEF Sound
  <2> QED
    BY <1>6, <1>11, <2>1 DEF Held
<1>13. ASSUME ~ y.truncated PROVE Complete(y, G)
  <2>1. Complete(x, G)
    BY <1>5, <1>13 DEF Sound
  <2>2. SUFFICES ASSUME NEW h \in G, Offset(x, h) < MaxStreamBytes, Offset(x, h) + DataLen(h) > BufLen(y)
                 PROVE  Waiting(y, h)
    BY <1>6 DEF Complete
  <2>3. Offset(x, h) \in Nat /\ DataLen(h) \in Nat
    BY <1>1, DataType, OffsetType
  <2>4. Offset(x, h) + DataLen(h) > BufLen(x)
    BY <1>2, <1>4, <1>7, <2>2, <2>3
  <2>5. PICK l \in DOMAIN x.pending : x.pending[l] = h
    BY <2>1, <2>2, <2>4 DEF Complete, Waiting
  <2>6. h # g
    BY <1>2, <1>3, <1>4, <1>7, <2>2, <2>3
  <2>7. l # i
    BY <1>0, <2>5, <2>6
  <2> QED
    BY <1>11, <2>5, <2>7 DEF Waiting
<1>14. Sound(y, G)
  BY <1>1, <1>5, <1>9, <1>10, <1>12, <1>13 DEF Sound
<1> QED
  BY <1>8, <1>11, <1>14

LEMMA ExtendsItself == ASSUME NEW x \in Stream PROVE Extends(x, x)
<1>1. BufLen(x) \in Nat
  BY BufLenType
<1> QED
  BY <1>1 DEF Extends

LEMMA ExtendsOn ==
  ASSUME NEW x \in Stream, NEW y \in Stream, NEW z \in Stream, Extends(x, y), Extends(y, z)
  PROVE  Extends(x, z)
<1>1. BufLen(x) \in Nat /\ BufLen(y) \in Nat /\ BufLen(z) \in Nat
  BY BufLenType
<1> QED
  BY <1>1 DEF Extends

(* Where the drain loop may get from s.                                    *)
Reached(s, G, x) ==
  /\ Sound(x, G) /\ Extends(s, x)
  /\ PendLen(x) <= PendLen(s)
  /\ x.truncated = s.truncated

LEMMA DrainOneReaches ==
  ASSUME NEW G, Pushed(G), NEW s \in Stream, NEW x, Reached(s, G, x)
  PROVE  /\ Reached(s, G, DrainOne(x))
         /\ Flush(x) = {} => DrainOne(x) = x
         /\ Flush(x) # {} => PendLen(DrainOne(x)) = PendLen(x) - 1
<1>1. x \in Stream
  BY DEF Reached, Sound
<1>2. CASE Flush(x) = {}
  BY <1>2 DEF DrainOne
<1>3. CASE Flush(x) # {}
  <2>1. PICK y : y = DrainOne(x)
    OBVIOUS
  <2>2. PICK i \in Flush(x) : TurnTakes(x, i, y)
    BY <1>1, <1>3, <2>1, DrainOneTakes
  <2>3. Sound(y, G) /\ Extends(x, y) /\ PendLen(y) = PendLen(x) - 1
    BY <2>2, TurnKeeps DEF Reached
  <2>4. y \in Stream /\ y.truncated = x.truncated
    BY <2>2 DEF TurnTakes
  <2>5. Extends(s, y)
    BY <1>1, <2>3, <2>4, ExtendsOn DEF Reached
  <2>6. PendLen(y) <= PendLen(s)
    BY <1>1, <2>3, <2>4, BufLenType DEF Reached
  <2> QED
    BY <1>3, <2>1, <2>3, <2>4, <2>5, <2>6 DEF Reached
<1> QED
  BY <1>2, <1>3

(* The loop keeps the stream sound and ends with no flush segment: a turn  *)
(* that does nothing found none, and the others use up all that waits.     *)
LEMMA DrainReaches ==
  ASSUME NEW G, Pushed(G), NEW s, Sound(s, G)
  PROVE  Reached(s, G, Drain(s)) /\ Flush(Drain(s)) = {}
<1> DEFINE D == {x \in Stream : Reached(s, G, x)}
<1>1. s \in Stream /\ PendLen(s) \in Nat
  BY BufLenType DEF Sound
<1>2. s \in D
  BY <1>1, ExtendsItself DEF Reached
<1>3. ASSUME NEW x \in D PROVE DrainOne(x) \in D
  BY <1>1, DrainOneReaches DEF Reached, Sound
<1> DEFINE N == PendLen(s)
<1>4. PICK f \in [0 .. N -> D] : Turns(s, N, f) /\ Drain(s) = f[N]
  <2>1. Len(s.pending) \in Nat /\ N = Len(s.pending)
    BY <1>1 DEF PendLen
  <2> HIDE DEF D, N
  <2>2. \E f \in [0 .. Len(s.pending) -> D] :
            Turns(s, Len(s.pending), f) /\ Drain(s) = f[Len(s.pending)]
    BY <1>2, <1>3, <2>1, DrainTurns
  <2> QED
    BY <2>1, <2>2
<1>5. N \in 0 .. N
  BY <1>1
<1>6. ASSUME NEW n \in 0 .. N PROVE f[n] \in Stream /\ Reached(s, G, f[n])
  BY <1>4
<1> DEFINE Over(n) == Flush(f[n]) = {} \/ PendLen(f[n]) = N - n
           T == {n \in 0 .. N : ~ Over(n)}
<1>7. T = {}
  <2>1. SUFFICES ASSUME T # {} PROVE FALSE
    OBVIOUS
  <2>2. PICK m \in T : \A n \in T : m <= n
    <3>1. T \in SUBSET Nat
      OBVIOUS
    <3> HIDE DEF T
    <3> QED
      BY <2>1, <3>1, LeastNatural
  <2>3. m \in 0 .. N /\ ~ Over(m)
    BY <2>2
  <2>4. m # 0
    BY <1>1, <1>4, <2>3 DEF Turns
  <2>5. m \in Nat /\ m - 1 \in 0 .. N /\ m \in 1 .. N
    BY <1>1, <2>3, <2>4
  <2>6. Over(m - 1)
    <3> HIDE DEF Over
    <3> QED
      BY <2>2, <2>5
  <2>7. f[m] = DrainOne(f[m - 1])
    BY <1>4, <2>5 DEF Turns
  <2>8. PICK x : x = f[m - 1]
    OBVIOUS
  <2>9. Reached(s, G, x) /\ x \in Stream
    BY <1>6, <2>5, <2>8
  <2>10. CASE Flush(x) = {}
    <3>1. f[m] = x
      BY <1>1, <2>7, <2>8, <2>9, <2>10, DrainOneReaches
    <3> QED
      BY <2>3, <2>10, <3>1
  <2>11. CASE Flush(x) # {}
    <3>1. PendLen(f[m]) = PendLen(x) - 1
      BY <1>1, <2>7, <2>8, <2>9, <2>11, DrainOneReaches
    <3>2. PendLen(x) = N - (m - 1)
      BY <2>6, <2>8, <2>11
    <3> QED
      BY <1>1, <2>3, <2>5, <3>1, <3>2
  <2> QED
    BY <2>10, <2>11
<1>8. Over(N)
  BY <1>5, <1>7
<1>9. Flush(f[N]) = {}
  <2>1. CASE PendLen(f[N]) = N - N
    <3>1. PICK y : y = f[N]
      OBVIOUS
    <3>2. y \in Stream /\ PendLen(y) = 0
      BY <1>1, <1>5, <1>6, <2>1, <3>1
    <3>3. DOMAIN y.pending = {}
      BY <3>2, BufLenType DEF PendLen
    <3> QED
      BY <3>1, <3>3 DEF Flush
  <2> QED
    BY <1>8, <2>1
<1> QED
  BY <1>4, <1>5, <1>6, <1>9

----------------------------------------------------------------------------
(* What placing segment g does to stream s, before the cap; G holds g.     *)
PlacedAs(s, g, G, y) ==
  /\ Sound(y, G) /\ Extends(s, y)
  /\ PendLen(y) <= MaxPending
  /\ ~ y.truncated => Flush(y) = {}
  /\ PendLen(y) <= PendLen(s) \/ (0 < Offset(s, g) /\ PendLen(y) = PendLen(s) + 1)
  /\ y.truncated => s.truncated \/ (0 < Offset(s, g) /\ MaxPending <= PendLen(s))

(* What push does with a segment depends on its offset.                    *)
LEMMA PushCases ==
  ASSUME NEW s, NEW g
  PROVE  /\ Appends(s, g.seq, g.data) <=>
              Offset(s, g) <= BufLen(s) /\ Offset(s, g) + DataLen(g) > BufLen(s)
         /\ Waits(s, g.seq) <=> Offset(s, g) > BufLen(s) /\ Offset(s, g) < MaxStreamBytes
BY Zenon DEF Appends, Waits, Offset, BufLen, DataLen

(* A segment that overlaps the end of the buffer adds the rest of it.      *)
LEMMA ExtendIs ==
  ASSUME NEW b \in Seq(Byte), NEW d \in Seq(Byte), NEW o \in Nat,
         o <= Len(b), o + Len(d) > Len(b)
  PROVE  /\ Extend(b, o, d) \in Seq(Byte)
         /\ Len(Extend(b, o, d)) = o + Len(d)
         /\ \A p \in 1 .. Len(b) : Extend(b, o, d)[p] = b[p]
         /\ \A p \in (Len(b) + 1) .. (o + Len(d)) : Extend(b, o, d)[p] = d[p - o]
<1>1. PICK m \in Nat, n \in Nat : m = Len(b) /\ n = Len(d)
  OBVIOUS
<1>2. m - o + 1 \in 1 .. n /\ n \in 1 .. n
  BY <1>1
<1>3. PICK w : w = SubSeq(d, m - o + 1, n)
  OBVIOUS
<1>4. /\ w \in Seq(Byte) /\ Len(w) = n - (m - o)
      /\ \A q \in 1 .. Len(w) : w[q] = d[m - o + q]
  <2>1. PICK a \in 1 .. n : a = m - o + 1
    BY <1>2
  <2>2. /\ w \in Seq(Byte) /\ Len(w) = n - a + 1
        /\ \A q \in 1 .. (n - a + 1) : w[q] = d[a + q - 1]
    BY <1>1, <1>3, <2>1
  <2>3. n - a + 1 = n - (m - o) /\ n - a + 1 \in Nat
    BY <1>1, <2>1
  <2>4. \A q \in 1 .. (n - a + 1) : a + q - 1 = m - o + q
    BY <1>1, <2>1
  <2> QED
    BY <2>2, <2>3, <2>4, Zenon
<1>5. Extend(b, o, d) = b \o w
  BY <1>1, <1>3 DEF Extend
<1>6. /\ b \o w \in Seq(Byte) /\ Len(b \o w) = m + Len(w)
      /\ \A p \in 1 .. m : (b \o w)[p] = b[p]
      /\ \A p \in (m + 1) .. (m + Len(w)) : (b \o w)[p] = w[p - m]
  BY <1>1, <1>4
<1>7. Len(b \o w) = o + n
  BY <1>1, <1>4, <1>6
<1>8. ASSUME NEW p \in (m + 1) .. (o + n) PROVE (b \o w)[p] = d[p - o]
  <2>1. p \in (m + 1) .. (m + Len(w)) /\ p - m \in 1 .. Len(w) /\ m - o + (p - m) = p - o
    BY <1>4, <1>8
  <2>2. (b \o w)[p] = w[p - m]
    BY <1>6, <2>1
  <2>3. w[p - m] = d[m - o + (p - m)]
    BY <1>4, <2>1
  <2> QED
    BY <2>1, <2>2, <2>3
<1> QED
  BY <1>1, <1>5, <1>6, <1>7, <1>8

LEMMA MoreReceived ==
  ASSUME NEW x, NEW G, NEW g
  PROVE  /\ Genuine(x, G) => Genuine(x, G \cup {g})
         /\ Held(x, G) => Held(x, G \cup {g})
BY DEF Genuine, Held

LEMMA AppendKeeps ==
  ASSUME NEW s, NEW G, Whole(s, G), NEW g, Pushed(G \cup {g}),
         Offset(s, g) <= BufLen(s), Offset(s, g) + DataLen(g) > BufLen(s),
         NEW y, y = [s EXCEPT !.buf = Extend(@, Offset(s, g), g.data)]
  PROVE  /\ Sound(y, G \cup {g}) /\ Extends(s, y)
         /\ y.truncated = s.truncated /\ y.pending = s.pending
<1> DEFINE o == Offset(s, g)
<1>1. /\ s \in Stream /\ s.base_seq # None /\ BufLen(s) <= MaxStreamBytes
      /\ Genuine(s, G) /\ Held(s, G) /\ (~ s.truncated => Complete(s, G))
  BY DEF Whole, Sound
<1>2. /\ g \in Segment /\ g.data \in Seq(Byte) /\ DataLen(g) \in Nat
      /\ MaxStreamBytes + DataLen(g) <= SeqSpace
  BY DataType
<1>3. s.buf \in Seq(Byte) /\ BufLen(s) \in Nat /\ o \in Nat /\ MaxStreamBytes \in Nat /\ SeqSpace \in Nat
  BY <1>1, <1>2, BufLenType, OffsetType, StreamAssumption
<1>4. PICK b \in Seq(Byte) : b = s.buf
  BY <1>3
<1>5. PICK d \in Seq(Byte) : d = g.data
  BY <1>2
<1>6. PICK e : e = Extend(b, o, d)
  OBVIOUS
<1>7. Len(b) = BufLen(s) /\ Len(d) = DataLen(g)
  BY <1>4, <1>5, Zenon DEF BufLen, DataLen
<1>8. /\ e \in Seq(Byte) /\ Len(e) = o + Len(d)
      /\ \A p \in 1 .. Len(b) : e[p] = b[p]
      /\ \A p \in (Len(b) + 1) .. (o + Len(d)) : e[p] = d[p - o]
  <2>1. b \in Seq(Byte) /\ d \in Seq(Byte)
    BY <1>4, <1>5
  <2>2. o <= Len(b) /\ o + Len(d) > Len(b)
    BY <1>7, Zenon
  <2> HIDE DEF o
  <2> QED
    BY <1>3, <1>6, <2>1, <2>2, ExtendIs
<1>9. /\ y \in Stream /\ y.base_seq = s.base_seq /\ y.truncated = s.truncated
      /\ y.pending = s.pending /\ y.buf = e
  <2>1. y = [s EXCEPT !.buf = e]
    BY <1>4, <1>5, <1>6
  <2> HIDE DEF o
  <2>2. e \in Seq(Byte)
    BY <1>8
  <2> QED
    BY <1>1, <2>1, <2>2 DEF Stream
<1>10. BufLen(y) = o + DataLen(g)
  <2>1. BufLen(y) = Len(e)
    BY <1>9 DEF BufLen
  <2> HIDE DEF o
  <2> QED
    BY <1>7, <1>8, <2>1, Zenon
<1>11. BufLen(y) <= SeqSpace /\ BufLen(s) <= BufLen(y)
  BY <1>1, <1>2, <1>3, <1>10
<1>12. Extends(s, y)
  <2>1. \A p \in 1 .. BufLen(s) : y.buf[p] = s.buf[p]
    BY <1>4, <1>7, <1>8, <1>9, Zenon
  <2> QED
    BY <1>9, <1>11, <2>1 DEF Extends
<1>13. Genuine(y, G \cup {g})
  <2>1. \A p \in (BufLen(s) + 1) .. BufLen(y) : y.buf[p] = g.data[p - Offset(s, g)]
    BY <1>5, <1>7, <1>8, <1>9, <1>10, Zenon
  <2>2. BufLen(y) <= Offset(s, g) + DataLen(g)
    BY <1>2, <1>3, <1>10
  <2> QED
    BY <1>1, <1>2, <1>9, <1>11, <1>12, <2>1, <2>2, GenuineGrows
<1>14. \A h : Offset(y, h) = Offset(s, h)
  BY <1>9 DEF Offset
<1>15. Held(y, G \cup {g})
  BY <1>1, <1>9, <1>14 DEF Held
<1>16. ASSUME ~ y.truncated PROVE Complete(y, G \cup {g})
  <2>1. Complete(s, G)
    BY <1>1, <1>9, <1>16
  <2>2. SUFFICES ASSUME NEW h \in G \cup {g}, Offset(s, h) < MaxStreamBytes,
                        Offset(s, h) + DataLen(h) > BufLen(y)
                 PROVE  Waiting(y, h)
    BY <1>14 DEF Complete
  <2>3. h # g
    BY <1>2, <1>3, <1>10, <2>2
  <2>4. Offset(s, h) \in Nat /\ DataLen(h) \in Nat
    <3>1. h \in Segment /\ DataLen(h) \in Nat
      BY DataType
    <3> QED
      BY <1>1, <3>1, OffsetType
  <2>5. Offset(s, h) + DataLen(h) > BufLen(s)
    BY <1>2, <1>3, <1>10, <1>11, <2>2, <2>4
  <2>6. Waiting(s, h)
    BY <2>1, <2>2, <2>3, <2>5 DEF Complete
  <2> QED
    BY <1>9, <2>6 DEF Waiting
<1>17. Sound(y, G \cup {g})
  BY <1>1, <1>9, <1>11, <1>13, <1>15, <1>16 DEF Sound
<1> QED
  BY <1>9, <1>12, <1>17

LEMMA HoldKeeps ==
  ASSUME NEW s, NEW G, Whole(s, G), NEW g, Pushed(G \cup {g}),
         Offset(s, g) > BufLen(s), Offset(s, g) < MaxStreamBytes,
         NEW y, y = Hold(s, g.seq, g.data)
  PROVE  PlacedAs(s, g, G \cup {g}, y)
<1>1. /\ s \in Stream /\ s.base_seq # None /\ BufLen(s) <= MaxStreamBytes /\ BufLen(s) <= SeqSpace
      /\ Genuine(s, G) /\ Held(s, G) /\ (~ s.truncated => Complete(s, G))
      /\ PendLen(s) <= MaxPending /\ (~ s.truncated => Flush(s) = {})
  BY DEF Whole, Sound
<1>2. g \in Segment /\ DataLen(g) \in Nat
  BY DataType
<1>3. /\ s.pending \in Seq(Segment) /\ PendLen(s) \in Nat /\ MaxPending \in Nat
      /\ BufLen(s) \in Nat /\ Offset(s, g) \in Nat /\ MaxStreamBytes \in Nat
  BY <1>1, <1>2, BufLenType, OffsetType, StreamAssumption
<1>4. 0 < Offset(s, g)
  BY <1>3
<1>5. PICK q \in Seq(Segment) : q = s.pending
  BY <1>3
<1>6. PICK e : e = Append(q, g)
  OBVIOUS
<1>7. /\ e \in Seq(Segment) /\ Len(e) = Len(q) + 1 /\ DOMAIN e = 1 .. (Len(q) + 1)
      /\ \A j \in DOMAIN q : j \in DOMAIN e /\ e[j] = q[j]
      /\ e[Len(q) + 1] = g
      /\ \A j \in DOMAIN e : e[j] = g \/ \E l \in DOMAIN q : e[j] = q[l]
  <2>1. q \in Seq(Segment)
    BY <1>5
  <2>2. /\ e \in Seq(Segment) /\ Len(e) = Len(q) + 1 /\ DOMAIN e = 1 .. (Len(q) + 1)
        /\ DOMAIN q = 1 .. Len(q) /\ Len(q) \in Nat
        /\ \A j \in 1 .. Len(q) : e[j] = q[j]
        /\ e[Len(q) + 1] = g
    BY <1>2, <1>6, <2>1
  <2> QED
    BY <2>2
<1>8. Len(q) = PendLen(s)
  BY <1>5, Zenon DEF PendLen
<1>9. y = IF Len(e) > MaxPending
          THEN [s EXCEPT !.pending = <<>>, !.truncated = TRUE]
          ELSE [s EXCEPT !.pending = e]
  <2>1. g = [seq |-> g.seq, data |-> g.data]
    BY <1>2 DEF Segment
  <2>2. e = Append(s.pending, [seq |-> g.seq, data |-> g.data])
    BY <1>5, <1>6, <2>1
  <2> QED
    BY <2>2 DEF Hold
<1>10. CASE Len(e) > MaxPending
  <2>1. y = [s EXCEPT !.pending = <<>>, !.truncated = TRUE]
    BY <1>9, <1>10
  <2>2. /\ y \in Stream /\ y.base_seq = s.base_seq /\ y.buf = s.buf
        /\ y.pending = <<>> /\ y.truncated
    <3>1. /\ y.base_seq = s.base_seq /\ y.buf = s.buf
          /\ y.pending = <<>> /\ y.truncated
      BY <1>1, <2>1 DEF Stream
    <3>2. y \in Stream
      <4>1. <<>> \in Seq(Segment)
        BY EmptySeq
      <4>2. PICK n \in Seq(Segment) : n = <<>>
        BY <4>1, Zenon
      <4>3. y = [s EXCEPT !.pending = n, !.truncated = TRUE]
        BY <2>1, <4>2
      <4> QED
        BY <1>1, <4>2, <4>3 DEF Stream
    <3> QED
      BY <3>1, <3>2
  <2>3. BufLen(y) = BufLen(s) /\ PendLen(y) = 0
    BY <2>2 DEF BufLen, PendLen
  <2>4. Genuine(y, G \cup {g})
    BY <1>1, <2>2, <2>3 DEF Genuine
  <2>5. Held(y, G \cup {g})
    BY <2>2 DEF Held
  <2>6. Sound(y, G \cup {g})
    BY <1>1, <2>2, <2>3, <2>4, <2>5 DEF Sound
  <2>7. Extends(s, y)
    BY <1>3, <2>2, <2>3 DEF Extends
  <2>8. MaxPending <= PendLen(s) /\ PendLen(y) <= MaxPending /\ PendLen(y) <= PendLen(s)
    BY <1>3, <1>7, <1>8, <1>10, <2>3
  <2> QED
    BY <1>4, <2>2, <2>6, <2>7, <2>8, Zenon DEF PlacedAs
<1>11. CASE ~ (Len(e) > MaxPending)
  <2>1. y = [s EXCEPT !.pending = e]
    BY <1>9, <1>11
  <2>2. e \in Seq(Segment)
    BY <1>7
  <2>3. /\ y \in Stream /\ y.base_seq = s.base_seq /\ y.buf = s.buf
        /\ y.pending = e /\ y.truncated = s.truncated
    BY <1>1, <2>1, <2>2 DEF Stream
  <2>4. BufLen(y) = BufLen(s) /\ PendLen(y) = PendLen(s) + 1 /\ PendLen(y) <= MaxPending
    <3>1. BufLen(y) = BufLen(s) /\ PendLen(y) = Len(e)
      BY <2>3 DEF BufLen, PendLen
    <3> QED
      BY <1>3, <1>7, <1>8, <1>11, <3>1
  <2>5. \A h : Offset(y, h) = Offset(s, h)
    BY <2>3 DEF Offset
  <2>6. Genuine(y, G \cup {g})
    BY <1>1, <2>3, <2>4 DEF Genuine
  <2>7. Held(y, G \cup {g})
    BY <1>1, <1>4, <1>5, <1>7, <2>3, <2>5 DEF Held
  <2>8. ASSUME ~ y.truncated PROVE Complete(y, G \cup {g}) /\ Flush(y) = {}
    <3>1. Complete(s, G) /\ Flush(s) = {}
      BY <1>1, <2>3, <2>8
    <3>2. Waiting(y, g)
      BY <1>3, <1>7, <1>8, <2>3 DEF Waiting
    <3>3. \A h : Waiting(s, h) => Waiting(y, h)
      BY <1>5, <1>7, <2>3 DEF Waiting
    <3>4. Complete(y, G \cup {g})
      BY <2>4, <2>5, <3>1, <3>2, <3>3 DEF Complete
    <3>5. BufEnd(y) = BufEnd(s)
      BY <2>3 DEF BufEnd
    <3>6. g.seq # BufEnd(s)
      BY <1>1, <1>2, <1>3, <1>4, FlushIs
    <3>7. Flush(y) = {}
      BY <1>5, <1>7, <2>3, <3>1, <3>5, <3>6 DEF Flush
    <3> QED
      BY <3>4, <3>7
  <2>9. Sound(y, G \cup {g})
    BY <1>1, <2>3, <2>4, <2>6, <2>7, <2>8 DEF Sound
  <2>10. Extends(s, y)
    BY <1>3, <2>3, <2>4 DEF Extends
  <2> QED
    BY <1>4, <2>3, <2>4, <2>8, <2>9, <2>10, Zenon DEF PlacedAs
<1> QED
  BY <1>10, <1>11

LEMMA PlacedKeeps ==
  ASSUME NEW s, NEW G, Whole(s, G), NEW g, Pushed(G \cup {g})
  PROVE  PlacedAs(s, g, G \cup {g}, Placed(s, g.seq, g.data))
<1>1. /\ s \in Stream /\ s.base_seq # None /\ BufLen(s) <= MaxStreamBytes /\ BufLen(s) <= SeqSpace
      /\ Genuine(s, G) /\ Held(s, G) /\ (~ s.truncated => Complete(s, G))
      /\ PendLen(s) <= MaxPending /\ (~ s.truncated => Flush(s) = {})
  BY DEF Whole, Sound
<1>2. g \in Segment /\ DataLen(g) \in Nat
  BY DataType
<1>3. /\ PendLen(s) \in Nat /\ MaxPending \in Nat
      /\ BufLen(s) \in Nat /\ Offset(s, g) \in Nat /\ MaxStreamBytes \in Nat
  BY <1>1, <1>2, BufLenType, OffsetType, StreamAssumption
<1>4. CASE Appends(s, g.seq, g.data)
  <2>1. Offset(s, g) <= BufLen(s) /\ Offset(s, g) + DataLen(g) > BufLen(s)
    BY <1>4, PushCases
  <2>2. PICK y : y = [s EXCEPT !.buf = Extend(@, Offset(s, g), g.data)]
    OBVIOUS
  <2>3. ~ Waits(s, g.seq)
    BY <1>3, <2>1, PushCases
  <2>4. Placed(s, g.seq, g.data) = Drain(y)
    BY <1>4, <2>2, <2>3 DEF Placed, Offset
  <2>5. /\ Sound(y, G \cup {g}) /\ Extends(s, y)
        /\ y.truncated = s.truncated /\ y.pending = s.pending
    BY <2>1, <2>2, AppendKeeps
  <2>6. Reached(y, G \cup {g}, Drain(y)) /\ Flush(Drain(y)) = {}
    BY <2>5, DrainReaches
  <2>7. PICK z : z = Drain(y)
    OBVIOUS
  <2>8. /\ Sound(z, G \cup {g}) /\ Extends(y, z) /\ PendLen(z) <= PendLen(y)
        /\ z.truncated = y.truncated /\ Flush(z) = {}
    BY <2>6, <2>7 DEF Reached
  <2>9. PendLen(y) = PendLen(s)
    BY <2>5 DEF PendLen
  <2>10. y \in Stream /\ z \in Stream
    BY <2>5, <2>8 DEF Sound
  <2>11. Extends(s, z)
    BY <1>1, <2>5, <2>8, <2>10, ExtendsOn
  <2>12. PendLen(z) <= MaxPending /\ PendLen(z) <= PendLen(s)
    BY <1>1, <1>3, <2>8, <2>9, <2>10, BufLenType
  <2> QED
    BY <2>4, <2>5, <2>7, <2>8, <2>11, <2>12, Zenon DEF PlacedAs
<1>5. CASE ~ Appends(s, g.seq, g.data) /\ Waits(s, g.seq)
  <2>1. Placed(s, g.seq, g.data) = Hold(s, g.seq, g.data)
    BY <1>5 DEF Placed
  <2> QED
    BY <1>5, <2>1, PushCases, HoldKeeps
<1>6. CASE ~ Appends(s, g.seq, g.data) /\ ~ Waits(s, g.seq)
  <2>1. Placed(s, g.seq, g.data) = s
    BY <1>6 DEF Placed
  <2>2. ~ (Offset(s, g) < MaxStreamBytes /\ Offset(s, g) + DataLen(g) > BufLen(s))
    BY <1>3, <1>6, PushCases
  <2>3. Genuine(s, G \cup {g}) /\ Held(s, G \cup {g})
    BY <1>1, MoreReceived
  <2>4. ~ s.truncated => Complete(s, G \cup {g})
    BY <1>1, <2>2 DEF Complete
  <2>5. Sound(s, G \cup {g})
    BY <1>1, <2>3, <2>4 DEF Sound
  <2>6. Extends(s, s) /\ PendLen(s) <= PendLen(s)
    BY <1>1, <1>3, ExtendsItself
  <2> QED
    BY <1>1, <2>1, <2>5, <2>6, Zenon DEF PlacedAs
<1> QED
  BY <1>4, <1>5, <1>6

(* The cap cuts the buffer at max_bytes and nothing that was there before. *)
LEMMA CapKeeps ==
  ASSUME NEW s \in Stream, BufLen(s) <= MaxStreamBytes, NEW g, NEW G, NEW y, PlacedAs(s, g, G, y),
         NEW z, z = Cap(y)
  PROVE  /\ Whole(z, G) /\ Extends(s, z) /\ PendLen(z) = PendLen(y)
         /\ z.truncated => y.truncated \/ NewlyCut(y)
<1>1. /\ Sound(y, G) /\ Extends(s, y) /\ PendLen(y) <= MaxPending
      /\ (~ y.truncated => Flush(y) = {})
  BY DEF PlacedAs
<1>2. /\ y \in Stream /\ y.base_seq # None /\ Genuine(y, G) /\ Held(y, G)
  BY <1>1 DEF Sound
<1>3. /\ y.buf \in Seq(Byte) /\ BufLen(y) \in Nat /\ BufLen(s) \in Nat
      /\ MaxStreamBytes \in Nat /\ SeqSpace \in Nat
  BY <1>2, BufLenType, StreamAssumption
<1>4. CASE BufLen(y) > MaxStreamBytes
  <2>1. Len(y.buf) > MaxStreamBytes
    BY <1>4, Zenon DEF BufLen
  <2>2. z = [y EXCEPT !.buf = SubSeq(y.buf, 1, MaxStreamBytes), !.truncated = TRUE]
    BY <2>1 DEF Cap
  <2>3. PICK b \in Seq(Byte) : b = y.buf
    BY <1>3
  <2>4. PICK c : c = SubSeq(b, 1, MaxStreamBytes)
    OBVIOUS
  <2>5. /\ c \in Seq(Byte) /\ Len(c) = MaxStreamBytes
        /\ \A p \in 1 .. MaxStreamBytes : c[p] = b[p]
    <3>1. b \in Seq(Byte) /\ MaxStreamBytes \in 0 .. Len(b)
      BY <1>3, <2>1, <2>3
    <3> QED
      BY <1>3, <2>4, <3>1
  <2>6. /\ z \in Stream /\ z.base_seq = y.base_seq /\ z.pending = y.pending
        /\ z.buf = c /\ z.truncated
    <3>1. z = [y EXCEPT !.buf = c, !.truncated = TRUE]
      BY <2>2, <2>3, <2>4
    <3>2. c \in Seq(Byte)
      BY <2>5
    <3> QED
      BY <1>2, <3>1, <3>2 DEF Stream
  <2>7. BufLen(z) = MaxStreamBytes /\ PendLen(z) = PendLen(y)
    BY <2>5, <2>6, Zenon DEF BufLen, PendLen
  <2>8. \A h : Offset(z, h) = Offset(y, h)
    BY <2>6 DEF Offset
  <2>9. \A p \in 1 .. MaxStreamBytes : p \in 1 .. BufLen(y) /\ z.buf[p] = y.buf[p]
    BY <1>3, <1>4, <2>3, <2>5, <2>6
  <2>10. Genuine(z, G)
    BY <1>2, <2>6, <2>7, <2>9 DEF Genuine
  <2>11. Held(z, G)
    BY <1>2, <2>6, <2>8 DEF Held
  <2>12. BufLen(z) <= SeqSpace /\ BufLen(z) <= MaxStreamBytes
    BY <1>1, <1>3, <1>4, <2>7 DEF Sound
  <2>13. Sound(z, G)
    BY <1>2, <2>6, <2>10, <2>11, <2>12 DEF Sound
  <2>14. Whole(z, G)
    BY <1>1, <2>6, <2>7, <2>12, <2>13 DEF Whole
  <2>15. Extends(s, z)
    BY <1>1, <1>3, <2>6, <2>7, <2>9 DEF Extends
  <2>16. y.truncated \/ NewlyCut(y)
    BY <2>1, Zenon DEF NewlyCut
  <2> QED
    BY <2>7, <2>14, <2>15, <2>16
<1>5. CASE ~ (BufLen(y) > MaxStreamBytes)
  <2>1. z = y
    <3>1. ~ (Len(y.buf) > MaxStreamBytes)
      BY <1>5, Zenon DEF BufLen
    <3> QED
      BY <3>1 DEF Cap
  <2>2. BufLen(y) <= MaxStreamBytes
    BY <1>3, <1>5
  <2> QED
    BY <1>1, <2>1, <2>2 DEF Whole
<1> QED
  BY <1>4, <1>5

----------------------------------------------------------------------------
(* The stream a segment is placed in is a sound one, new or held.          *)
LEMMA OpenedIs ==
  ASSUME StreamInv, NEW k \in StreamKeys, NEW g \in Segment
  PROVE  /\ Whole(Opened(k, g.seq), Got(k)) /\ Pushed(Got(k))
         /\ k \in StreamsPresent => Opened(k, g.seq) = streams[k]
         /\ k \notin StreamsPresent => /\ PendLen(Opened(k, g.seq)) = 0
                                /\ ~ Opened(k, g.seq).truncated
                                /\ Offset(Opened(k, g.seq), g) = 0
<1>1. CASE k \in StreamsPresent
  BY <1>1 DEF Opened, StreamInv, HeldIsWhole
<1>2. CASE k \notin StreamsPresent
  <2>1. PICK s : s = Opened(k, g.seq)
    OBVIOUS
  <2>2. s = [base_seq |-> g.seq, buf |-> <<>>, pending |-> <<>>, truncated |-> FALSE]
    BY <1>2, <2>1 DEF Opened, NoStream
  <2>3. g.seq \in SeqNum /\ g.seq \in Nat /\ SeqSpace \in Nat \ {0} /\ MaxStreamBytes \in Nat /\ MaxPending \in Nat
    BY StreamAssumption DEF Segment, SeqNum
  <2>4. s \in Stream /\ s.base_seq = g.seq /\ s.buf = <<>> /\ s.pending = <<>> /\ ~ s.truncated
    <3>1. <<>> \in Seq(Byte) /\ <<>> \in Seq(Segment)
      BY EmptySeq
    <3> QED
      BY <2>2, <2>3, <3>1 DEF Stream
  <2>5. BufLen(s) = 0 /\ PendLen(s) = 0 /\ DOMAIN s.pending = {}
    BY <2>4 DEF BufLen, PendLen
  <2>6. s.base_seq # None
    BY <2>3, <2>4 DEF None
  <2>7. Got(k) = {}
    BY <1>2 DEF StreamInv, AbsentIsEmpty, Got
  <2>8. Flush(s) = {}
    BY <2>5 DEF Flush
  <2>9. Offset(s, g) = 0
    <3>1. WrapSub(g.seq, g.seq) = 0
      BY <2>3, WrapSubIs
    <3> QED
      BY <2>4, <3>1 DEF Offset
  <2>10. Sound(s, Got(k))
    BY <2>3, <2>4, <2>5, <2>6, <2>7 DEF Sound, Genuine, Held, Complete
  <2>11. Whole(s, Got(k))
    BY <2>3, <2>5, <2>8, <2>10 DEF Whole
  <2>12. Pushed(Got(k))
    BY <2>7 DEF Pushed
  <2> QED
    BY <1>2, <2>1, <2>4, <2>5, <2>9, <2>11, <2>12
<1> QED
  BY <1>1, <1>2

(* What an accepted push leaves: the stream z that the segment went to.    *)
PushLeaves(k, g, z) ==
  /\ streams' = [streams EXCEPT ![k] = z]
  /\ rcvd' = [rcvd EXCEPT ![k] = Append(@, g)]
  /\ Pushed(Got(k) \cup {g})
  /\ Whole(z, Got(k) \cup {g})
  /\ PendLen(z) <= Len(rcvd[k])
  /\ truncated' \in Nat /\ truncated' >= truncated
  /\ z.truncated /\ truncated' = 0 => Len(rcvd[k]) >= MaxPending + 1
  /\ k \in StreamsPresent => Extends(streams[k], z)

LEMMA AcceptedLeaves ==
  ASSUME StreamInv, NEW k \in StreamKeys, NEW seq \in SeqNum, NEW data \in SegPayloads, data # <<>>,
         NEW g, g = [seq |-> seq, data |-> data], PushAccepted(k, seq, data)
  PROVE  \E z : PushLeaves(k, g, z)
<1>1. /\ g \in Segment /\ g.seq = seq /\ g.data = data
      /\ truncated \in Nat /\ MaxPending \in Nat /\ MaxStreamBytes \in Nat
      /\ rcvd[k] \in Seq(Segment)
  BY StreamAssumption DEF Segment, StreamInv, StreamTypeOK
<1>2. PICK s : s = Opened(k, seq)
  OBVIOUS
<1>3. /\ Whole(s, Got(k)) /\ Pushed(Got(k))
      /\ k \in StreamsPresent => s = streams[k]
      /\ k \notin StreamsPresent => PendLen(s) = 0 /\ ~ s.truncated /\ Offset(s, g) = 0
  BY <1>1, <1>2, OpenedIs
<1>4. Pushed(Got(k) \cup {g})
  BY <1>1, <1>3 DEF Pushed
<1>5. PICK y : y = Placed(s, seq, data)
  OBVIOUS
<1>6. PICK z : z = Cap(y)
  OBVIOUS
<1>7. PlacedAs(s, g, Got(k) \cup {g}, y)
  BY <1>1, <1>3, <1>4, <1>5, PlacedKeeps
<1>8. s \in Stream /\ BufLen(s) <= MaxStreamBytes
  BY <1>3 DEF Whole, Sound
<1>9. /\ Whole(z, Got(k) \cup {g}) /\ Extends(s, z) /\ PendLen(z) = PendLen(y)
      /\ (z.truncated => y.truncated \/ NewlyCut(y))
  BY <1>6, <1>7, <1>8, CapKeeps
<1>10. /\ streams' = [streams EXCEPT ![k] = z]
       /\ rcvd' = [rcvd EXCEPT ![k] = Append(@, g)]
       /\ NewlyCut(y) => truncated' = truncated + 1
       /\ ~ NewlyCut(y) => truncated' = truncated
  BY <1>2, <1>5, <1>6 DEF PushAccepted
<1>11. truncated' \in Nat /\ truncated' >= truncated
  BY <1>1, <1>10
<1>12. /\ PendLen(y) \in Nat /\ PendLen(s) \in Nat
  <2>1. y \in Stream
    BY <1>7 DEF PlacedAs, Sound
  <2> QED
    BY <1>8, <2>1, BufLenType
<1>13. /\ PendLen(y) <= PendLen(s) \/ (0 < Offset(s, g) /\ PendLen(y) = PendLen(s) + 1)
       /\ (y.truncated => s.truncated \/ (0 < Offset(s, g) /\ MaxPending <= PendLen(s)))
  BY <1>7, Zenon DEF PlacedAs
<1>14. Len(rcvd[k]) \in Nat
  BY <1>1
<1>15. k \in StreamsPresent => PendLen(s) < Len(rcvd[k])
  BY <1>3 DEF StreamInv, HeldIsWhole, PendLen
<1>16. PendLen(z) <= Len(rcvd[k])
  <2>1. CASE k \in StreamsPresent
    BY <1>9, <1>12, <1>13, <1>14, <1>15, <2>1
  <2>2. CASE k \notin StreamsPresent
    BY <1>3, <1>9, <1>12, <1>13, <1>14, <2>2
  <2> QED
    BY <2>1, <2>2
<1>17. ASSUME z.truncated, truncated' = 0 PROVE Len(rcvd[k]) >= MaxPending + 1
  <2>1. ~ NewlyCut(y) /\ truncated = 0
    BY <1>1, <1>10, <1>17
  <2>2. y.truncated
    BY <1>9, <1>17, <2>1
  <2>3. k \in StreamsPresent
    BY <1>3, <1>13, <2>2
  <2>4. CASE s.truncated
    <3>1. streams[k].truncated
      BY <1>3, <2>3, <2>4
    <3>2. Len(rcvd[k]) >= MaxPending + 2
      BY <2>1, <3>1 DEF StreamInv, UncountedLossIsOverflow
    <3> QED
      BY <1>1, <1>14, <3>2
  <2>5. CASE 0 < Offset(s, g) /\ MaxPending <= PendLen(s)
    BY <1>1, <1>12, <1>14, <1>15, <2>3, <2>5
  <2> QED
    BY <1>13, <2>2, <2>4, <2>5
<1>18. k \in StreamsPresent => Extends(streams[k], z)
  BY <1>3, <1>9
<1>19. PushLeaves(k, g, z)
  BY <1>4, <1>9, <1>10, <1>11, <1>16, <1>17, <1>18 DEF PushLeaves
<1> QED
  BY <1>19

----------------------------------------------------------------------------
LEMMA PresentIsFinite ==
  IsFiniteSet(StreamsPresent) /\ Cardinality(StreamsPresent) \in Nat
<1>1. IsFiniteSet(StreamKeys) /\ StreamsPresent \subseteq StreamKeys
  BY StreamAssumption DEF StreamsPresent
<1>2. IsFiniteSet(StreamsPresent)
  BY <1>1, FS_Subset
<1> QED
  BY <1>2, FS_CardinalityType

LEMMA StreamInitInv == StreamInit => StreamInv
<1> SUFFICES ASSUME StreamInit PROVE StreamInv
  OBVIOUS
<1>1. NoStream \in Stream
  <2>1. <<>> \in Seq(Byte) /\ <<>> \in Seq(Segment)
    BY EmptySeq
  <2> QED
    BY <2>1 DEF NoStream, Stream
<1>2. \A k \in StreamKeys : streams[k] = NoStream /\ rcvd[k] = <<>>
  BY DEF StreamInit
<1>3. StreamTypeOK
  <2>1. <<>> \in Seq(Segment)
    BY EmptySeq
  <2> QED
    BY <1>1, <2>1 DEF StreamInit, StreamTypeOK
<1>4. StreamsPresent = {}
  BY <1>2 DEF StreamsPresent, NoStream
<1>5. Cardinality(StreamsPresent) <= MaxStreams
  BY <1>4, FS_EmptySet, StreamAssumption
<1>6. AbsentIsEmpty
  BY <1>2 DEF AbsentIsEmpty
<1>7. HeldIsWhole
  BY <1>4 DEF HeldIsWhole
<1>8. UncountedLossIsOverflow
  BY <1>2 DEF UncountedLossIsOverflow, NoStream
<1> QED
  BY <1>3, <1>5, <1>6, <1>7, <1>8 DEF StreamInv

LEMMA GotGrows ==
  ASSUME NEW S, NEW q \in Seq(S), NEW g \in S
  PROVE  /\ Append(q, g) \in Seq(S) /\ Len(q) \in Nat /\ Len(Append(q, g)) = Len(q) + 1
         /\ {Append(q, g)[i] : i \in DOMAIN Append(q, g)} = {q[i] : i \in DOMAIN q} \cup {g}
<1>1. PICK e : e = Append(q, g)
  OBVIOUS
<1>2. /\ e \in Seq(S) /\ Len(e) = Len(q) + 1 /\ DOMAIN e = 1 .. (Len(q) + 1)
      /\ DOMAIN q = 1 .. Len(q) /\ Len(q) \in Nat
      /\ \A i \in 1 .. Len(q) : e[i] = q[i]
      /\ e[Len(q) + 1] = g
  BY <1>1
<1>3. {e[i] : i \in DOMAIN e} = {q[i] : i \in DOMAIN q} \cup {g}
  BY <1>2
<1> QED
  BY <1>1, <1>2, <1>3

LEMMA RefusedInv ==
  ASSUME StreamInv, NEW k \in StreamKeys, StreamPushRefused(k), segments' = segments + 1
  PROVE  StreamInv'
<1>1. streams' = streams /\ truncated' = truncated /\ rcvd' = rcvd /\ streams_evicted' = streams_evicted + 1
  BY DEF StreamPushRefused
<1>2. StreamTypeOK'
  BY <1>1 DEF StreamInv, StreamTypeOK
<1>3. StreamsPresent' = StreamsPresent /\ \A j : Got(j)' = Got(j)
  BY <1>1 DEF StreamsPresent, Got
<1>4. AbsentIsEmpty'
  BY <1>1, <1>3 DEF StreamInv, AbsentIsEmpty
<1>5. HeldIsWhole'
  <2>1. HeldIsWhole
    BY DEF StreamInv
  <2>2. SUFFICES ASSUME NEW j \in StreamsPresent
                 PROVE  /\ Pushed(Got(j)') /\ Whole(streams[j]', Got(j)')
                        /\ Len(streams'[j].pending) < Len(rcvd'[j])
    BY <1>3 DEF HeldIsWhole
  <2> QED
    BY <1>1, <1>3, <2>1 DEF HeldIsWhole
<1>6. UncountedLossIsOverflow'
  BY <1>1 DEF StreamInv, UncountedLossIsOverflow
<1> QED
  BY <1>2, <1>3, <1>4, <1>5, <1>6 DEF StreamInv

LEMMA AcceptedInv ==
  ASSUME StreamInv, NEW k \in StreamKeys, NEW seq \in SeqNum, NEW data \in SegPayloads, data # <<>>,
         PushAccepted(k, seq, data), segments' = segments + 1
  PROVE  StreamInv'
<1>1. PICK g : g = [seq |-> seq, data |-> data]
  OBVIOUS
<1>2. PICK z : PushLeaves(k, g, z)
  BY <1>1, AcceptedLeaves
<1>3. /\ g \in Segment /\ streams \in [StreamKeys -> Stream] /\ rcvd \in [StreamKeys -> Seq(Segment)]
      /\ streams_evicted \in Nat /\ segments \in Nat /\ truncated \in Nat /\ rcvd[k] \in Seq(Segment)
      /\ MaxPending \in Nat /\ MaxStreams \in Nat
  <2>1. data \in Seq(Byte)
    BY StreamAssumption
  <2> QED
    BY <1>1, <2>1, StreamAssumption DEF StreamInv, StreamTypeOK, Segment
<1>4. /\ streams' = [streams EXCEPT ![k] = z]
      /\ rcvd' = [rcvd EXCEPT ![k] = Append(@, g)]
      /\ Pushed(Got(k) \cup {g}) /\ Whole(z, Got(k) \cup {g})
      /\ PendLen(z) <= Len(rcvd[k])
      /\ truncated' \in Nat /\ truncated' >= truncated
      /\ k \in StreamsPresent => Extends(streams[k], z)
  BY <1>2 DEF PushLeaves
<1>5. z \in Stream /\ z.base_seq # None
  BY <1>4 DEF Whole, Sound
<1>6. PICK e : e = Append(rcvd[k], g)
  OBVIOUS
<1>7. /\ e \in Seq(Segment) /\ Len(rcvd[k]) \in Nat /\ Len(e) = Len(rcvd[k]) + 1
      /\ {e[i] : i \in DOMAIN e} = Got(k) \cup {g}
  <2>1. PICK q \in Seq(Segment) : q = rcvd[k]
    BY <1>3
  <2>2. q \in Seq(Segment) /\ g \in Segment /\ e = Append(q, g)
    BY <1>3, <1>6, <2>1
  <2>3. /\ e \in Seq(Segment) /\ Len(q) \in Nat /\ Len(e) = Len(q) + 1
        /\ {e[i] : i \in DOMAIN e} = {q[i] : i \in DOMAIN q} \cup {g}
    BY <2>2, GotGrows
  <2>4. {q[i] : i \in DOMAIN q} = Got(k)
    BY <2>1, Zenon DEF Got
  <2> QED
    BY <2>1, <2>3, <2>4, Zenon
<1>8. /\ streams'[k] = z /\ rcvd'[k] = e
      /\ \A j \in StreamKeys : j # k => streams'[j] = streams[j] /\ rcvd'[j] = rcvd[j]
  BY <1>3, <1>4, <1>6
<1>9. /\ Got(k)' = Got(k) \cup {g}
      /\ \A j \in StreamKeys : j # k => Got(j)' = Got(j)
  <2>1. Got(k)' = {rcvd'[k][i] : i \in DOMAIN rcvd'[k]}
    BY DEF Got
  <2>2. Got(k)' = Got(k) \cup {g}
    BY <1>7, <1>8, <2>1, Zenon
  <2>3. ASSUME NEW j \in StreamKeys, j # k PROVE Got(j)' = Got(j)
    BY <1>8, <2>3 DEF Got
  <2> QED
    BY <2>2, <2>3
<1>10. StreamTypeOK'
  <2>1. streams' \in [StreamKeys -> Stream]
    BY <1>3, <1>4, <1>5
  <2>2. rcvd' \in [StreamKeys -> Seq(Segment)]
    BY <1>3, <1>4, <1>6, <1>7
  <2>3. streams_evicted' = streams_evicted /\ segments' \in Nat
    BY <1>3 DEF PushAccepted
  <2> QED
    BY <1>3, <1>4, <2>1, <2>2, <2>3 DEF StreamTypeOK
<1>11. StreamsPresent' = StreamsPresent \cup {k}
  <2>1. \A j \in StreamKeys : streams'[j].base_seq # None <=> j = k \/ streams[j].base_seq # None
    BY <1>5, <1>8
  <2> QED
    BY <2>1 DEF StreamsPresent
<1>12. Cardinality(StreamsPresent') <= MaxStreams
  <2>1. CASE k \in StreamsPresent
    <3>1. StreamsPresent' = StreamsPresent
      BY <1>11, <2>1
    <3> QED
      BY <3>1 DEF StreamInv
  <2>2. CASE k \notin StreamsPresent
    <3>1. ~ (Cardinality(StreamsPresent) >= MaxStreams)
      BY <2>2 DEF PushAccepted, StreamTableFull
    <3>2. Cardinality(StreamsPresent \cup {k}) = Cardinality(StreamsPresent) + 1
      BY <2>2, PresentIsFinite, FS_AddElement
    <3> QED
      BY <1>3, <1>11, <3>1, <3>2, PresentIsFinite
  <2> QED
    BY <2>1, <2>2
<1>13. AbsentIsEmpty'
  <2>1. SUFFICES ASSUME NEW j \in StreamKeys, j \notin StreamsPresent'
                 PROVE  streams'[j] = NoStream /\ rcvd'[j] = <<>>
    BY DEF AbsentIsEmpty
  <2>2. j # k /\ j \notin StreamsPresent
    BY <1>11, <2>1
  <2> QED
    BY <1>8, <2>2 DEF StreamInv, AbsentIsEmpty
<1>14. HeldIsWhole'
  <2>1. SUFFICES ASSUME NEW j \in StreamsPresent'
                 PROVE  /\ Pushed(Got(j)') /\ Whole(streams[j]', Got(j)')
                        /\ Len(streams'[j].pending) < Len(rcvd'[j])
    BY DEF HeldIsWhole
  <2>2. CASE j = k
    <3>1. PendLen(z) < Len(e)
      <4>1. PendLen(z) \in Nat
        BY <1>5, BufLenType
      <4> QED
        BY <1>4, <1>7, <4>1
    <3>2. Len(streams'[j].pending) < Len(rcvd'[j])
      BY <1>8, <2>2, <3>1, Zenon DEF PendLen
    <3> QED
      BY <1>4, <1>8, <1>9, <2>2, <3>2
  <2>3. CASE j # k
    <3>1. j \in StreamsPresent /\ j \in StreamKeys
      BY <1>11, <2>1, <2>3 DEF StreamsPresent
    <3> QED
      BY <1>8, <1>9, <2>3, <3>1 DEF StreamInv, HeldIsWhole
  <2> QED
    BY <2>2, <2>3
<1>15. UncountedLossIsOverflow'
  <2>1. SUFFICES ASSUME NEW j \in StreamKeys, streams'[j].truncated, truncated' = 0
                 PROVE  Len(rcvd'[j]) >= MaxPending + 2
    BY DEF UncountedLossIsOverflow
  <2>2. CASE j = k
    <3>1. Len(rcvd[k]) >= MaxPending + 1
      BY <1>2, <1>8, <2>1, <2>2, Zenon DEF PushLeaves
    <3>2. Len(e) >= MaxPending + 2
      BY <1>3, <1>7, <3>1
    <3> QED
      BY <1>8, <2>2, <3>2
  <2>3. CASE j # k
    <3>1. truncated = 0
      BY <1>3, <1>4, <2>1
    <3> QED
      BY <1>8, <2>1, <2>3, <3>1 DEF StreamInv, UncountedLossIsOverflow
  <2> QED
    BY <2>2, <2>3
<1> QED
  BY <1>10, <1>12, <1>13, <1>14, <1>15 DEF StreamInv

LEMMA CloseInv ==
  ASSUME StreamInv, NEW k \in StreamKeys, Close(k)
  PROVE  StreamInv'
<1>1. /\ streams' = [streams EXCEPT ![k] = NoStream] /\ rcvd' = [rcvd EXCEPT ![k] = <<>>]
      /\ streams_evicted' = streams_evicted /\ truncated' = truncated /\ segments' = segments
  BY DEF Close
<1>2. streams \in [StreamKeys -> Stream] /\ rcvd \in [StreamKeys -> Seq(Segment)]
  BY DEF StreamInv, StreamTypeOK
<1>3. /\ streams'[k] = NoStream /\ rcvd'[k] = <<>>
      /\ \A j \in StreamKeys : j # k => streams'[j] = streams[j] /\ rcvd'[j] = rcvd[j]
  BY <1>1, <1>2
<1>4. <<>> \in Seq(Byte) /\ <<>> \in Seq(Segment)
  BY EmptySeq
<1>5. NoStream \in Stream /\ NoStream.base_seq = None /\ ~ NoStream.truncated
  BY <1>4 DEF NoStream, Stream
<1>6. StreamTypeOK'
  <2>1. streams' \in [StreamKeys -> Stream]
    BY <1>1, <1>2, <1>5
  <2>2. rcvd' \in [StreamKeys -> Seq(Segment)]
    BY <1>1, <1>2, <1>4
  <2> QED
    BY <1>1, <2>1, <2>2 DEF StreamInv, StreamTypeOK
<1>7. StreamsPresent' = StreamsPresent \ {k}
  <2>1. \A j \in StreamKeys : streams'[j].base_seq # None <=> j # k /\ streams[j].base_seq # None
    BY <1>3, <1>5
  <2> QED
    BY <2>1 DEF StreamsPresent
<1>8. Cardinality(StreamsPresent') <= MaxStreams
  <2>1. /\ StreamsPresent' \subseteq StreamsPresent /\ IsFiniteSet(StreamsPresent) /\ Cardinality(StreamsPresent) \in Nat
    BY <1>7, PresentIsFinite
  <2>2. Cardinality(StreamsPresent') <= Cardinality(StreamsPresent) /\ Cardinality(StreamsPresent') \in Nat
    BY <2>1, FS_Subset, FS_CardinalityType
  <2> QED
    BY <2>1, <2>2, StreamAssumption DEF StreamInv
<1>9. AbsentIsEmpty'
  <2>1. SUFFICES ASSUME NEW j \in StreamKeys, j \notin StreamsPresent'
                 PROVE  streams'[j] = NoStream /\ rcvd'[j] = <<>>
    BY DEF AbsentIsEmpty
  <2>2. j = k \/ j \notin StreamsPresent
    BY <1>7, <2>1
  <2> QED
    BY <1>3, <2>2 DEF StreamInv, AbsentIsEmpty
<1>10. HeldIsWhole'
  <2>1. SUFFICES ASSUME NEW j \in StreamsPresent'
                 PROVE  /\ Pushed(Got(j)') /\ Whole(streams[j]', Got(j)')
                        /\ Len(streams'[j].pending) < Len(rcvd'[j])
    BY DEF HeldIsWhole
  <2>2. j \in StreamsPresent /\ j \in StreamKeys /\ j # k
    BY <1>7, <2>1 DEF StreamsPresent
  <2>3. Got(j)' = Got(j)
    BY <1>3, <2>2 DEF Got
  <2> QED
    BY <1>3, <2>2, <2>3 DEF StreamInv, HeldIsWhole
<1>11. UncountedLossIsOverflow'
  BY <1>1, <1>3, <1>5 DEF StreamInv, UncountedLossIsOverflow
<1> QED
  BY <1>6, <1>8, <1>9, <1>10, <1>11 DEF StreamInv

LEMMA StutterInv == ASSUME StreamInv, UNCHANGED streamVars PROVE StreamInv'
<1>1. streams' = streams /\ truncated' = truncated /\ rcvd' = rcvd /\ streams_evicted' = streams_evicted /\ segments' = segments
  BY DEF streamVars
<1>2. StreamTypeOK'
  BY <1>1 DEF StreamInv, StreamTypeOK
<1>3. StreamsPresent' = StreamsPresent /\ \A j : Got(j)' = Got(j)
  BY <1>1 DEF StreamsPresent, Got
<1>4. AbsentIsEmpty'
  BY <1>1, <1>3 DEF StreamInv, AbsentIsEmpty
<1>5. HeldIsWhole'
  <2>1. SUFFICES ASSUME NEW j \in StreamsPresent
                 PROVE  /\ Pushed(Got(j)') /\ Whole(streams[j]', Got(j)')
                        /\ Len(streams'[j].pending) < Len(rcvd'[j])
    BY <1>3 DEF HeldIsWhole
  <2> QED
    BY <1>1, <1>3 DEF StreamInv, HeldIsWhole
<1>6. UncountedLossIsOverflow'
  BY <1>1 DEF StreamInv, UncountedLossIsOverflow
<1> QED
  BY <1>2, <1>3, <1>4, <1>5, <1>6 DEF StreamInv

LEMMA StreamNextInv == StreamInv /\ [StreamNext]_streamVars => StreamInv'
<1> SUFFICES ASSUME StreamInv, [StreamNext]_streamVars PROVE StreamInv'
  OBVIOUS
<1>1. ASSUME NEW k \in StreamKeys, NEW seq \in SeqNum, NEW data \in SegPayloads, StreamPush(k, seq, data)
      PROVE  StreamInv'
  <2>1. data # <<>> /\ segments' = segments + 1 /\ (StreamPushRefused(k) \/ PushAccepted(k, seq, data))
    BY <1>1 DEF StreamPush
  <2> QED
    BY <2>1, RefusedInv, AcceptedInv
<1>2. ASSUME NEW k \in StreamKeys, Close(k) PROVE StreamInv'
  BY <1>2, CloseInv
<1>3. CASE UNCHANGED streamVars
  BY <1>3, StutterInv
<1> QED
  BY <1>1, <1>2, <1>3 DEF StreamNext

----------------------------------------------------------------------------
LEMMA AlwaysInv == StreamSpec => []StreamInv
BY StreamInitInv, StreamNextInv, PTL DEF StreamSpec

(* The table, its counters and its streams keep their types.               *)
THEOREM StreamTypeCorrect == StreamSpec => []StreamTypeOK
<1>1. StreamInv => StreamTypeOK
  BY DEF StreamInv
<1> QED
  BY <1>1, AlwaysInv, PTL

(* The three limits hold whatever their values: streams held, bytes kept   *)
(* of a stream, segments waiting in one.                                   *)
THEOREM StreamBounded == StreamSpec => []StreamsBounded
<1>1. ASSUME StreamInv PROVE StreamsBounded
  <2>1. ASSUME NEW k \in StreamKeys
        PROVE  Len(streams[k].buf) <= MaxStreamBytes /\ Len(streams[k].pending) <= MaxPending
    <3>1. CASE k \in StreamsPresent
      BY <1>1, <3>1 DEF StreamInv, HeldIsWhole, Whole, BufLen, PendLen
    <3>2. CASE k \notin StreamsPresent
      BY <1>1, <3>2, StreamAssumption DEF StreamInv, AbsentIsEmpty, NoStream
    <3> QED
      BY <3>1, <3>2
  <2> QED
    BY <1>1, <2>1 DEF StreamInv, StreamsBounded
<1> QED
  BY <1>1, AlwaysInv, PTL

(* The prefix handed to dissection was received, byte by byte, at those    *)
(* sequence numbers, on either side of the wrap, for every modulus that    *)
(* leaves room for the cap and one segment.                                *)
THEOREM PrefixIsReceived == StreamSpec => []BufIsReceived
<1>1. ASSUME StreamInv PROVE BufIsReceived
  <2>1. ASSUME NEW k \in StreamKeys
        PROVE  /\ \A p \in 1 .. Len(streams[k].buf) :
                    \E i \in DOMAIN rcvd[k] :
                      Carries(rcvd[k][i], WrapAdd(streams[k].base_seq, p - 1), streams[k].buf[p])
               /\ \A j \in DOMAIN streams[k].pending :
                    \E i \in DOMAIN rcvd[k] : rcvd[k][i] = streams[k].pending[j]
    <3>1. CASE k \in StreamsPresent
      <4>1. PICK x : x = streams[k]
        OBVIOUS
      <4>2. Genuine(x, Got(k)) /\ Held(x, Got(k))
        BY <1>1, <3>1, <4>1 DEF StreamInv, HeldIsWhole, Whole, Sound
      <4>3. \A h \in Got(k) : \E i \in DOMAIN rcvd[k] : rcvd[k][i] = h
        BY DEF Got
      <4>4. ASSUME NEW p \in 1 .. Len(x.buf)
            PROVE  \E i \in DOMAIN rcvd[k] : Carries(rcvd[k][i], WrapAdd(x.base_seq, p - 1), x.buf[p])
        <5>1. p \in 1 .. BufLen(x)
          BY Zenon DEF BufLen
        <5>2. PICK h \in Got(k) : Carries(h, WrapAdd(x.base_seq, p - 1), x.buf[p])
          BY <4>2, <5>1 DEF Genuine
        <5> QED
          BY <4>3, <5>2
      <4>5. \A j \in DOMAIN x.pending : \E i \in DOMAIN rcvd[k] : rcvd[k][i] = x.pending[j]
        BY <4>2, <4>3 DEF Held
      <4> QED
        BY <4>1, <4>4, <4>5
    <3>2. CASE k \notin StreamsPresent
      BY <1>1, <3>2 DEF StreamInv, AbsentIsEmpty, NoStream
    <3> QED
      BY <3>1, <3>2
  <2> QED
    BY <2>1 DEF BufIsReceived
<1> QED
  BY <1>1, AlwaysInv, PTL

(* If the byte behind the prefix arrived and nothing was given up, it is   *)
(* in a waiting segment that the buffer has partly overtaken.              *)
THEOREM GapsExplained == StreamSpec => []GapsAreExplained
<1>1. ASSUME StreamInv PROVE GapsAreExplained
  <2>1. SUFFICES ASSUME NEW k \in StreamsPresent, ~ streams[k].truncated, Len(streams[k].buf) < MaxStreamBytes,
                        NEW i \in DOMAIN rcvd[k], CarriesNext(streams[k], rcvd[k][i])
                 PROVE  /\ \E j \in DOMAIN streams[k].pending : streams[k].pending[j] = rcvd[k][i]
                        /\ WrapSub(rcvd[k][i].seq, streams[k].base_seq) < Len(streams[k].buf)
    BY DEF GapsAreExplained
  <2>2. PICK x, g : x = streams[k] /\ g = rcvd[k][i]
    OBVIOUS
  <2>3. g \in Got(k) /\ Pushed(Got(k)) /\ Whole(x, Got(k))
    BY <1>1, <2>2 DEF Got, StreamInv, HeldIsWhole
  <2>4. /\ Offset(x, g) <= BufLen(x) /\ Offset(x, g) + DataLen(g) > BufLen(x)
        /\ BufLen(x) < MaxStreamBytes /\ ~ x.truncated
    BY <2>1, <2>2, Zenon DEF CarriesNext, Offset, BufLen, DataLen
  <2>5. /\ x \in Stream /\ x.base_seq # None /\ BufLen(x) <= SeqSpace
        /\ Complete(x, Got(k)) /\ Held(x, Got(k)) /\ Flush(x) = {}
    BY <2>3, <2>4 DEF Whole, Sound
  <2>6. g \in Segment
    BY <2>3, DataType
  <2>7. Offset(x, g) \in Nat /\ BufLen(x) \in Nat /\ MaxStreamBytes \in Nat
    BY <2>5, <2>6, OffsetType, BufLenType, StreamAssumption
  <2>8. Offset(x, g) < MaxStreamBytes
    BY <2>4, <2>7
  <2>9. PICK j \in DOMAIN x.pending : x.pending[j] = g
    BY <2>3, <2>4, <2>5, <2>8 DEF Complete, Waiting
  <2>10. 0 < Offset(x, g) /\ g.seq # BufEnd(x)
    BY <2>5, <2>9 DEF Held, Flush
  <2>11. Offset(x, g) # BufLen(x)
    BY <2>5, <2>6, <2>10, FlushIs
  <2>12. Offset(x, g) < BufLen(x)
    BY <2>4, <2>7, <2>11
  <2>13. WrapSub(g.seq, x.base_seq) < Len(x.buf)
    BY <2>12, Zenon DEF Offset, BufLen
  <2> QED
    BY <2>2, <2>9, <2>13
<1> QED
  BY <1>1, AlwaysInv, PTL

(* A stream marked truncated that the counter does not show overflowed its *)
(* pending segments: the cap always counts.                                *)
THEOREM UncountedLossExplained == StreamSpec => []UncountedLossIsOverflow
<1>1. StreamInv => UncountedLossIsOverflow
  BY DEF StreamInv
<1> QED
  BY <1>1, AlwaysInv, PTL

(* No step revises, shortens or moves the prefix of a stream that stays in *)
(* the table.                                                              *)
THEOREM PrefixStays == StreamSpec => PrefixIsStable
<1> DEFINE A == \A k \in StreamKeys :
                  k \in StreamsPresent /\ rcvd'[k] # <<>> =>
                    /\ streams'[k].base_seq = streams[k].base_seq
                    /\ Len(streams[k].buf) <= Len(streams'[k].buf)
                    /\ \A p \in 1..Len(streams[k].buf) : streams'[k].buf[p] = streams[k].buf[p]
<1>1. ASSUME StreamInv, [StreamNext]_streamVars PROVE [A]_streamVars
  <2>1. SUFFICES ASSUME NEW k \in StreamKeys, k \in StreamsPresent, rcvd'[k] # <<>>, StreamNext
                 PROVE  Extends(streams[k], streams'[k])
    BY <1>1, Zenon DEF Extends, BufLen
  <2>2. streams \in [StreamKeys -> Stream] /\ rcvd \in [StreamKeys -> Seq(Segment)] /\ streams[k] \in Stream
    BY <1>1 DEF StreamInv, StreamTypeOK
  <2>3. streams'[k] = streams[k] => Extends(streams[k], streams'[k])
    BY <2>2, ExtendsItself
  <2>4. ASSUME NEW j \in StreamKeys, NEW seq \in SeqNum, NEW data \in SegPayloads, StreamPush(j, seq, data)
        PROVE  Extends(streams[k], streams'[k])
    <3>1. data # <<>> /\ (StreamPushRefused(j) \/ PushAccepted(j, seq, data))
      BY <2>4 DEF StreamPush
    <3>2. CASE StreamPushRefused(j)
      BY <2>3, <3>2 DEF StreamPushRefused
    <3>3. CASE PushAccepted(j, seq, data)
      <4>1. PICK g : g = [seq |-> seq, data |-> data]
        OBVIOUS
      <4>2. PICK z : PushLeaves(j, g, z)
        BY <1>1, <3>1, <3>3, <4>1, AcceptedLeaves
      <4>3. streams' = [streams EXCEPT ![j] = z] /\ (j \in StreamsPresent => Extends(streams[j], z))
        BY <4>2 DEF PushLeaves
      <4>4. CASE j = k
        <5>1. streams'[k] = z
          BY <2>2, <4>3, <4>4
        <5> QED
          BY <2>1, <4>3, <4>4, <5>1
      <4>5. CASE j # k
        <5>1. streams'[k] = streams[k]
          BY <2>2, <4>3, <4>5
        <5> QED
          BY <2>3, <5>1
      <4> QED
        BY <4>4, <4>5
    <3> QED
      BY <3>1, <3>2, <3>3
  <2>5. ASSUME NEW j \in StreamKeys, Close(j) PROVE Extends(streams[k], streams'[k])
    <3>1. j # k
      BY <2>1, <2>2, <2>5 DEF Close
    <3>2. streams'[k] = streams[k]
      BY <2>2, <2>5, <3>1 DEF Close
    <3> QED
      BY <2>3, <3>2
  <2> QED
    BY <2>1, <2>4, <2>5 DEF StreamNext
<1> QED
  BY <1>1, AlwaysInv, PTL DEF StreamSpec, PrefixIsStable
============================================================================
