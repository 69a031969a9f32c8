--------------------------- MODULE PipelineProofs ---------------------------
(***************************************************************************)
(* The chunked, parallel run implements the serial one for every file,     *)
(* batch size, thread count and threshold: the reader delivers what the    *)
(* file holds, chunk slots keep their place in the capture, and the rows   *)
(* handed over are those of SerialRun.                                     *)
(***************************************************************************)
EXTENDS Pipeline, FiniteSetTheorems, SequenceTheorems, NaturalsInduction, WellFoundedInduction,
        TLAPS

(* The packet blocks read so far.                                          *)
Before == {k \in PacketBlocks : k <= at}

(* The reader's tables are what the blocks behind it say.                  *)
ReaderInv ==
  /\ ReaderTypeOK
  /\ \A j \in 1..at : file[j].kind # "cut"
  /\ ~ reading => at = Len(file) \/ file[at + 1].kind = "cut"
  /\ legacy_linktype = HeaderOf(at)
  /\ Len(ifaces) = Cardinality(Described(at))
  /\ \A i \in 1..Len(ifaces) : ifaces[i] = file[Nth(Described(at), i - 1)].linktype
  /\ bad_blocks > 0 <=> ~ reading /\ at < Len(file) /\ file[at + 1].counted

(* Where the run stands in each phase.                                     *)
PhaseInv ==
  /\ phase = "read" => filled < BatchSize /\ builder = <<>> /\ ~ tail
  /\ phase \in {"dissect", "absorb"} =>
       /\ ~ failed /\ filled > 0 /\ builder = <<>>
       /\ ~ tail => filled = BatchSize
       /\ tail => ~ reading
  /\ phase = "emit" =>
       /\ ~ failed /\ filled = 0 /\ Len(builder) <= BatchSize
       /\ ~ tail => Len(builder) = BatchSize
       /\ tail => ~ reading
  /\ phase = "return" /\ ~ failed => ~ reading /\ filled = 0 /\ builder = <<>>
  /\ phase = "end" <=> result # "running"
  /\ result = "ok" => /\ ~ failed /\ ~ reading /\ filled = 0 /\ builder = <<>>
                      /\ stats.bad_blocks = bad_blocks
  /\ failed => result \in {"running", "err"}

(* Until the last batch every batch is full.                               *)
BatchInv ==
  /\ phase \notin {"return", "end"} => \A n \in 1..Len(batches) : batches[n] = BatchSize
  /\ BatchesAreFull

(* What the packet r leaves in the tables, and row i of the capture c.     *)
Left(r) == {x \in {r} : x.data \notin Panics}

RowOf(c, i) ==
  [packet_id |-> i - 1, packet |-> c[i], after |-> [j \in 1..(i - 1) |-> Left(c[j])]]

(* The rows handed over are the first ones of the serial run.              *)
OutInv ==
  /\ Len(out) <= Len(Contents)
  /\ \A i \in 1..Len(out) : out[i] = RowOf(Contents, i)

(* Until a batch fails, what is in the builder, the tables and the chunk   *)
(* follows on.                                                             *)
ChunkInv ==
  ~ failed =>
    /\ stats.packets = Len(out) + Len(builder)
    /\ stats.packets + filled = Cardinality(Before)
    /\ stats.panicked = Cardinality({i \in 1..stats.packets : Contents[i].data \in Panics})
    /\ Len(tables) = stats.packets
    /\ \A i \in 1..Len(tables) : tables[i] = Left(Contents[i])
    /\ \A i \in 1..Len(builder) : builder[i] = RowOf(Contents, Len(out) + i)
    /\ \A i \in 1..filled : chunk[i] = Contents[stats.packets + i]

IInv == TypeOK /\ ReaderInv /\ PhaseInv /\ BatchInv /\ OutInv /\ ChunkInv

----------------------------------------------------------------------------
(* A set of naturals that is not empty has a least element.                *)
LEMMA LeastNatural ==
  ASSUME NEW T \in SUBSET Nat, T # {}
  PROVE  \E m \in T : \A n \in T : m <= n
<1>1. PICK m \in T : \A n \in T : ~ (<<n, m>> \in OpToRel(<, Nat))
  BY NatLessThanWellFounded, WFMin, Zenon
<1>2. \A n \in T : ~ (n < m)
  BY <1>1, Zenon DEF OpToRel
<1> QED
  BY <1>2

(* A bounded one has a largest.                                            *)
LEMMA LastIn ==
  ASSUME NEW N \in Nat, NEW S \in SUBSET (1 .. N), S # {}
  PROVE  Last(S) \in S /\ \A x \in S : x <= Last(S)
<1> DEFINE T == {n \in Nat : \A x \in S : x <= n}
<1>1. T \in SUBSET Nat /\ N \in T
  OBVIOUS
<1>2. PICK m \in T : \A n \in T : m <= n
  <2> HIDE DEF T
  <2> QED
    BY <1>1, LeastNatural
<1>3. m \in Nat /\ \A x \in S : x <= m
  BY <1>2
<1>4. m \in S
  <2>1. SUFFICES ASSUME m \notin S PROVE FALSE
    OBVIOUS
  <2>2. m # 0
    <3>1. PICK x \in S : x \in 1 .. N
      OBVIOUS
    <3>2. x <= m /\ x \in Nat /\ 1 <= x
      BY <1>3, <3>1
    <3> QED
      BY <1>3, <3>2
  <2>3. \A x \in S : x <= m - 1
    BY <1>3, <2>1
  <2>4. m - 1 \in T /\ ~ (m <= m - 1)
    BY <1>3, <2>2, <2>3
  <2> HIDE DEF T
  <2> QED
    BY <1>2, <2>4
<1>5. \E l \in S : \A x \in S : x <= l
  BY <1>3, <1>4
<1> QED
  BY <1>5 DEF Last

LEMMA LastIs ==
  ASSUME NEW S \in SUBSET Nat, NEW m \in S, \A x \in S : x <= m
  PROVE  Last(S) = m
<1>1. PICK l : l = Last(S)
  OBVIOUS
<1>2. l \in S /\ \A x \in S : x <= l
  <2>1. \E y \in S : \A x \in S : x <= y
    OBVIOUS
  <2> QED
    BY <1>1, <2>1 DEF Last
<1>3. l \in Nat /\ m \in Nat /\ l <= m /\ m <= l
  BY <1>2
<1> QED
  BY <1>1, <1>3

----------------------------------------------------------------------------
(* Members of a finite set of naturals by rank.                            *)
Below(S, k) == {j \in S : j < k}

LEMMA BelowFinite ==
  ASSUME NEW S, IsFiniteSet(S), NEW k
  PROVE  IsFiniteSet(Below(S, k)) /\ Cardinality(Below(S, k)) \in Nat
<1>1. Below(S, k) \subseteq S
  BY DEF Below
<1> QED
  BY <1>1, FS_Subset, FS_CardinalityType

LEMMA RankGrows ==
  ASSUME NEW S \in SUBSET Nat, IsFiniteSet(S), NEW k \in S, NEW l \in S, k < l
  PROVE  Cardinality(Below(S, k)) < Cardinality(Below(S, l))
<1>0. \A j \in S : j \in Nat
  OBVIOUS
<1>1. k \notin Below(S, k) /\ Below(S, k) \cup {k} \subseteq Below(S, l)
  <2>1. \A j \in S : j < k => j < l
    BY <1>0
  <2>2. ~ (k < k)
    BY <1>0
  <2> QED
    BY <2>1, <2>2, Zenon DEF Below
<1>2. /\ IsFiniteSet(Below(S, k)) /\ Cardinality(Below(S, k)) \in Nat
      /\ IsFiniteSet(Below(S, l)) /\ Cardinality(Below(S, l)) \in Nat
  BY BelowFinite
<1>3. Cardinality(Below(S, k) \cup {k}) = Cardinality(Below(S, k)) + 1
  BY <1>1, <1>2, FS_AddElement
<1>4. Cardinality(Below(S, k) \cup {k}) <= Cardinality(Below(S, l))
  BY <1>1, <1>2, FS_Subset
<1> QED
  BY <1>2, <1>3, <1>4

LEMMA NthIs ==
  ASSUME NEW S \in SUBSET Nat, IsFiniteSet(S), NEW k \in S, NEW n, Cardinality(Below(S, k)) = n
  PROVE  Nth(S, n) = k
<1>1. \E j \in S : Cardinality(Below(S, j)) = n
  OBVIOUS
<1>2. Nth(S, n) = CHOOSE j \in S : Cardinality(Below(S, j)) = n
  BY DEF Nth, Below
<1>3. PICK l : l = Nth(S, n)
  OBVIOUS
<1>4. l \in S /\ Cardinality(Below(S, l)) = n
  BY <1>1, <1>2, <1>3
<1>5. k \in Nat /\ l \in Nat /\ n \in Nat
  BY <1>4, BelowFinite
<1>6. ~ (k < l) /\ ~ (l < k)
  BY <1>4, <1>5, RankGrows
<1> QED
  BY <1>3, <1>5, <1>6

LEMMA IntervalPart ==
  ASSUME NEW N \in Nat, NEW S \in SUBSET (1 .. N)
  PROVE  IsFiniteSet(S) /\ S \in SUBSET Nat
<1>1. IsFiniteSet(1 .. N)
  BY FS_Interval
<1>2. S \subseteq 1 .. N
  OBVIOUS
<1>3. IsFiniteSet(S)
  BY <1>1, <1>2, FS_Subset
<1> QED
  BY <1>2, <1>3

LEMMA NthIn ==
  ASSUME NEW N \in Nat, NEW S \in SUBSET (1 .. N), NEW n \in Nat, n < Cardinality(S)
  PROVE  Nth(S, n) \in S /\ Cardinality(Below(S, Nth(S, n))) = n
<1>1. IsFiniteSet(S) /\ S \in SUBSET Nat
  BY IntervalPart
<1>0. \A j \in S : j \in Nat /\ 1 <= j /\ j <= N
  OBVIOUS
<1> DEFINE T == {m \in Nat : Cardinality(Below(S, m)) > n}
<1>2. T \in SUBSET Nat
  OBVIOUS
<1>3. N + 1 \in T
  <2>1. \A j \in S : j < N + 1
    BY <1>0
  <2>2. Below(S, N + 1) = S
    BY <2>1, Zenon DEF Below
  <2> QED
    BY <2>2
<1>4. PICK m \in T : \A l \in T : m <= l
  <2> HIDE DEF T
  <2> QED
    BY <1>2, <1>3, LeastNatural
<1>5. m \in Nat /\ Cardinality(Below(S, m)) > n
  BY <1>4
<1>6. m # 0
  <2>1. \A j \in S : ~ (j < 0)
    BY <1>0
  <2>3. Below(S, 0) = {}
    BY <2>1, Zenon DEF Below
  <2>2. Cardinality(Below(S, 0)) = 0
    BY <2>3, FS_EmptySet
  <2> QED
    BY <1>5, <2>2
<1>7. PICK k \in Nat : k = m - 1 /\ m = k + 1
  BY <1>5, <1>6
<1>8. ~ (Cardinality(Below(S, k)) > n)
  <2>1. k \notin T
    <3>1. ~ (m <= k)
      BY <1>7
    <3> HIDE DEF T
    <3> QED
      BY <1>4, <3>1
  <2> QED
    BY <2>1
<1>9. k \in S /\ k \notin Below(S, k) /\ Below(S, m) = Below(S, k) \cup {k}
  <2>1. \A j \in S : j < m <=> j < k \/ j = k
    BY <1>0, <1>7
  <2>2. k \in S
    <3>1. SUFFICES ASSUME k \notin S PROVE FALSE
      OBVIOUS
    <3>2. Below(S, m) = Below(S, k)
      BY <2>1, <3>1 DEF Below
    <3> QED
      BY <1>5, <1>8, <3>2
  <2> QED
    <3>1. ~ (k < k)
      BY <1>7
    <3> QED
      BY <2>1, <2>2, <3>1, Zenon DEF Below
<1>10. /\ IsFiniteSet(Below(S, k)) /\ Cardinality(Below(S, k)) \in Nat
  BY <1>1, BelowFinite
<1>11. Cardinality(Below(S, m)) = Cardinality(Below(S, k)) + 1
  BY <1>9, <1>10, FS_AddElement
<1>12. Cardinality(Below(S, k)) = n
  BY <1>5, <1>8, <1>10, <1>11
<1>13. Nth(S, n) = k
  BY <1>1, <1>9, <1>12, NthIs
<1> QED
  BY <1>9, <1>12, <1>13

(* A new largest member has the highest rank and moves no other.           *)
AddsLast(S, m) ==
  /\ Cardinality(S) \in Nat
  /\ Cardinality(S \cup {m}) = Cardinality(S) + 1
  /\ Nth(S \cup {m}, Cardinality(S)) = m
  /\ \A n \in Nat : n < Cardinality(S) => Nth(S \cup {m}, n) = Nth(S, n)

LEMMA NthGrows ==
  ASSUME NEW N \in Nat, NEW S \in SUBSET (1 .. N), NEW m \in Nat, m > N
  PROVE  AddsLast(S, m)
<1> DEFINE R == S \cup {m}
<1>1. IsFiniteSet(S) /\ S \in SUBSET Nat /\ Cardinality(S) \in Nat
  BY IntervalPart, FS_CardinalityType
<1>0. \A j \in S : j \in Nat /\ 1 <= j /\ j <= N
  OBVIOUS
<1>6. m \notin S /\ (\A j \in S : j < m /\ ~ (m < j)) /\ ~ (m < m)
  BY <1>0
<1>2. IsFiniteSet(R) /\ Cardinality(R) = Cardinality(S) + 1 /\ R \in SUBSET Nat
  BY <1>1, <1>6, FS_AddElement
<1>3. Below(R, m) = S
  BY <1>6, Zenon DEF Below
<1>4. ASSUME NEW n \in Nat, n < Cardinality(S) PROVE Nth(R, n) = Nth(S, n)
  <2>1. PICK k : k = Nth(S, n)
    OBVIOUS
  <2>2. k \in S /\ Cardinality(Below(S, k)) = n
    BY <1>4, <2>1, NthIn
  <2>3. Below(R, k) = Below(S, k) /\ k \in R
    BY <1>6, <2>2, Zenon DEF Below
  <2> HIDE DEF R
  <2> QED
    BY <1>2, <2>1, <2>2, <2>3, NthIs
<1>5. Nth(R, Cardinality(S)) = m
  <2>1. m \in R
    OBVIOUS
  <2> HIDE DEF R
  <2> QED
    BY <1>2, <1>3, <2>1, NthIs
<1> QED
  BY <1>1, <1>2, <1>4, <1>5 DEF AddsLast

----------------------------------------------------------------------------
(* What the blocks of the file say.                                        *)
LEMMA BlockTypes ==
  ASSUME NEW b \in Blocks
  PROVE  /\ b.kind \in {"legacy", "enhanced", "simple"} => b.data \in Packets
         /\ b.kind = "enhanced" => b.if_id \in Nat
         /\ b.kind \in {"legacy_header", "interface"} => b.linktype \in LinkTypes
         /\ b.kind = "cut" => b.counted \in BOOLEAN
BY DEF Blocks

LEMMA FileType ==
  ASSUME file \in Files
  PROVE  /\ file \in Seq(Blocks) /\ Len(file) \in Nat /\ DOMAIN file = 1 .. Len(file)
         /\ \A k \in 1 .. Len(file) : file[k] \in Blocks
<1>1. file \in Seq(Blocks)
  BY ReaderAssumption
<1> QED
  BY <1>1

(* The blocks up to k of some kind, and up to the next block.              *)
UpTo(k, kind) == {j \in 1 .. k : file[j].kind = kind}

LEMMA UpToNext ==
  ASSUME NEW k \in Nat, NEW kind
  PROVE  /\ UpTo(k, kind) \in SUBSET (1 .. k)
         /\ file[k + 1].kind # kind => UpTo(k + 1, kind) = UpTo(k, kind)
         /\ file[k + 1].kind = kind => UpTo(k + 1, kind) = UpTo(k, kind) \cup {k + 1}
<1>1. \A j : j \in 1 .. (k + 1) <=> j \in 1 .. k \/ j = k + 1
  OBVIOUS
<1>2. UpTo(k, kind) \in SUBSET (1 .. k)
  BY DEF UpTo
<1>3. file[k + 1].kind # kind => UpTo(k + 1, kind) = UpTo(k, kind)
  BY <1>1, Zenon DEF UpTo
<1>4. file[k + 1].kind = kind => UpTo(k + 1, kind) = UpTo(k, kind) \cup {k + 1}
  BY <1>1, Zenon DEF UpTo
<1> QED
  BY <1>2, <1>3, <1>4

LEMMA LastUpTo ==
  ASSUME NEW k \in Nat, NEW kind
  PROVE  /\ Last(UpTo(k, kind)) \in 0 .. k
         /\ Last(UpTo(k, kind)) # 0 => Last(UpTo(k, kind)) \in UpTo(k, kind)
         /\ file[k + 1].kind # kind => Last(UpTo(k + 1, kind)) = Last(UpTo(k, kind))
         /\ file[k + 1].kind = kind => Last(UpTo(k + 1, kind)) = k + 1
<1>1. UpTo(k, kind) \in SUBSET (1 .. k) /\ UpTo(k + 1, kind) \in SUBSET (1 .. (k + 1))
  BY UpToNext
<1>4. Last(UpTo(k, kind)) \in 0 .. k /\ (Last(UpTo(k, kind)) # 0 => Last(UpTo(k, kind)) \in UpTo(k, kind))
  <2>1. CASE UpTo(k, kind) = {}
    BY <2>1 DEF Last
  <2>2. CASE UpTo(k, kind) # {}
    <3>1. Last(UpTo(k, kind)) \in UpTo(k, kind)
      BY <1>1, <2>2, LastIn
    <3>2. Last(UpTo(k, kind)) \in 1 .. k
      BY <1>1, <3>1
    <3> QED
      BY <3>1, <3>2
  <2> QED
    BY <2>1, <2>2
<1>5. file[k + 1].kind # kind => Last(UpTo(k + 1, kind)) = Last(UpTo(k, kind))
  BY UpToNext
<1>6. ASSUME file[k + 1].kind = kind PROVE Last(UpTo(k + 1, kind)) = k + 1
  <2>1. k + 1 \in UpTo(k + 1, kind)
    BY <1>6, UpToNext
  <2>2. UpTo(k + 1, kind) \in SUBSET Nat /\ \A x \in UpTo(k + 1, kind) : x <= k + 1
    BY <1>1
  <2> QED
    BY <2>1, <2>2, LastIs
<1> QED
  BY <1>4, <1>5, <1>6

LEMMA Sections ==
  ASSUME NEW k \in Nat
  PROVE  /\ SectionOf(k) \in 0 .. k
         /\ file[k + 1].kind # "section" => SectionOf(k + 1) = SectionOf(k)
         /\ file[k + 1].kind = "section" => SectionOf(k + 1) = k + 1
<1>1. SectionOf(k) = Last(UpTo(k, "section")) /\ SectionOf(k + 1) = Last(UpTo(k + 1, "section"))
  BY Zenon DEF SectionOf, UpTo
<1> QED
  BY <1>1, LastUpTo

LEMMA Descriptions ==
  ASSUME NEW k \in Nat
  PROVE  /\ Described(k) \in SUBSET (1 .. k)
         /\ file[k + 1].kind = "section" => Described(k + 1) = {}
         /\ file[k + 1].kind = "interface" => Described(k + 1) = Described(k) \cup {k + 1}
         /\ file[k + 1].kind \notin {"section", "interface"} => Described(k + 1) = Described(k)
<1>1. \A j : j \in 1 .. (k + 1) <=> j \in 1 .. k \/ j = k + 1
  OBVIOUS
<1>2. Described(k) \in SUBSET (1 .. k)
  BY DEF Described
<1>3. ASSUME file[k + 1].kind = "section" PROVE Described(k + 1) = {}
  <2>1. SectionOf(k + 1) = k + 1
    BY <1>3, Sections
  <2>2. \A j \in 1 .. (k + 1) : ~ (j > SectionOf(k + 1))
    BY <2>1
  <2> QED
    BY <2>2, Zenon DEF Described
<1>4. ASSUME file[k + 1].kind # "section" PROVE SectionOf(k + 1) = SectionOf(k) /\ k + 1 > SectionOf(k)
  BY <1>4, Sections
<1>5. ASSUME file[k + 1].kind = "interface" PROVE Described(k + 1) = Described(k) \cup {k + 1}
  <2>1. file[k + 1].kind # "section"
    BY <1>5
  <2> QED
    BY <1>1, <1>4, <1>5, <2>1, Zenon DEF Described
<1>6. ASSUME file[k + 1].kind \notin {"section", "interface"} PROVE Described(k + 1) = Described(k)
  <2>1. file[k + 1].kind # "section" /\ file[k + 1].kind # "interface"
    BY <1>6
  <2> QED
    BY <1>1, <1>4, <2>1, Zenon DEF Described
<1> QED
  BY <1>2, <1>3, <1>5, <1>6

LEMMA Headers ==
  ASSUME file \in Files, NEW k \in 0 .. Len(file)
  PROVE  /\ HeaderOf(k) \in LinkTypes
         /\ file[k + 1].kind # "legacy_header" => HeaderOf(k + 1) = HeaderOf(k)
         /\ file[k + 1].kind = "legacy_header" => HeaderOf(k + 1) = file[k + 1].linktype
<1>1. /\ HeaderOf(k) = IF Last(UpTo(k, "legacy_header")) = 0 THEN DefaultLinkType
                       ELSE file[Last(UpTo(k, "legacy_header"))].linktype
      /\ HeaderOf(k + 1) = IF Last(UpTo(k + 1, "legacy_header")) = 0 THEN DefaultLinkType
                           ELSE file[Last(UpTo(k + 1, "legacy_header"))].linktype
  BY Zenon DEF HeaderOf, UpTo
<1>2. k \in Nat /\ Len(file) \in Nat
  BY FileType
<1>3. PICK l : l = Last(UpTo(k, "legacy_header"))
  OBVIOUS
<1>4. l \in 0 .. k /\ (l # 0 => l \in UpTo(k, "legacy_header"))
  BY <1>2, <1>3, LastUpTo
<1>5. HeaderOf(k) \in LinkTypes
  <2>1. CASE l = 0
    BY <1>1, <1>3, <2>1, ReaderAssumption
  <2>2. CASE l # 0
    <3>1. l \in 1 .. Len(file) /\ file[l].kind = "legacy_header"
      BY <1>2, <1>4, <2>2 DEF UpTo
    <3>2. file[l] \in Blocks
      BY <3>1, FileType
    <3>3. file[l].linktype \in LinkTypes
      BY <3>1, <3>2, BlockTypes
    <3> QED
      BY <1>1, <1>3, <2>2, <3>3
  <2> QED
    BY <2>1, <2>2
<1>6. ASSUME file[k + 1].kind # "legacy_header" PROVE HeaderOf(k + 1) = HeaderOf(k)
  <2>1. Last(UpTo(k + 1, "legacy_header")) = Last(UpTo(k, "legacy_header"))
    BY <1>2, <1>6, LastUpTo
  <2> QED
    BY <1>1, <2>1
<1>7. ASSUME file[k + 1].kind = "legacy_header" PROVE HeaderOf(k + 1) = file[k + 1].linktype
  <2>1. Last(UpTo(k + 1, "legacy_header")) = k + 1
    BY <1>2, <1>7, LastUpTo
  <2>2. k + 1 # 0
    BY <1>2
  <2> QED
    BY <1>1, <2>1, <2>2
<1> QED
  BY <1>5, <1>6, <1>7

LEMMA InterfaceType ==
  ASSUME file \in Files, NEW k \in 0 .. Len(file), NEW i \in Nat
  PROVE  InterfaceOf(k, i) \in LinkTypes
<1>1. k \in Nat /\ Len(file) \in Nat /\ Described(k) \in SUBSET (1 .. k)
  BY FileType, Descriptions
<1>2. CASE i < Cardinality(Described(k))
  <2>1. PICK j : j = Nth(Described(k), i)
    OBVIOUS
  <2>2. j \in Described(k)
    BY <1>1, <1>2, <2>1, NthIn
  <2>3. j \in 1 .. Len(file) /\ file[j].kind = "interface"
    BY <1>1, <2>2 DEF Described
  <2>4. file[j].linktype \in LinkTypes
    BY <2>3, FileType, BlockTypes
  <2> QED
    BY <1>2, <2>1, <2>4 DEF InterfaceOf
<1>3. CASE ~ (i < Cardinality(Described(k)))
  BY <1>3, ReaderAssumption DEF InterfaceOf
<1> QED
  BY <1>2, <1>3

LEMMA PacketType ==
  ASSUME file \in Files, NEW k \in PacketBlocks
  PROVE  PacketOf(k) \in RawPackets
<1>1. k \in 1 .. Len(file) /\ file[k].kind \in {"legacy", "enhanced", "simple"}
  BY FileType DEF PacketBlocks, Readable
<1>2. file[k] \in Blocks /\ k \in 0 .. Len(file)
  BY <1>1, FileType
<1>3. PICK i : i = IF file[k].kind = "enhanced" THEN file[k].if_id ELSE 0
  OBVIOUS
<1>4. i \in Nat /\ file[k].data \in Packets
  BY <1>1, <1>2, <1>3, BlockTypes
<1>5. PICK l : l = IF file[k].kind = "legacy" THEN HeaderOf(k) ELSE InterfaceOf(k, i)
  OBVIOUS
<1>6. l \in LinkTypes
  BY <1>2, <1>4, <1>5, Headers, InterfaceType
<1>7. PacketOf(k) = [data |-> file[k].data, iface_id |-> i, linktype |-> l]
  BY <1>3, <1>5 DEF PacketOf
<1> QED
  BY <1>4, <1>6, <1>7 DEF RawPackets

LEMMA ContentsType ==
  ASSUME file \in Files
  PROVE  /\ PacketBlocks \in SUBSET (1 .. Len(file)) /\ IsFiniteSet(PacketBlocks)
         /\ Cardinality(PacketBlocks) \in Nat
         /\ Contents \in Seq(RawPackets) /\ Len(Contents) = Cardinality(PacketBlocks)
         /\ \A n \in 1 .. Len(Contents) : Contents[n] = PacketOf(Nth(PacketBlocks, n - 1))
<1>1. PacketBlocks \in SUBSET (1 .. Len(file)) /\ Len(file) \in Nat
  BY FileType DEF PacketBlocks, Readable
<1>2. IsFiniteSet(PacketBlocks)
  BY <1>1, IntervalPart
<1>3. Cardinality(PacketBlocks) \in Nat
  BY <1>2, FS_CardinalityType
<1>4. PICK N \in Nat : N = Cardinality(PacketBlocks)
  BY <1>3
<1>5. Contents = [n \in 1 .. N |-> PacketOf(Nth(PacketBlocks, n - 1))]
  BY <1>4 DEF Contents
<1>6. ASSUME NEW n \in 1 .. N PROVE PacketOf(Nth(PacketBlocks, n - 1)) \in RawPackets
  <2>1. n - 1 \in Nat /\ n - 1 < Cardinality(PacketBlocks)
    BY <1>4
  <2>2. Nth(PacketBlocks, n - 1) \in PacketBlocks
    BY <1>1, <2>1, NthIn
  <2> QED
    BY <2>2, PacketType
<1>7. PICK c : c = Contents
  OBVIOUS
<1>8. c \in [1 .. N -> RawPackets]
  BY <1>5, <1>6, <1>7
<1>9. c \in Seq(RawPackets) /\ Len(c) = N
  BY <1>8
<1>10. \A n \in 1 .. N : c[n] = PacketOf(Nth(PacketBlocks, n - 1))
  BY <1>5, <1>7
<1> QED
  BY <1>1, <1>2, <1>3, <1>4, <1>7, <1>9, <1>10

----------------------------------------------------------------------------
(* The reader.                                                             *)
LEMMA ReaderTypes ==
  ASSUME ReaderInv
  PROVE  /\ file \in Files /\ at \in Nat /\ at \in 0 .. Len(file) /\ Len(file) \in Nat
         /\ reading \in BOOLEAN /\ legacy_linktype \in LinkTypes /\ ifaces \in Seq(LinkTypes)
         /\ Len(ifaces) \in Nat /\ bad_blocks \in Nat
<1>1. file \in Files /\ at \in 0 .. Len(file)
  BY DEF ReaderInv, ReaderTypeOK
<1>2. Len(file) \in Nat
  BY <1>1, FileType
<1> QED
  BY <1>1, <1>2 DEF ReaderInv, ReaderTypeOK

(* What the reader looks up is what the file says.                         *)
LEMMA IfaceIs ==
  ASSUME ReaderInv, NEW i \in Nat
  PROVE  Iface(i) = InterfaceOf(at, i)
<1>1. Len(ifaces) = Cardinality(Described(at)) /\ Len(ifaces) \in Nat
  BY ReaderTypes DEF ReaderInv
<1>2. CASE i < Len(ifaces)
  <2>1. i + 1 \in 1 .. Len(ifaces) /\ (i + 1) - 1 = i
    BY <1>1, <1>2
  <2>2. ifaces[i + 1] = file[Nth(Described(at), (i + 1) - 1)].linktype
    BY <2>1 DEF ReaderInv
  <2> QED
    BY <1>1, <1>2, <2>1, <2>2 DEF Iface, InterfaceOf
<1>3. CASE ~ (i < Len(ifaces))
  BY <1>1, <1>3 DEF Iface, InterfaceOf
<1> QED
  BY <1>2, <1>3

(* The packet delivered is the next one of the file.                       *)
LEMMA DeliveredIs ==
  ASSUME ReaderInv, Upcoming({"legacy", "enhanced", "simple"})
  PROVE  /\ at + 1 \in PacketBlocks
         /\ Raw(Block) = PacketOf(at + 1)
         /\ {k \in PacketBlocks : k <= at + 1} = Before \cup {at + 1}
         /\ Cardinality(Before \cup {at + 1}) = Cardinality(Before) + 1
         /\ Cardinality(Before) \in Nat
         /\ Cardinality(Before) + 1 \in 1 .. Len(Contents)
         /\ Contents[Cardinality(Before) + 1] = PacketOf(at + 1)
<1>1. /\ file \in Files /\ at \in Nat /\ at \in 0 .. Len(file) /\ Len(file) \in Nat
  BY ReaderTypes
<1>2. PICK k \in Nat : k = at + 1
  BY <1>1
<1>3. /\ k \in 1 .. Len(file) /\ file[k].kind \in {"legacy", "enhanced", "simple"}
      /\ Block = file[k]
  BY <1>1, <1>2 DEF Upcoming, Block
<1>4. file[k] \in Blocks
  BY <1>1, <1>3, FileType
<1>5. k \in PacketBlocks
  <2>1. \A j \in 1 .. k : file[j].kind # "cut"
    <3>1. SUFFICES ASSUME NEW j \in 1 .. k PROVE file[j].kind # "cut"
      OBVIOUS
    <3>2. CASE j = k
      BY <1>3, <3>2
    <3>3. CASE j # k
      <4>1. j \in 1 .. at
        BY <1>1, <1>2, <3>3
      <4> QED
        BY <4>1 DEF ReaderInv
    <3> QED
      BY <3>2, <3>3
  <2>2. k \in DOMAIN file
    BY <1>1, <1>3, FileType
  <2> QED
    BY <1>3, <2>1, <2>2 DEF PacketBlocks, Readable
<1>6. HeaderOf(k) = HeaderOf(at) /\ Described(k) = Described(at)
  <2>1. /\ file[at + 1].kind # "legacy_header"
        /\ file[at + 1].kind \notin {"section", "interface"}
    BY <1>2, <1>3
  <2>2. HeaderOf(at + 1) = HeaderOf(at)
    BY <1>1, <2>1, Headers
  <2>3. Described(at + 1) = Described(at)
    BY <1>1, <2>1, Descriptions
  <2> QED
    BY <1>2, <2>2, <2>3
<1>7. \A i \in Nat : Iface(i) = InterfaceOf(k, i)
  BY <1>6, IfaceIs DEF InterfaceOf
<1>8. legacy_linktype = HeaderOf(k)
  BY <1>6 DEF ReaderInv
<1>9. Raw(file[k]) = PacketOf(k)
  <2>1. PICK b : b = file[k]
    OBVIOUS
  <2>2. CASE b.kind = "legacy"
    <3>1. Raw(b) = [data |-> b.data, linktype |-> legacy_linktype, iface_id |-> 0]
      BY <2>2 DEF Raw
    <3>2. PacketOf(k) = [data |-> b.data, iface_id |-> 0, linktype |-> HeaderOf(k)]
      BY <2>1, <2>2 DEF PacketOf
    <3> QED
      BY <1>8, <2>1, <3>1, <3>2
  <2>3. CASE b.kind = "enhanced"
    <3>1. b.if_id \in Nat
      BY <1>4, <2>1, <2>3, BlockTypes
    <3>2. Raw(b) = [data |-> b.data, linktype |-> Iface(b.if_id), iface_id |-> b.if_id]
      BY <2>3 DEF Raw
    <3>3. PacketOf(k) = [data |-> b.data, iface_id |-> b.if_id, linktype |-> InterfaceOf(k, b.if_id)]
      BY <2>1, <2>3 DEF PacketOf
    <3>4. Iface(b.if_id) = InterfaceOf(k, b.if_id)
      BY <1>7, <3>1
    <3> QED
      BY <2>1, <3>2, <3>3, <3>4
  <2>4. CASE b.kind = "simple"
    <3>1. Raw(b) = [data |-> b.data, linktype |-> Iface(0), iface_id |-> 0]
      BY <2>4 DEF Raw
    <3>2. PacketOf(k) = [data |-> b.data, iface_id |-> 0, linktype |-> InterfaceOf(k, 0)]
      BY <2>1, <2>4 DEF PacketOf
    <3>3. Iface(0) = InterfaceOf(k, 0)
      BY <1>7
    <3> QED
      BY <2>1, <3>1, <3>2, <3>3
  <2> QED
    BY <1>3, <2>1, <2>2, <2>3, <2>4
<1>10. /\ PacketBlocks \in SUBSET (1 .. Len(file)) /\ IsFiniteSet(PacketBlocks)
       /\ Len(Contents) = Cardinality(PacketBlocks) /\ Cardinality(PacketBlocks) \in Nat
       /\ \A n \in 1 .. Len(Contents) : Contents[n] = PacketOf(Nth(PacketBlocks, n - 1))
  BY <1>1, ContentsType
<1>11. \A j \in PacketBlocks : j \in Nat /\ (j <= k <=> j <= at \/ j = k) /\ (j < k <=> j <= at)
  BY <1>1, <1>2, <1>10
<1>12. {j \in PacketBlocks : j <= k} = Before \cup {k}
  BY <1>5, <1>11, Zenon DEF Before
<1>13. Before = Below(PacketBlocks, k) /\ k \notin Before /\ Before \cup {k} \subseteq PacketBlocks
  <2>1. ~ (k <= at)
    BY <1>1, <1>2
  <2> QED
    BY <1>5, <1>11, <2>1, Zenon DEF Before, Below
<1>14. IsFiniteSet(Before) /\ Cardinality(Before) \in Nat
  BY <1>10, <1>13, BelowFinite
<1>15. Cardinality(Before \cup {k}) = Cardinality(Before) + 1
  BY <1>13, <1>14, FS_AddElement
<1>16. Cardinality(Before) + 1 <= Cardinality(PacketBlocks)
  <2>1. Cardinality(Before \cup {k}) <= Cardinality(PacketBlocks)
    BY <1>10, <1>13, FS_Subset
  <2> QED
    BY <1>15, <2>1
<1>17. PICK n \in Nat : n = Cardinality(Before)
  BY <1>14
<1>18. Nth(PacketBlocks, n) = k
  <2>1. PacketBlocks \in SUBSET Nat
    BY <1>11
  <2>2. Cardinality(Below(PacketBlocks, k)) = n
    BY <1>13, <1>17
  <2> QED
    BY <1>5, <1>10, <2>1, <2>2, NthIs
<1>19. n + 1 \in 1 .. Len(Contents) /\ (n + 1) - 1 = n
  BY <1>10, <1>16, <1>17
<1>20. Contents[n + 1] = PacketOf(k)
  <2>1. Contents[n + 1] = PacketOf(Nth(PacketBlocks, (n + 1) - 1))
    BY <1>10, <1>19
  <2> QED
    BY <1>18, <1>19, <2>1
<1> QED
  BY <1>2, <1>3, <1>5, <1>9, <1>12, <1>14, <1>15, <1>17, <1>19, <1>20

(* What a file holds does not depend on the reader.                        *)
LEMMA SameFile ==
  ASSUME file' = file
  PROVE  Contents' = Contents /\ PacketBlocks' = PacketBlocks
<1>1. PacketBlocks' = PacketBlocks
  BY DEF PacketBlocks, Readable
<1>2. \A k : SectionOf(k)' = SectionOf(k)
  BY DEF SectionOf
<1>3. \A k : Described(k)' = Described(k)
  BY <1>2 DEF Described
<1>4. \A k, i : InterfaceOf(k, i)' = InterfaceOf(k, i)
  BY <1>3 DEF InterfaceOf
<1>5. \A k : HeaderOf(k)' = HeaderOf(k)
  BY DEF HeaderOf
<1>6. \A k : PacketOf(k)' = PacketOf(k)
  BY <1>4, <1>5 DEF PacketOf
<1> QED
  BY <1>1, <1>6 DEF Contents

(* A block that is read is not the cut.                                    *)
LEMMA ConsumeKeeps ==
  ASSUME ReaderInv, NEW kinds, Upcoming(kinds), "cut" \notin kinds, Consume
  PROVE  /\ file' = file /\ at' = at + 1 /\ reading /\ reading' = reading
         /\ at' \in 0 .. Len(file) /\ file[at + 1] \in Blocks /\ file[at + 1].kind \in kinds
         /\ \A j \in 1 .. at' : file[j].kind # "cut"
         /\ bad_blocks' = bad_blocks /\ ~ (bad_blocks > 0)
         /\ HeaderOf(at)' = HeaderOf(at + 1) /\ Described(at)' = Described(at + 1)
<1>1. /\ file \in Files /\ at \in Nat /\ at \in 0 .. Len(file) /\ Len(file) \in Nat
  BY ReaderTypes
<1>2. /\ file' = file /\ at' = at + 1 /\ reading' = reading /\ bad_blocks' = bad_blocks
      /\ reading /\ at < Len(file) /\ file[at + 1].kind \in kinds
  BY DEF Consume, Upcoming
<1>3. at + 1 \in 1 .. Len(file) /\ at' \in 0 .. Len(file)
  BY <1>1, <1>2
<1>4. file[at + 1] \in Blocks
  BY <1>1, <1>3, FileType
<1>5. ASSUME NEW j \in 1 .. at' PROVE file[j].kind # "cut"
  <2>1. CASE j = at + 1
    BY <1>2, <2>1
  <2>2. CASE j # at + 1
    <3>1. j \in 1 .. at
      BY <1>1, <1>2, <2>2
    <3> QED
      BY <3>1 DEF ReaderInv
  <2> QED
    BY <2>1, <2>2
<1>6. ~ (bad_blocks > 0)
  BY <1>2 DEF ReaderInv
<1>7. HeaderOf(at)' = HeaderOf(at + 1)
  BY <1>2 DEF HeaderOf
<1>8. Described(at)' = Described(at + 1)
  BY <1>2 DEF Described, SectionOf
<1> QED
  BY <1>2, <1>3, <1>4, <1>5, <1>6, <1>7, <1>8

(* The parts of ReaderInv that the reading of a block must establish.      *)
LEMMA ReaderInvFrom ==
  ASSUME ReaderInv, NEW kinds, Upcoming(kinds), "cut" \notin kinds, Consume,
         legacy_linktype' = HeaderOf(at + 1), ifaces' \in Seq(LinkTypes),
         Len(ifaces') = Cardinality(Described(at + 1)),
         \A i \in 1 .. Len(ifaces') : ifaces'[i] = file[Nth(Described(at + 1), i - 1)].linktype
  PROVE  ReaderInv'
<1>1. /\ file' = file /\ at' = at + 1 /\ reading /\ reading' = reading
      /\ at' \in 0 .. Len(file)
      /\ \A j \in 1 .. at' : file[j].kind # "cut"
      /\ bad_blocks' = bad_blocks /\ ~ (bad_blocks > 0)
      /\ HeaderOf(at)' = HeaderOf(at + 1) /\ Described(at)' = Described(at + 1)
  BY ConsumeKeeps
<1>2. file \in Files /\ bad_blocks \in 0 .. 1 /\ at + 1 \in 0 .. Len(file)
  BY <1>1 DEF ReaderInv, ReaderTypeOK
<1>3. legacy_linktype' \in LinkTypes
  BY <1>2, Headers
<1>4. ReaderTypeOK'
  BY <1>1, <1>2, <1>3 DEF ReaderTypeOK
<1>5. ~ reading' => at' = Len(file') \/ file'[at' + 1].kind = "cut"
  BY <1>1
<1>6. bad_blocks' > 0 <=> ~ reading' /\ at' < Len(file') /\ file'[at' + 1].counted
  BY <1>1
<1>7. legacy_linktype' = HeaderOf(at)' /\ Len(ifaces') = Cardinality(Described(at)')
  BY <1>1
<1>8. \A i \in 1 .. Len(ifaces') : ifaces'[i] = file'[Nth(Described(at)', i - 1)].linktype
  BY <1>1
<1>9. \A j \in 1 .. at' : file'[j].kind # "cut"
  BY <1>1
<1> QED
  BY <1>4, <1>5, <1>6, <1>7, <1>8, <1>9 DEF ReaderInv

LEMMA AbsorbedKeeps ==
  ASSUME ReaderInv, Absorbed
  PROVE  ReaderInv' /\ file' = file /\ at' = at + 1 /\ reading' = reading /\ bad_blocks' = bad_blocks
         /\ file[at + 1].kind \notin {"legacy", "enhanced", "simple"}
<1>1. /\ file \in Files /\ at \in Nat /\ at \in 0 .. Len(file) /\ Len(file) \in Nat
      /\ ifaces \in Seq(LinkTypes) /\ Len(ifaces) \in Nat
  BY ReaderTypes
<1>2. /\ legacy_linktype = HeaderOf(at) /\ Len(ifaces) = Cardinality(Described(at))
      /\ \A i \in 1 .. Len(ifaces) : ifaces[i] = file[Nth(Described(at), i - 1)].linktype
  BY DEF ReaderInv
<1>3. CASE LegacyHeader
  <2>1. /\ Upcoming({"legacy_header"}) /\ Consume
        /\ legacy_linktype' = file[at + 1].linktype /\ ifaces' = ifaces
    BY <1>3 DEF LegacyHeader, Block
  <2>2. file[at + 1].kind = "legacy_header" /\ file' = file /\ at' = at + 1
    BY <2>1, ConsumeKeeps
  <2>3. HeaderOf(at + 1) = file[at + 1].linktype
    BY <1>1, <2>2, Headers
  <2>4. Described(at + 1) = Described(at)
    BY <1>1, <2>2, Descriptions
  <2>5. ReaderInv'
    BY <1>1, <1>2, <2>1, <2>3, <2>4, ReaderInvFrom
  <2> QED
    BY <2>1, <2>2, <2>5 DEF Consume
<1>4. CASE SectionHeader
  <2>1. /\ Upcoming({"section"}) /\ Consume
        /\ legacy_linktype' = legacy_linktype /\ ifaces' = <<>>
    BY <1>4 DEF SectionHeader
  <2>2. file[at + 1].kind = "section" /\ file' = file /\ at' = at + 1
    BY <2>1, ConsumeKeeps
  <2>3. HeaderOf(at + 1) = HeaderOf(at)
    BY <1>1, <2>2, Headers
  <2>4. Described(at + 1) = {}
    BY <1>1, <2>2, Descriptions
  <2>5. /\ ifaces' \in Seq(LinkTypes) /\ Len(ifaces') = 0
    BY <2>1, EmptySeq
  <2>6. Cardinality(Described(at + 1)) = 0
    BY <2>4, FS_EmptySet
  <2>7. \A i \in 1 .. Len(ifaces') : ifaces'[i] = file[Nth(Described(at + 1), i - 1)].linktype
    BY <2>5
  <2>8. legacy_linktype' = HeaderOf(at + 1) /\ Len(ifaces') = Cardinality(Described(at + 1))
    BY <1>2, <2>1, <2>3, <2>5, <2>6
  <2>9. ReaderInv'
    BY <2>1, <2>5, <2>7, <2>8, ReaderInvFrom
  <2> QED
    BY <2>1, <2>2, <2>9 DEF Consume
<1>5. CASE InterfaceDescription
  <2>1. /\ Upcoming({"interface"}) /\ Consume
        /\ legacy_linktype' = legacy_linktype /\ ifaces' = Append(ifaces, file[at + 1].linktype)
    BY <1>5 DEF InterfaceDescription, Block
  <2>2. file[at + 1].kind = "interface" /\ file' = file /\ at' = at + 1 /\ file[at + 1] \in Blocks
    BY <2>1, ConsumeKeeps
  <2>3. HeaderOf(at + 1) = HeaderOf(at)
    BY <1>1, <2>2, Headers
  <2>4. PICK S : S = Described(at)
    OBVIOUS
  <2>5. PICK m \in Nat : m = at + 1
    BY <1>1
  <2>6. Described(at + 1) = S \cup {m} /\ S \in SUBSET (1 .. at)
    BY <1>1, <2>2, <2>4, <2>5, Descriptions
  <2>7. /\ Cardinality(S) \in Nat /\ Cardinality(S \cup {m}) = Cardinality(S) + 1
        /\ Nth(S \cup {m}, Cardinality(S)) = m
        /\ \A n \in Nat : n < Cardinality(S) => Nth(S \cup {m}, n) = Nth(S, n)
    <3>1. m > at
      BY <1>1, <2>5
    <3>2. S \in SUBSET (1 .. at) /\ m \in Nat
      BY <2>5, <2>6
    <3>3. PICK a \in Nat : a = at
      BY <1>1
    <3>4. a \in Nat /\ S \in SUBSET (1 .. a) /\ m \in Nat /\ m > a
      BY <3>1, <3>2, <3>3
    <3>5. AddsLast(S, m)
      BY <3>4, NthGrows
    <3> QED
      BY <3>5 DEF AddsLast
  <2>8. PICK l : l = file[at + 1].linktype
    OBVIOUS
  <2>9. l \in LinkTypes
    BY <2>2, <2>8, BlockTypes
  <2>10. PICK e : e = Append(ifaces, l)
    OBVIOUS
  <2>11. /\ e \in Seq(LinkTypes) /\ Len(e) = Len(ifaces) + 1
         /\ \A i \in 1 .. Len(ifaces) : e[i] = ifaces[i]
         /\ e[Len(ifaces) + 1] = l
    BY <1>1, <2>9, <2>10
  <2>12. Len(ifaces) = Cardinality(S)
    BY <1>2, <2>4
  <2>13. ASSUME NEW i \in 1 .. Len(e) PROVE e[i] = file[Nth(S \cup {m}, i - 1)].linktype
    <3>1. CASE i = Len(ifaces) + 1
      <4>1. i - 1 = Cardinality(S)
        BY <1>1, <2>12, <3>1
      <4>2. Nth(S \cup {m}, i - 1) = m
        BY <2>7, <4>1
      <4> QED
        BY <2>5, <2>8, <2>11, <3>1, <4>2
    <3>2. CASE i # Len(ifaces) + 1
      <4>1. i \in 1 .. Len(ifaces) /\ i - 1 \in Nat /\ i - 1 < Cardinality(S)
        BY <1>1, <2>11, <2>12, <2>13, <3>2
      <4>2. Nth(S \cup {m}, i - 1) = Nth(S, i - 1)
        BY <2>7, <4>1
      <4>3. ifaces[i] = file[Nth(S, i - 1)].linktype
        BY <1>2, <2>4, <4>1
      <4> QED
        BY <2>11, <4>1, <4>2, <4>3
    <3> QED
      BY <3>1, <3>2
  <2>14. ifaces' = e /\ legacy_linktype' = HeaderOf(at + 1)
    BY <1>2, <2>1, <2>3, <2>8, <2>10
  <2>15. Len(e) = Cardinality(S \cup {m})
    BY <2>7, <2>11, <2>12
  <2>16. /\ ifaces' \in Seq(LinkTypes) /\ Len(ifaces') = Cardinality(Described(at + 1))
         /\ \A i \in 1 .. Len(ifaces') : ifaces'[i] = file[Nth(Described(at + 1), i - 1)].linktype
    BY <2>6, <2>11, <2>13, <2>14, <2>15
  <2>17. ReaderInv'
    BY <2>1, <2>14, <2>16, ReaderInvFrom
  <2> QED
    BY <2>1, <2>2, <2>17 DEF Consume
<1>6. CASE OtherBlock
  <2>1. /\ Upcoming({"other"}) /\ Consume
        /\ legacy_linktype' = legacy_linktype /\ ifaces' = ifaces
    BY <1>6 DEF OtherBlock
  <2>2. file[at + 1].kind = "other" /\ file' = file /\ at' = at + 1
    BY <2>1, ConsumeKeeps
  <2>3. HeaderOf(at + 1) = HeaderOf(at)
    BY <1>1, <2>2, Headers
  <2>4. Described(at + 1) = Described(at)
    BY <1>1, <2>2, Descriptions
  <2>5. ReaderInv'
    BY <1>1, <1>2, <2>1, <2>3, <2>4, ReaderInvFrom
  <2> QED
    BY <2>1, <2>2, <2>5 DEF Consume
<1> QED
  BY <1>3, <1>4, <1>5, <1>6 DEF Absorbed

LEMMA DeliverKeeps ==
  ASSUME ReaderInv, Deliver
  PROVE  ReaderInv' /\ file' = file /\ at' = at + 1 /\ reading' = reading /\ bad_blocks' = bad_blocks
<1>1. /\ file \in Files /\ at \in Nat /\ at \in 0 .. Len(file) /\ Len(file) \in Nat
      /\ ifaces \in Seq(LinkTypes)
  BY ReaderTypes
<1>2. /\ legacy_linktype = HeaderOf(at) /\ Len(ifaces) = Cardinality(Described(at))
      /\ \A i \in 1 .. Len(ifaces) : ifaces[i] = file[Nth(Described(at), i - 1)].linktype
  BY DEF ReaderInv
<1>3. /\ Upcoming({"legacy", "enhanced", "simple"}) /\ Consume
      /\ legacy_linktype' = legacy_linktype /\ ifaces' = ifaces
  BY DEF Deliver
<1>4. file[at + 1].kind \in {"legacy", "enhanced", "simple"}
  BY <1>3, ConsumeKeeps
<1>5. HeaderOf(at + 1) = HeaderOf(at)
  BY <1>1, <1>4, Headers
<1>6. Described(at + 1) = Described(at)
  BY <1>1, <1>4, Descriptions
<1>7. ReaderInv'
  BY <1>1, <1>2, <1>3, <1>5, <1>6, ReaderInvFrom
<1> QED
  BY <1>3, <1>7 DEF Consume

LEMMA StopKeeps ==
  ASSUME ReaderInv, Stop
  PROVE  ReaderInv' /\ file' = file /\ at' = at
<1>1. /\ file' = file /\ at' = at /\ ifaces' = ifaces /\ legacy_linktype' = legacy_linktype
      /\ reading /\ ~ reading' /\ (at = Len(file) \/ Upcoming({"cut"}))
      /\ bad_blocks' = IF Upcoming({"cut"}) /\ Block.counted THEN bad_blocks + 1 ELSE bad_blocks
  BY DEF Stop
<1>2. /\ file \in Files /\ at \in Nat /\ at \in 0 .. Len(file) /\ Len(file) \in Nat
  BY ReaderTypes
<1>3. bad_blocks \in 0 .. 1 /\ ~ (bad_blocks > 0)
  BY <1>1 DEF ReaderInv, ReaderTypeOK
<1>4. bad_blocks = 0
  BY <1>3
<1>5. Upcoming({"cut"}) <=> at < Len(file) /\ file[at + 1].kind = "cut"
  BY <1>1 DEF Upcoming
<1>6. at < Len(file) => Upcoming({"cut"})
  BY <1>1, <1>2
<1>7. bad_blocks' \in 0 .. 1 /\ (bad_blocks' > 0 <=> at < Len(file) /\ file[at + 1].counted)
  <2>1. CASE Upcoming({"cut"}) /\ Block.counted
    BY <1>1, <1>4, <1>5, <2>1 DEF Block
  <2>2. CASE ~ (Upcoming({"cut"}) /\ Block.counted)
    BY <1>1, <1>4, <1>6, <2>2 DEF Block
  <2> QED
    BY <2>1, <2>2
<1>8. HeaderOf(at)' = HeaderOf(at)
  BY <1>1 DEF HeaderOf
<1>9. Described(at)' = Described(at)
  BY <1>1 DEF Described, SectionOf
<1>10. ReaderTypeOK'
  <2>1. reading' = FALSE
    BY DEF Stop
  <2> QED
    BY <1>1, <1>7, <2>1 DEF ReaderInv, ReaderTypeOK
<1>11. at' = Len(file') \/ file'[at' + 1].kind = "cut"
  BY <1>1, <1>5
<1>12. /\ legacy_linktype' = HeaderOf(at)' /\ Len(ifaces') = Cardinality(Described(at)')
       /\ \A i \in 1 .. Len(ifaces') : ifaces'[i] = file'[Nth(Described(at)', i - 1)].linktype
  BY <1>1, <1>8, <1>9 DEF ReaderInv
<1>13. \A j \in 1 .. at' : file'[j].kind # "cut"
  BY <1>1 DEF ReaderInv
<1>14. bad_blocks' > 0 <=> ~ reading' /\ at' < Len(file') /\ file'[at' + 1].counted
  BY <1>1, <1>7
<1> QED
  BY <1>1, <1>10, <1>11, <1>12, <1>13, <1>14 DEF ReaderInv

LEMMA ReaderStays ==
  ASSUME ReaderInv, UNCHANGED readerVars
  PROVE  ReaderInv' /\ file' = file /\ Before' = Before
<1>1. /\ file' = file /\ at' = at /\ ifaces' = ifaces /\ legacy_linktype' = legacy_linktype
      /\ reading' = reading /\ bad_blocks' = bad_blocks
  BY DEF readerVars
<1>2. HeaderOf(at)' = HeaderOf(at)
  BY <1>1 DEF HeaderOf
<1>3. Described(at)' = Described(at)
  BY <1>1 DEF Described, SectionOf
<1>4. ReaderTypeOK'
  BY <1>1 DEF ReaderInv, ReaderTypeOK
<1>5. /\ legacy_linktype' = HeaderOf(at)' /\ Len(ifaces') = Cardinality(Described(at)')
      /\ \A i \in 1 .. Len(ifaces') : ifaces'[i] = file'[Nth(Described(at)', i - 1)].linktype
  BY <1>1, <1>2, <1>3 DEF ReaderInv
<1>6. /\ \A j \in 1 .. at' : file'[j].kind # "cut"
      /\ ~ reading' => at' = Len(file') \/ file'[at' + 1].kind = "cut"
  BY <1>1 DEF ReaderInv
<1>7. bad_blocks' > 0 <=> ~ reading' /\ at' < Len(file') /\ file'[at' + 1].counted
  BY <1>1 DEF ReaderInv
<1>8. Before' = Before
  BY <1>1, SameFile DEF Before
<1> QED
  BY <1>1, <1>4, <1>5, <1>6, <1>7, <1>8 DEF ReaderInv

----------------------------------------------------------------------------
(* What a step of the reader does to the packet blocks read.               *)
LEMMA NotRead ==
  ASSUME ReaderInv, Absorbed \/ Stop
  PROVE  ReaderInv' /\ Contents' = Contents /\ Before' = Before
<1>1. /\ file \in Files /\ at \in Nat
  BY ReaderTypes
<1>2. CASE Absorbed
  <2>1. /\ ReaderInv' /\ file' = file /\ at' = at + 1
        /\ file[at + 1].kind \notin {"legacy", "enhanced", "simple"}
    BY <1>2, AbsorbedKeeps
  <2>2. Contents' = Contents /\ PacketBlocks' = PacketBlocks
    BY <2>1, SameFile
  <2>3. at + 1 \notin PacketBlocks
    BY <2>1 DEF PacketBlocks
  <2>4. PacketBlocks \in SUBSET (1 .. Len(file)) /\ Len(file) \in Nat
    BY <1>1, ContentsType, FileType
  <2>5. \A k \in PacketBlocks : k <= at + 1 <=> k <= at
    BY <1>1, <2>3, <2>4
  <2> QED
    BY <2>1, <2>2, <2>5 DEF Before
<1>3. CASE Stop
  <2>1. ReaderInv' /\ file' = file /\ at' = at
    BY <1>3, StopKeeps
  <2> QED
    BY <2>1, SameFile DEF Before
<1> QED
  BY <1>2, <1>3

LEMMA NextRead ==
  ASSUME ReaderInv, Deliver
  PROVE  /\ ReaderInv' /\ Contents' = Contents
         /\ Cardinality(Before) \in Nat /\ Cardinality(Before') = Cardinality(Before) + 1
         /\ Cardinality(Before) + 1 \in 1 .. Len(Contents)
         /\ Raw(Block) = Contents[Cardinality(Before) + 1] /\ Raw(Block) \in RawPackets
         /\ reading' = reading
<1>1. ReaderInv' /\ file' = file /\ at' = at + 1 /\ reading' = reading
  BY DeliverKeeps
<1>2. Upcoming({"legacy", "enhanced", "simple"})
  BY DEF Deliver
<1>3. /\ at + 1 \in PacketBlocks
      /\ Raw(Block) = PacketOf(at + 1)
      /\ {k \in PacketBlocks : k <= at + 1} = Before \cup {at + 1}
      /\ Cardinality(Before \cup {at + 1}) = Cardinality(Before) + 1
      /\ Cardinality(Before) \in Nat
      /\ Cardinality(Before) + 1 \in 1 .. Len(Contents)
      /\ Contents[Cardinality(Before) + 1] = PacketOf(at + 1)
  BY <1>2, DeliveredIs
<1>4. file \in Files
  BY ReaderTypes
<1>5. Contents' = Contents /\ PacketBlocks' = PacketBlocks
  BY <1>1, SameFile
<1>6. Before' = Before \cup {at + 1}
  BY <1>1, <1>3, <1>5 DEF Before
<1>7. PacketOf(at + 1) \in RawPackets
  BY <1>3, <1>4, PacketType
<1> QED
  BY <1>1, <1>3, <1>5, <1>6, <1>7

(* All packet blocks are read once the reader has stopped.                 *)
LEMMA AllRead ==
  ASSUME ReaderInv
  PROVE  /\ Cardinality(Before) \in Nat /\ Cardinality(Before) <= Len(Contents)
         /\ ~ reading => Cardinality(Before) = Len(Contents)
         /\ Contents \in Seq(RawPackets) /\ Len(Contents) \in Nat
<1>1. /\ file \in Files /\ at \in Nat /\ at \in 0 .. Len(file) /\ Len(file) \in Nat
  BY ReaderTypes
<1>2. /\ PacketBlocks \in SUBSET (1 .. Len(file)) /\ IsFiniteSet(PacketBlocks)
      /\ Cardinality(PacketBlocks) \in Nat
      /\ Contents \in Seq(RawPackets) /\ Len(Contents) = Cardinality(PacketBlocks)
  BY <1>1, ContentsType
<1>3. Before \subseteq PacketBlocks
  BY DEF Before
<1>4. Cardinality(Before) \in Nat /\ Cardinality(Before) <= Cardinality(PacketBlocks)
  BY <1>2, <1>3, FS_Subset, FS_CardinalityType
<1>5. ASSUME ~ reading PROVE Before = PacketBlocks
  <2>1. at = Len(file) \/ file[at + 1].kind = "cut"
    BY <1>5 DEF ReaderInv
  <2>2. SUFFICES ASSUME NEW k \in PacketBlocks PROVE k <= at
    BY DEF Before
  <2>3. k \in 1 .. Len(file) /\ \A j \in 1 .. k : file[j].kind # "cut"
    BY <1>2, <2>2 DEF PacketBlocks, Readable
  <2>4. CASE at = Len(file)
    BY <1>1, <2>3, <2>4
  <2>5. CASE file[at + 1].kind = "cut"
    <3>1. at + 1 \notin 1 .. k
      BY <2>3, <2>5
    <3> QED
      BY <1>1, <2>3, <3>1
  <2> QED
    BY <2>1, <2>4, <2>5
<1> QED
  BY <1>2, <1>4, <1>5

(* The counted damage is the block the reader stopped at.                  *)
LEMMA DamageIs ==
  ASSUME ReaderInv, ~ reading
  PROVE  bad_blocks > 0 <=> Damaged
<1>1. /\ file \in Files /\ at \in Nat /\ at \in 0 .. Len(file) /\ Len(file) \in Nat
  BY ReaderTypes
<1>2. DOMAIN file = 1 .. Len(file)
  BY <1>1, FileType
<1>3. /\ \A j \in 1 .. at : file[j].kind # "cut"
      /\ (at = Len(file) \/ file[at + 1].kind = "cut")
      /\ bad_blocks > 0 <=> at < Len(file) /\ file[at + 1].counted
  BY DEF ReaderInv
<1>4. ASSUME at < Len(file), file[at + 1].counted PROVE Damaged
  <2>1. at + 1 \in DOMAIN file /\ at # Len(file) /\ (at + 1) - 1 = at
    <3>1. at < Len(file)
      BY <1>4
    <3>2. at + 1 \in 1 .. Len(file) /\ at # Len(file) /\ (at + 1) - 1 = at
      BY <1>1, <3>1
    <3> QED
      BY <1>2, <3>2
  <2>2. file[at + 1].kind = "cut"
    BY <1>3, <2>1
  <2> QED
    BY <1>3, <1>4, <2>1, <2>2 DEF Damaged
<1>5. ASSUME Damaged PROVE at < Len(file) /\ file[at + 1].counted
  <2>1. PICK k \in DOMAIN file : /\ file[k].kind = "cut" /\ file[k].counted
                                 /\ \A j \in 1 .. (k - 1) : file[j].kind # "cut"
    BY <1>5 DEF Damaged
  <2>2. k \in 1 .. Len(file) /\ k \notin 1 .. at
    BY <1>2, <1>3, <2>1
  <2>3. at < k /\ at < Len(file)
    BY <1>1, <2>2
  <2>4. at + 1 \notin 1 .. (k - 1)
    BY <1>3, <2>1, <2>3
  <2>5. k = at + 1
    BY <1>1, <2>2, <2>3, <2>4
  <2> QED
    BY <2>1, <2>3, <2>5
<1> QED
  BY <1>3, <1>4, <1>5

----------------------------------------------------------------------------
LEMMA ReaderInitInv ==
  ASSUME ReaderInit
  PROVE  ReaderInv /\ Before = {}
<1>1. /\ file \in Files /\ at = 0 /\ reading = TRUE /\ legacy_linktype = DefaultLinkType
      /\ ifaces = <<>> /\ bad_blocks = 0
  BY DEF ReaderInit
<1>2. 1 .. 0 = {} /\ Len(file) \in Nat
  BY <1>1, FileType
<1>3. HeaderOf(0) = DefaultLinkType
  <2>1. {j \in 1 .. 0 : file[j].kind = "legacy_header"} = {}
    BY <1>2
  <2>2. Last({}) = 0
    BY DEF Last
  <2> QED
    BY <2>1, <2>2 DEF HeaderOf
<1>4. Described(0) = {} /\ Cardinality({}) = 0
  BY <1>2, FS_EmptySet DEF Described
<1>5. ReaderTypeOK
  <2>1. <<>> \in Seq(LinkTypes)
    BY EmptySeq
  <2> QED
    BY <1>1, <1>2, <2>1, ReaderAssumption DEF ReaderTypeOK
<1>6. Before = {}
  <2>1. PacketBlocks \in SUBSET (1 .. Len(file))
    BY <1>1, ContentsType
  <2>2. \A k \in PacketBlocks : ~ (k <= 0)
    BY <2>1
  <2> QED
    BY <1>1, <2>2 DEF Before
<1>7. Len(<<>>) = 0
  OBVIOUS
<1>8. /\ legacy_linktype = HeaderOf(at) /\ Len(ifaces) = Cardinality(Described(at))
      /\ \A j \in 1 .. at : file[j].kind # "cut"
      /\ \A i \in 1 .. Len(ifaces) : ifaces[i] = file[Nth(Described(at), i - 1)].linktype
  BY <1>1, <1>2, <1>3, <1>4, <1>7
<1>9. ~ (bad_blocks > 0) /\ reading
  BY <1>1
<1> QED
  BY <1>5, <1>6, <1>8, <1>9 DEF ReaderInv

LEMMA InitInv ==
  ASSUME Init
  PROVE  IInv
<1>1. /\ ReaderInit /\ chunk = <<>> /\ filled = 0 /\ done = {} /\ phase = "read" /\ tail = FALSE
      /\ tables = <<>> /\ builder = <<>> /\ out = <<>> /\ batches = <<>>
      /\ stats = [packets |-> 0, panicked |-> 0, bad_blocks |-> 0]
      /\ failed = FALSE /\ result = "running"
  BY DEF Init
<1>2. ReaderInv /\ Before = {}
  BY <1>1, ReaderInitInv
<1>3. Len(<<>>) = 0 /\ 1 .. 0 = {} /\ Cardinality({}) = 0
  BY FS_EmptySet
<1>4. BatchSize \in Nat /\ BatchSize > 0
  BY PipelineAssumption
<1>5. TypeOK
  <2>1. /\ <<>> \in Seq(RawPackets) /\ <<>> \in Seq(SUBSET RawPackets) /\ <<>> \in Seq(Rows)
        /\ <<>> \in Seq(Nat)
    BY EmptySeq
  <2>2. stats \in [packets : Nat, panicked : Nat, bad_blocks : Nat]
    BY <1>1
  <2>3. ReaderTypeOK
    BY <1>2 DEF ReaderInv
  <2>4. /\ Len(chunk) <= BatchSize /\ filled \in 0 .. Len(chunk) /\ done \subseteq 1 .. filled
    BY <1>1, <1>3, <1>4
  <2>5. /\ chunk \in Seq(RawPackets) /\ tables \in Seq(SUBSET RawPackets)
        /\ builder \in Seq(Rows) /\ out \in Seq(Rows) /\ batches \in Seq(Nat)
    BY <1>1, <2>1, Zenon
  <2> QED
    BY <1>1, <2>2, <2>3, <2>4, <2>5 DEF TypeOK
<1>6. PhaseInv
  BY <1>1, <1>4 DEF PhaseInv
<1>7. BatchInv
  BY <1>1, <1>3 DEF BatchInv, BatchesAreFull
<1>8. Contents \in Seq(RawPackets) /\ Len(Contents) \in Nat
  BY <1>2, AllRead
<1>9. OutInv
  BY <1>1, <1>3, <1>8 DEF OutInv
<1>10. ChunkInv
  <2>1. stats.packets = 0 /\ stats.panicked = 0
    BY <1>1
  <2>2. {i \in 1 .. stats.packets : Contents[i].data \in Panics} = {}
    BY <1>3, <2>1
  <2> QED
    BY <1>1, <1>2, <1>3, <2>1, <2>2 DEF ChunkInv
<1> QED
  BY <1>2, <1>5, <1>6, <1>7, <1>9, <1>10 DEF IInv

----------------------------------------------------------------------------
(* What a step that leaves a part of the state alone keeps.                *)
LEMMA OutStays ==
  ASSUME OutInv, Contents' = Contents, out' = out
  PROVE  OutInv'
BY DEF OutInv, RowOf, Left

LEMMA BatchStays ==
  ASSUME BatchInv, batches' = batches, phase \in {"return", "end"} => phase' \in {"return", "end"}
  PROVE  BatchInv'
BY DEF BatchInv, BatchesAreFull

LEMMA ChunkStays ==
  ASSUME ChunkInv, Contents' = Contents, Before' = Before, stats'.packets = stats.packets,
         stats'.panicked = stats.panicked, UNCHANGED <<chunk, filled, tables, builder, out, failed>>
  PROVE  ChunkInv'
BY DEF ChunkInv, RowOf, Left

LEMMA ChunkLost ==
  ASSUME failed'
  PROVE  ChunkInv'
BY DEF ChunkInv

(* The types of the variables of the run.                                  *)
LEMMA RunTypes ==
  ASSUME IInv
  PROVE  /\ chunk \in Seq(RawPackets) /\ Len(chunk) \in Nat /\ Len(chunk) <= BatchSize
         /\ filled \in Nat /\ filled <= Len(chunk) /\ BatchSize \in Nat /\ BatchSize > 0
         /\ tables \in Seq(SUBSET RawPackets) /\ Len(tables) \in Nat
         /\ builder \in Seq(Rows) /\ Len(builder) \in Nat
         /\ out \in Seq(Rows) /\ Len(out) \in Nat
         /\ batches \in Seq(Nat) /\ Len(batches) \in Nat
         /\ stats \in [packets : Nat, panicked : Nat, bad_blocks : Nat]
         /\ stats.packets \in Nat /\ stats.panicked \in Nat
         /\ Contents \in Seq(RawPackets) /\ Len(Contents) \in Nat
<1>1. /\ chunk \in Seq(RawPackets) /\ Len(chunk) <= BatchSize /\ filled \in 0 .. Len(chunk)
      /\ tables \in Seq(SUBSET RawPackets) /\ builder \in Seq(Rows) /\ out \in Seq(Rows)
      /\ batches \in Seq(Nat) /\ stats \in [packets : Nat, panicked : Nat, bad_blocks : Nat]
  BY DEF IInv, TypeOK
<1>2. Contents \in Seq(RawPackets) /\ Len(Contents) \in Nat
  BY AllRead DEF IInv
<1>3. BatchSize \in Nat /\ BatchSize > 0
  BY PipelineAssumption
<1>4. stats.packets \in Nat /\ stats.panicked \in Nat
  BY <1>1
<1>5. /\ Len(chunk) \in Nat /\ Len(tables) \in Nat /\ Len(builder) \in Nat /\ Len(out) \in Nat
      /\ Len(batches) \in Nat
  BY <1>1, LenProperties
<1> QED
  BY <1>1, <1>2, <1>3, <1>4, <1>5

LEMMA ReadKeeps ==
  ASSUME IInv, Read
  PROVE  IInv'
<1>1. /\ phase = "read" /\ (Absorbed \/ Stop) /\ UNCHANGED runVars
  BY DEF Read
<1>2. UNCHANGED <<chunk, filled, done, phase, tail, tables, builder, out, batches, stats, failed,
                  result>>
  BY <1>1 DEF runVars
<1>3. ReaderInv' /\ Contents' = Contents /\ Before' = Before
  BY <1>1, NotRead DEF IInv
<1>4. TypeOK'
  <2>1. ReaderTypeOK'
    BY <1>3 DEF ReaderInv
  <2> QED
    BY <1>2, <2>1 DEF IInv, TypeOK
<1>5. PhaseInv'
  BY <1>1, <1>2 DEF IInv, PhaseInv
<1>6. BatchInv'
  BY <1>1, <1>2, BatchStays DEF IInv
<1>7. OutInv'
  BY <1>2, <1>3, OutStays DEF IInv
<1>8. ChunkInv'
  BY <1>2, <1>3, ChunkStays DEF IInv
<1> QED
  BY <1>3, <1>4, <1>5, <1>6, <1>7, <1>8 DEF IInv

LEMMA SkipKeeps ==
  ASSUME IInv, Skip
  PROVE  IInv'
<1>1. /\ phase = "read" /\ failed /\ Deliver /\ UNCHANGED runVars
  BY DEF Skip
<1>2. UNCHANGED <<chunk, filled, done, phase, tail, tables, builder, out, batches, stats, failed,
                  result>>
  BY <1>1 DEF runVars
<1>3. ReaderInv' /\ Contents' = Contents
  BY <1>1, NextRead DEF IInv
<1>4. TypeOK'
  <2>1. ReaderTypeOK'
    BY <1>3 DEF ReaderInv
  <2> QED
    BY <1>2, <2>1 DEF IInv, TypeOK
<1>5. PhaseInv'
  BY <1>1, <1>2 DEF IInv, PhaseInv
<1>6. BatchInv'
  BY <1>1, <1>2, BatchStays DEF IInv
<1>7. OutInv'
  BY <1>2, <1>3, OutStays DEF IInv
<1>8. ChunkInv'
  BY <1>1, <1>2, ChunkLost
<1> QED
  BY <1>3, <1>4, <1>5, <1>6, <1>7, <1>8 DEF IInv

(* The slots in use after one more packet.                                 *)
LEMMA FilledIs ==
  ASSUME IInv, NEW p \in RawPackets, filled < BatchSize
  PROVE  /\ Filled(p) \in Seq(RawPackets) /\ Len(Filled(p)) \in Nat
         /\ Len(Filled(p)) <= BatchSize /\ filled + 1 <= Len(Filled(p))
         /\ \A i \in 1 .. filled : Filled(p)[i] = chunk[i]
         /\ Filled(p)[filled + 1] = p
<1>1. /\ chunk \in Seq(RawPackets) /\ Len(chunk) \in Nat /\ Len(chunk) <= BatchSize
      /\ filled \in Nat /\ filled <= Len(chunk) /\ BatchSize \in Nat
  BY RunTypes
<1>2. CASE filled = Len(chunk)
  <2>1. Filled(p) = Append(chunk, p)
    BY <1>2 DEF Filled
  <2>2. /\ Append(chunk, p) \in Seq(RawPackets) /\ Len(Append(chunk, p)) = Len(chunk) + 1
        /\ \A i \in 1 .. Len(chunk) : Append(chunk, p)[i] = chunk[i]
        /\ Append(chunk, p)[Len(chunk) + 1] = p
    BY <1>1, AppendProperties
  <2> QED
    BY <1>1, <1>2, <2>1, <2>2
<1>3. CASE filled # Len(chunk)
  <2>1. Filled(p) = [chunk EXCEPT ![filled + 1] = p]
    BY <1>3 DEF Filled
  <2>2. filled + 1 \in 1 .. Len(chunk)
    BY <1>1, <1>3
  <2>3. /\ [chunk EXCEPT ![filled + 1] = p] \in Seq(RawPackets)
        /\ Len([chunk EXCEPT ![filled + 1] = p]) = Len(chunk)
        /\ \A i \in 1 .. Len(chunk) : i # filled + 1 => [chunk EXCEPT ![filled + 1] = p][i] = chunk[i]
        /\ [chunk EXCEPT ![filled + 1] = p][filled + 1] = p
    BY <1>1, <2>2, ExceptSeq
  <2> QED
    BY <1>1, <2>1, <2>2, <2>3
<1> QED
  BY <1>2, <1>3

LEMMA FillKeeps ==
  ASSUME IInv, Fill
  PROVE  IInv'
<1>1. /\ phase = "read" /\ ~ failed /\ Deliver
      /\ chunk' = Filled(Raw(Block)) /\ filled' = filled + 1
      /\ phase' = IF ChunkFull THEN "dissect" ELSE "read"
      /\ UNCHANGED <<done, tail, tables, builder, out, batches, stats, failed, result>>
  BY DEF Fill
<1>2. /\ ReaderInv' /\ Contents' = Contents
      /\ Cardinality(Before) \in Nat /\ Cardinality(Before') = Cardinality(Before) + 1
      /\ Cardinality(Before) + 1 \in 1 .. Len(Contents)
      /\ Raw(Block) = Contents[Cardinality(Before) + 1] /\ Raw(Block) \in RawPackets
  BY <1>1, NextRead DEF IInv
<1>3. filled < BatchSize /\ builder = <<>> /\ ~ tail /\ result = "running"
  BY <1>1 DEF IInv, PhaseInv
<1>4. PICK p \in RawPackets : p = Raw(Block)
  BY <1>2
<1>5. /\ chunk' \in Seq(RawPackets) /\ Len(chunk') \in Nat
      /\ Len(chunk') <= BatchSize /\ filled + 1 <= Len(chunk')
      /\ \A i \in 1 .. filled : chunk'[i] = chunk[i]
      /\ chunk'[filled + 1] = p
  BY <1>1, <1>3, <1>4, FilledIs
<1>6. /\ filled \in Nat /\ BatchSize \in Nat /\ stats.packets \in Nat
  BY RunTypes
<1>7. TypeOK'
  <2>1. ReaderTypeOK'
    BY <1>2 DEF ReaderInv
  <2>2. filled' \in 0 .. Len(chunk') /\ phase' \in {"read", "dissect"}
    BY <1>1, <1>5, <1>6
  <2>3. done' \subseteq 1 .. filled'
    <3>1. done' \subseteq 1 .. filled
      BY <1>1 DEF IInv, TypeOK
    <3>2. 1 .. filled \subseteq 1 .. filled'
      BY <1>1, <1>6
    <3> QED
      BY <3>1, <3>2
  <2> QED
    BY <1>1, <1>5, <2>1, <2>2, <2>3 DEF IInv, TypeOK
<1>8. PhaseInv'
  <2>1. CASE ChunkFull
    <3>1. filled' = BatchSize /\ filled' > 0 /\ phase' = "dissect"
      BY <1>1, <1>3, <1>6, <2>1 DEF ChunkFull
    <3> QED
      BY <1>1, <1>3, <3>1 DEF PhaseInv
  <2>2. CASE ~ ChunkFull
    <3>1. filled' < BatchSize /\ phase' = "read"
      BY <1>1, <1>3, <1>6, <2>2 DEF ChunkFull
    <3> QED
      BY <1>1, <1>3, <3>1 DEF PhaseInv
  <2> QED
    BY <2>1, <2>2
<1>9. BatchInv'
  BY <1>1, BatchStays DEF IInv
<1>10. OutInv'
  BY <1>1, <1>2, OutStays DEF IInv
<1>11. ChunkInv'
  <2>1. /\ stats.packets = Len(out) + Len(builder)
        /\ stats.packets + filled = Cardinality(Before)
        /\ stats.panicked = Cardinality({i \in 1..stats.packets : Contents[i].data \in Panics})
        /\ Len(tables) = stats.packets
        /\ \A i \in 1..Len(tables) : tables[i] = Left(Contents[i])
        /\ \A i \in 1..Len(builder) : builder[i] = RowOf(Contents, Len(out) + i)
        /\ \A i \in 1..filled : chunk[i] = Contents[stats.packets + i]
    BY <1>1 DEF IInv, ChunkInv
  <2>2. stats.packets + filled' = Cardinality(Before')
    BY <1>1, <1>2, <1>6, <2>1
  <2>3. \A i \in 1..filled' : chunk'[i] = Contents[stats.packets + i]
    <3>1. SUFFICES ASSUME NEW i \in 1 .. filled' PROVE chunk'[i] = Contents[stats.packets + i]
      OBVIOUS
    <3>2. CASE i = filled + 1
      <4>1. stats.packets + i = Cardinality(Before) + 1
        BY <1>2, <1>6, <2>1, <3>2
      <4> QED
        BY <1>2, <1>4, <1>5, <3>2, <4>1
    <3>3. CASE i # filled + 1
      <4>1. i \in 1 .. filled
        BY <1>1, <1>6, <3>3
      <4> QED
        BY <1>5, <2>1, <4>1
    <3> QED
      BY <3>2, <3>3
  <2>4. \A i \in 1..Len(tables') : tables'[i] = Left(Contents[i])'
    BY <1>1, <1>2, <2>1 DEF Left
  <2>5. \A i \in 1..Len(builder') : builder'[i] = RowOf(Contents, Len(out) + i)'
    BY <1>1, <1>3
  <2> QED
    BY <1>1, <1>2, <2>1, <2>2, <2>3, <2>4, <2>5 DEF ChunkInv
<1> QED
  BY <1>2, <1>7, <1>8, <1>9, <1>10, <1>11 DEF IInv

(* The reader stands still while the run works on the chunk.               *)
LEMMA Still ==
  ASSUME IInv, UNCHANGED readerVars
  PROVE  /\ ReaderInv' /\ ReaderTypeOK' /\ Contents' = Contents /\ Before' = Before
         /\ reading' = reading /\ bad_blocks' = bad_blocks
<1>1. ReaderInv
  BY DEF IInv
<1>2. ReaderInv' /\ file' = file /\ Before' = Before
  BY <1>1, ReaderStays
<1>3. Contents' = Contents
  BY <1>2, SameFile
<1>4. ReaderTypeOK'
  BY <1>2 DEF ReaderInv
<1> QED
  BY <1>2, <1>3, <1>4 DEF readerVars

LEMMA ReadEndsKeeps ==
  ASSUME IInv, ReadEnds
  PROVE  IInv'
<1>1. /\ phase = "read" /\ ~ reading /\ tail' = ~ failed
      /\ phase' = CASE failed                   -> "return"
                    [] ~ failed /\ filled > 0   -> "dissect"
                    [] ~ failed /\ filled = 0   -> "emit"
      /\ UNCHANGED <<chunk, filled, done, tables, builder, out, batches, stats, failed, result>>
      /\ UNCHANGED readerVars
  BY DEF ReadEnds
<1>2. /\ ReaderInv' /\ ReaderTypeOK' /\ Contents' = Contents /\ Before' = Before
      /\ reading' = reading
  BY <1>1, Still
<1>3. filled < BatchSize /\ builder = <<>> /\ result = "running" /\ Len(<<>>) = 0
  BY <1>1 DEF IInv, PhaseInv
<1>4. filled \in Nat /\ BatchSize \in Nat /\ failed \in BOOLEAN
  BY RunTypes DEF IInv, TypeOK
<1>5. \/ failed /\ phase' = "return"
      \/ ~ failed /\ filled > 0 /\ phase' = "dissect"
      \/ ~ failed /\ filled = 0 /\ phase' = "emit"
  <2>1. filled > 0 \/ filled = 0
    BY <1>4
  <2> QED
    BY <1>1, <1>4, <2>1
<1>6. TypeOK'
  <2>1. tail' \in BOOLEAN /\ phase' \in {"return", "dissect", "emit"}
    BY <1>1, <1>4, <1>5, Zenon
  <2> QED
    BY <1>1, <1>2, <2>1 DEF IInv, TypeOK
<1>7. PhaseInv'
  <2>1. Len(builder') <= BatchSize
    BY <1>1, <1>3, <1>4
  <2>2. ~ failed => tail'
    BY <1>1
  <2> QED
    BY <1>1, <1>2, <1>3, <1>5, <2>1, <2>2 DEF PhaseInv
<1>8. BatchInv'
  BY <1>1, BatchStays DEF IInv
<1>9. OutInv'
  BY <1>1, <1>2, OutStays DEF IInv
<1>10. ChunkInv'
  BY <1>1, <1>2, ChunkStays DEF IInv
<1> QED
  BY <1>2, <1>6, <1>7, <1>8, <1>9, <1>10 DEF IInv

LEMMA DissectOneKeeps ==
  ASSUME IInv, NEW i \in 1 .. filled, DissectOne(i)
  PROVE  IInv'
<1>1. /\ phase = "dissect" /\ done' = done \cup {i}
      /\ phase' = IF done' = 1 .. filled THEN "absorb" ELSE "dissect"
      /\ UNCHANGED <<chunk, filled, tail, tables, builder, out, batches, stats, failed, result>>
      /\ UNCHANGED readerVars
  BY DEF DissectOne
<1>2. /\ ReaderInv' /\ ReaderTypeOK' /\ Contents' = Contents /\ Before' = Before
      /\ reading' = reading
  BY <1>1, Still
<1>3. phase' \in {"absorb", "dissect"}
  BY <1>1
<1>4. TypeOK'
  <2>1. done' \subseteq 1 .. filled
    BY <1>1 DEF IInv, TypeOK
  <2> QED
    BY <1>1, <1>2, <1>3, <2>1 DEF IInv, TypeOK
<1>5. PhaseInv'
  BY <1>1, <1>2, <1>3 DEF IInv, PhaseInv
<1>6. BatchInv'
  BY <1>1, BatchStays DEF IInv
<1>7. OutInv'
  BY <1>1, <1>2, OutStays DEF IInv
<1>8. ChunkInv'
  BY <1>1, <1>2, ChunkStays DEF IInv
<1> QED
  BY <1>2, <1>4, <1>5, <1>6, <1>7, <1>8 DEF IInv

LEMMA AbsorbPanicsKeeps ==
  ASSUME IInv, AbsorbPanics
  PROVE  IInv'
<1>1. /\ phase = "absorb" /\ result' = "crashed" /\ phase' = "end"
      /\ UNCHANGED <<chunk, filled, done, tail, tables, builder, out, batches, stats, failed>>
      /\ UNCHANGED readerVars
  BY DEF AbsorbPanics
<1>2. /\ ReaderInv' /\ ReaderTypeOK' /\ Contents' = Contents /\ Before' = Before
  BY <1>1, Still
<1>3. TypeOK'
  BY <1>1, <1>2 DEF IInv, TypeOK
<1>4. PhaseInv'
  BY <1>1 DEF IInv, PhaseInv
<1>5. BatchInv'
  BY <1>1, BatchStays DEF IInv
<1>6. OutInv'
  BY <1>1, <1>2, OutStays DEF IInv
<1>7. ChunkInv'
  BY <1>1, <1>2, ChunkStays DEF IInv
<1> QED
  BY <1>2, <1>3, <1>4, <1>5, <1>6, <1>7 DEF IInv

LEMMA FinishFailsKeeps ==
  ASSUME IInv, FinishFails
  PROVE  IInv'
<1>1. /\ phase = "emit" /\ builder' = <<>> /\ failed' = TRUE
      /\ phase' = IF tail THEN "return" ELSE "read"
      /\ UNCHANGED <<chunk, filled, done, tail, tables, out, batches, stats, result>>
      /\ UNCHANGED readerVars
  BY DEF FinishFails
<1>2. /\ ReaderInv' /\ ReaderTypeOK' /\ Contents' = Contents
  BY <1>1, Still
<1>3. phase' \in {"return", "read"}
  BY <1>1
<1>4. TypeOK'
  <2>1. builder' \in Seq(Rows)
    BY <1>1, EmptySeq
  <2> QED
    BY <1>1, <1>2, <1>3, <2>1 DEF IInv, TypeOK
<1>5. PhaseInv'
  <2>1. filled = 0 /\ filled < BatchSize /\ result = "running"
    <3>1. filled = 0 /\ result = "running"
      BY <1>1 DEF IInv, PhaseInv
    <3> QED
      BY <3>1, RunTypes
  <2>2. phase' = "read" => ~ tail'
    BY <1>1
  <2> QED
    BY <1>1, <1>3, <2>1, <2>2 DEF PhaseInv
<1>6. BatchInv'
  BY <1>1, BatchStays DEF IInv
<1>7. OutInv'
  BY <1>1, <1>2, OutStays DEF IInv
<1>8. ChunkInv'
  BY <1>1, ChunkLost
<1> QED
  BY <1>2, <1>4, <1>5, <1>6, <1>7, <1>8 DEF IInv

LEMMA NoTailKeeps ==
  ASSUME IInv, NoTail
  PROVE  IInv'
<1>1. /\ phase = "emit" /\ builder = <<>> /\ phase' = "return"
      /\ UNCHANGED <<chunk, filled, done, tail, tables, builder, out, batches, stats, failed, result>>
      /\ UNCHANGED readerVars
  BY DEF NoTail
<1>2. /\ ReaderInv' /\ ReaderTypeOK' /\ Contents' = Contents /\ Before' = Before
      /\ reading' = reading
  BY <1>1, Still
<1>3. TypeOK'
  BY <1>1, <1>2 DEF IInv, TypeOK
<1>4. PhaseInv'
  <2>1. /\ filled = 0 /\ ~ failed /\ (~ tail => Len(builder) = BatchSize) /\ (tail => ~ reading)
        /\ result = "running"
    BY <1>1 DEF IInv, PhaseInv
  <2>2. Len(builder) = 0 /\ BatchSize # 0
    BY <1>1, RunTypes
  <2>3. ~ reading
    BY <2>1, <2>2
  <2> QED
    BY <1>1, <1>2, <2>1, <2>3 DEF PhaseInv
<1>5. BatchInv'
  BY <1>1, BatchStays DEF IInv
<1>6. OutInv'
  BY <1>1, <1>2, OutStays DEF IInv
<1>7. ChunkInv'
  BY <1>1, <1>2, ChunkStays DEF IInv
<1> QED
  BY <1>2, <1>3, <1>4, <1>5, <1>6, <1>7 DEF IInv

LEMMA ReturnKeeps ==
  ASSUME IInv, Return
  PROVE  IInv'
<1>1. /\ phase = "return" /\ phase' = "end" /\ result' = IF failed THEN "err" ELSE "ok"
      /\ stats' = [stats EXCEPT !.bad_blocks = bad_blocks]
      /\ UNCHANGED <<chunk, filled, done, tail, tables, builder, out, batches, failed>>
      /\ UNCHANGED readerVars
  BY DEF Return
<1>2. /\ ReaderInv' /\ ReaderTypeOK' /\ Contents' = Contents /\ Before' = Before
      /\ reading' = reading /\ bad_blocks' = bad_blocks
  BY <1>1, Still
<1>3. /\ stats' \in [packets : Nat, panicked : Nat, bad_blocks : Nat]
      /\ stats'.packets = stats.packets /\ stats'.panicked = stats.panicked
      /\ stats'.bad_blocks = bad_blocks
  <2>1. stats \in [packets : Nat, panicked : Nat, bad_blocks : Nat] /\ bad_blocks \in Nat
    BY RunTypes, ReaderTypes DEF IInv
  <2> QED
    BY <1>1, <2>1
<1>4. result' \in {"err", "ok"} /\ (failed => result' = "err") /\ (result' = "ok" => ~ failed)
  BY <1>1
<1>5. TypeOK'
  BY <1>1, <1>2, <1>3, <1>4 DEF IInv, TypeOK
<1>6. PhaseInv'
  <2>1. ~ failed => ~ reading /\ filled = 0 /\ builder = <<>>
    BY <1>1 DEF IInv, PhaseInv
  <2> QED
    BY <1>1, <1>2, <1>3, <1>4, <2>1 DEF PhaseInv
<1>7. BatchInv'
  BY <1>1, BatchStays DEF IInv
<1>8. OutInv'
  BY <1>1, <1>2, OutStays DEF IInv
<1>9. ChunkInv'
  BY <1>1, <1>2, <1>3, ChunkStays DEF IInv
<1> QED
  BY <1>2, <1>5, <1>6, <1>7, <1>8, <1>9 DEF IInv

LEMMA StutterKeeps ==
  ASSUME IInv, UNCHANGED vars
  PROVE  IInv'
<1>1. /\ UNCHANGED <<chunk, filled, done, phase, tail, tables, builder, out, batches, stats, failed,
                     result>>
      /\ UNCHANGED readerVars
  BY DEF vars, runVars
<1>2. /\ ReaderInv' /\ ReaderTypeOK' /\ Contents' = Contents /\ Before' = Before
      /\ reading' = reading /\ bad_blocks' = bad_blocks
  BY <1>1, Still
<1>3. TypeOK'
  BY <1>1, <1>2 DEF IInv, TypeOK
<1>4. PhaseInv'
  BY <1>1, <1>2 DEF IInv, PhaseInv
<1>5. BatchInv'
  BY <1>1, BatchStays DEF IInv
<1>6. OutInv'
  BY <1>1, <1>2, OutStays DEF IInv
<1>7. ChunkInv'
  BY <1>1, <1>2, ChunkStays DEF IInv
<1> QED
  BY <1>2, <1>3, <1>4, <1>5, <1>6, <1>7 DEF IInv

LEMMA HandOverKeeps ==
  ASSUME IInv, NEW ok \in BOOLEAN, HandOver(ok)
  PROVE  IInv'
<1>1. /\ phase = "emit" /\ builder # <<>> /\ out' = out \o builder
      /\ batches' = Append(batches, Len(builder)) /\ builder' = <<>> /\ failed' = ~ ok
      /\ phase' = IF tail THEN "return" ELSE "read"
      /\ UNCHANGED <<chunk, filled, done, tail, tables, stats, result>>
      /\ UNCHANGED readerVars
  BY DEF HandOver
<1>2. /\ ReaderInv' /\ ReaderTypeOK' /\ Contents' = Contents /\ Before' = Before
      /\ reading' = reading
  BY <1>1, Still
<1>3. /\ ~ failed /\ filled = 0 /\ Len(builder) <= BatchSize
      /\ (~ tail => Len(builder) = BatchSize) /\ (tail => ~ reading) /\ result = "running"
  BY <1>1 DEF IInv, PhaseInv
<1>4. /\ builder \in Seq(Rows) /\ Len(builder) \in Nat /\ out \in Seq(Rows) /\ Len(out) \in Nat
      /\ batches \in Seq(Nat) /\ Len(batches) \in Nat /\ BatchSize \in Nat /\ BatchSize > 0
      /\ stats.packets \in Nat /\ Len(Contents) \in Nat
  BY RunTypes
<1>5. Len(builder) > 0
  BY <1>1, <1>4
<1>6. /\ out' \in Seq(Rows) /\ Len(out') = Len(out) + Len(builder)
      /\ \A i \in 1 .. Len(out) + Len(builder) : out'[i] =
           IF i <= Len(out) THEN out[i] ELSE builder[i - Len(out)]
  BY <1>1, <1>4, ConcatProperties
<1>7. /\ batches' \in Seq(Nat) /\ Len(batches') = Len(batches) + 1
      /\ \A n \in 1 .. Len(batches) : batches'[n] = batches[n]
      /\ batches'[Len(batches) + 1] = Len(builder)
  BY <1>1, <1>4, AppendProperties
<1>8. /\ stats.packets = Len(out) + Len(builder)
      /\ stats.packets + filled = Cardinality(Before)
      /\ stats.panicked = Cardinality({i \in 1..stats.packets : Contents[i].data \in Panics})
      /\ Len(tables) = stats.packets
      /\ \A i \in 1..Len(tables) : tables[i] = Left(Contents[i])
      /\ \A i \in 1..Len(builder) : builder[i] = RowOf(Contents, Len(out) + i)
  BY <1>3 DEF IInv, ChunkInv
<1>9. TypeOK'
  <2>1. /\ builder' \in Seq(Rows) /\ failed' \in BOOLEAN /\ phase' \in {"return", "read"}
    BY <1>1, EmptySeq
  <2> QED
    BY <1>1, <1>2, <1>6, <1>7, <2>1 DEF IInv, TypeOK
<1>10. PhaseInv'
  <2>1. filled < BatchSize
    BY <1>3, <1>4
  <2> QED
    BY <1>1, <1>2, <1>3, <2>1 DEF PhaseInv
<1>11. BatchInv'
  <2>1. \A n \in 1 .. Len(batches) : batches[n] = BatchSize
    BY <1>1 DEF IInv, BatchInv
  <2>2. /\ 1 .. (Len(batches') - 1) = 1 .. Len(batches)
        /\ 1 .. Len(batches') = 1 .. Len(batches) \cup {Len(batches) + 1}
    BY <1>4, <1>7
  <2>3. \A n \in 1 .. (Len(batches') - 1) : batches'[n] = BatchSize
    BY <1>7, <2>1, <2>2
  <2>4. \A n \in 1 .. Len(batches') : batches'[n] \in 1 .. BatchSize
    <3>1. Len(builder) \in 1 .. BatchSize /\ BatchSize \in 1 .. BatchSize
      BY <1>3, <1>4, <1>5
    <3> QED
      BY <1>7, <2>1, <2>2, <3>1
  <2>5. ~ tail => \A n \in 1 .. Len(batches') : batches'[n] = BatchSize
    BY <1>3, <1>7, <2>1, <2>2
  <2> QED
    BY <1>1, <2>3, <2>4, <2>5 DEF BatchInv, BatchesAreFull
<1>12. OutInv'
  <2>1. Len(out') <= Len(Contents)
    <3>1. Cardinality(Before) \in Nat /\ Cardinality(Before) <= Len(Contents)
      BY AllRead DEF IInv
    <3> QED
      BY <1>3, <1>4, <1>6, <1>8, <3>1
  <2>2. ASSUME NEW i \in 1 .. Len(out') PROVE out'[i] = RowOf(Contents, i)
    <3>1. CASE i <= Len(out)
      <4>1. i \in 1 .. Len(out) /\ i \in 1 .. Len(out) + Len(builder)
        BY <1>4, <1>6, <3>1
      <4>2. out[i] = RowOf(Contents, i)
        BY <4>1 DEF IInv, OutInv
      <4> QED
        BY <1>6, <3>1, <4>1, <4>2
    <3>2. CASE ~ (i <= Len(out))
      <4>1. PICK j \in Int : j = i - Len(out)
        <5>1. i - Len(out) \in Int
          BY <1>4, <1>6
        <5> QED
          BY <5>1
      <4>2. j \in 1 .. Len(builder) /\ Len(out) + j = i /\ i \in 1 .. Len(out) + Len(builder)
        BY <1>4, <1>6, <3>2, <4>1
      <4>3. builder[j] = RowOf(Contents, i)
        BY <1>8, <4>2
      <4> QED
        BY <1>6, <3>2, <4>1, <4>2, <4>3
    <3> QED
      BY <3>1, <3>2
  <2> QED
    BY <1>2, <2>1, <2>2 DEF OutInv, RowOf, Left
<1>13. ChunkInv'
  <2>1. Len(builder') = 0 /\ stats'.packets = Len(out') + Len(builder')
    BY <1>1, <1>4, <1>6, <1>8
  <2>2. \A i \in 1..Len(tables') : tables'[i] = Left(Contents[i])'
    BY <1>1, <1>2, <1>8 DEF Left
  <2>3. 1 .. 0 = {}
    OBVIOUS
  <2>4. \A i \in 1..Len(builder') : builder'[i] = RowOf(Contents, Len(out) + i)'
    BY <2>1, <2>3
  <2>5. \A i \in 1..filled' : chunk'[i] = Contents'[stats'.packets + i]
    BY <1>1, <1>3, <2>3
  <2> QED
    BY <1>1, <1>2, <1>8, <2>1, <2>2, <2>4, <2>5 DEF ChunkInv
<1> QED
  BY <1>2, <1>9, <1>10, <1>11, <1>12, <1>13 DEF IInv

----------------------------------------------------------------------------
(* Moving a set of slots along does not change their number.               *)
LEMMA ShiftedCount ==
  ASSUME NEW N \in Nat, NEW n \in Nat, NEW S \in SUBSET (1 .. n)
  PROVE  /\ IsFiniteSet({N + j : j \in S}) /\ Cardinality({N + j : j \in S}) = Cardinality(S)
<1> DEFINE T == {N + j : j \in S}
           g == [j \in S |-> N + j]
<1>1. IsFiniteSet(S) /\ \A j \in S : j \in Nat
  BY IntervalPart
<1>2. g \in [S -> T]
  OBVIOUS
<1>3. \A a, b \in S : g[a] = g[b] => a = b
  BY <1>1
<1>4. \A y \in T : \E a \in S : g[a] = y
  OBVIOUS
<1>5. g \in Bijection(S, T)
  <2> HIDE DEF g, T
  <2> QED
    BY <1>2, <1>3, <1>4, Zenon DEF Bijection, Injection, IsInjective, Surjection
<1>6. ExistsBijection(S, T)
  BY <1>5 DEF ExistsBijection
<1> QED
  BY <1>1, <1>6, FS_Bijection

(* How many of the first n packets of c have their bytes in Q: of the      *)
(* first N + n, those of the first N and those of the n after.             *)
Counted(c, n, Q) == Cardinality({i \in 1 .. n : c[i].data \in Q})

LEMMA CountSplit ==
  ASSUME NEW N \in Nat, NEW n \in Nat, NEW Q, NEW c, NEW s,
         \A j \in 1 .. n : s[j] = c[N + j]
  PROVE  Counted(c, N + n, Q) = Counted(c, N, Q) + Counted(s, n, Q)
<1> DEFINE A == {i \in 1 .. N : c[i].data \in Q}
           S == {j \in 1 .. n : s[j].data \in Q}
           T == {N + j : j \in S}
<1>1. S \in SUBSET (1 .. n) /\ A \in SUBSET (1 .. N)
  OBVIOUS
<1>2. IsFiniteSet(A) /\ IsFiniteSet(S)
  BY <1>1, IntervalPart
<1>3. IsFiniteSet(T) /\ Cardinality(T) = Cardinality(S)
  <2> HIDE DEF S
  <2> QED
    BY <1>1, ShiftedCount
<1>4. A \cap T = {}
  BY <1>1
<1>5. {i \in 1 .. (N + n) : c[i].data \in Q} = A \cup T
  <2>1. ASSUME NEW i \in 1 .. (N + n), c[i].data \in Q PROVE i \in A \cup T
    <3>1. CASE i <= N
      BY <2>1, <3>1
    <3>2. CASE ~ (i <= N)
      <4>1. PICK j \in 1 .. n : i = N + j
        <5>1. i - N \in 1 .. n /\ i = N + (i - N)
          BY <2>1, <3>2
        <5> QED
          BY <5>1
      <4>2. j \in S
        BY <2>1, <4>1
      <4> QED
        BY <4>1, <4>2
    <3> QED
      BY <3>1, <3>2
  <2>2. ASSUME NEW i \in A PROVE i \in 1 .. (N + n) /\ c[i].data \in Q
    BY <2>2
  <2>3. ASSUME NEW i \in T PROVE i \in 1 .. (N + n) /\ c[i].data \in Q
    <3>1. PICK j \in S : i = N + j
      BY <2>3
    <3>2. j \in 1 .. n /\ s[j].data \in Q
      BY <3>1
    <3> QED
      BY <3>1, <3>2
  <2> HIDE DEF A, T
  <2> QED
    BY <2>1, <2>2, <2>3
<1>6. /\ Cardinality(A) \in Nat /\ Cardinality(T) \in Nat
      /\ Cardinality(A \cup T) = Cardinality(A) + Cardinality(T) - Cardinality({})
  <2> HIDE DEF A, T
  <2> QED
    BY <1>2, <1>3, <1>4, FS_Union, FS_CardinalityType
<1>7. Cardinality({}) = 0
  BY FS_EmptySet
<1> HIDE DEF A, S, T
<1>8. Cardinality(A \cup T) = Cardinality(A) + Cardinality(S)
  BY <1>3, <1>6, <1>7
<1> QED
  BY <1>5, <1>8 DEF A, S, Counted

(* The slots in use are the packets of the capture that come next.         *)
LEMMA SliceIs ==
  ASSUME IInv
  PROVE  /\ Slice \in Seq(RawPackets) /\ Len(Slice) = filled /\ DOMAIN Slice = 1 .. filled
         /\ \A j \in 1 .. filled : Slice[j] = chunk[j]
<1>1. /\ chunk \in Seq(RawPackets) /\ Len(chunk) \in Nat /\ filled \in Nat /\ filled <= Len(chunk)
  BY RunTypes
<1>2. \A j \in 1 .. filled : chunk[j] \in RawPackets
  BY <1>1
<1>3. /\ SubSeq(chunk, 1, filled) \in Seq(RawPackets)
      /\ Len(SubSeq(chunk, 1, filled)) = IF 1 <= filled THEN filled - 1 + 1 ELSE 0
      /\ \A j \in 1 .. filled - 1 + 1 : SubSeq(chunk, 1, filled)[j] = chunk[1 + j - 1]
  BY <1>1, <1>2, SubSeqProperties
<1>4. PICK s \in Seq(RawPackets) : s = Slice
  BY <1>3 DEF Slice
<1>5. /\ Len(s) = IF 1 <= filled THEN filled - 1 + 1 ELSE 0
      /\ \A j \in 1 .. filled - 1 + 1 : s[j] = chunk[1 + j - 1]
  BY <1>3, <1>4 DEF Slice
<1>6. filled - 1 + 1 = filled /\ \A j \in 1 .. filled : 1 + j - 1 = j
  BY <1>1
<1>7. Len(s) = filled /\ \A j \in 1 .. filled : s[j] = chunk[j]
  BY <1>1, <1>5, <1>6
<1> QED
  BY <1>4, <1>7, LenProperties

(* What a run of packets leaves in the tables.                             *)
LEMMA TrustedIs ==
  ASSUME NEW s \in Seq(RawPackets)
  PROVE  /\ Trusted(s) \in Seq(SUBSET RawPackets) /\ Len(Trusted(s)) = Len(s)
         /\ \A j \in 1 .. Len(s) : Trusted(s)[j] = Left(s[j])
<1>1. Len(s) \in Nat /\ DOMAIN s = 1 .. Len(s) /\ \A j \in 1 .. Len(s) : s[j] \in RawPackets
  BY LenProperties
<1>2. Trusted(s) = [j \in 1 .. Len(s) |-> Left(s[j])]
  BY <1>1 DEF Trusted, Left
<1>3. \A j \in 1 .. Len(s) : Left(s[j]) \in SUBSET RawPackets
  BY <1>1 DEF Left
<1> QED
  BY <1>1, <1>2, <1>3

(* The tables hold what the first N packets of c left.                     *)
Holds(t, c, N) ==
  t \in Seq(SUBSET RawPackets) /\ Len(t) = N /\ \A i \in 1 .. N : t[i] = Left(c[i])

(* The packets of s are the n packets of c after the first N.              *)
Follows(s, c, N, n) ==
  s \in Seq(RawPackets) /\ Len(s) = n /\ \A j \in 1 .. n : s[j] = c[N + j]

LEMMA TablesGrow ==
  ASSUME NEW N \in Nat, NEW n \in Nat, NEW c, NEW t, NEW s, Holds(t, c, N), Follows(s, c, N, n)
  PROVE  Holds(t \o Trusted(s), c, N + n)
<1>1. /\ t \in Seq(SUBSET RawPackets) /\ Len(t) = N /\ \A i \in 1 .. N : t[i] = Left(c[i])
      /\ s \in Seq(RawPackets) /\ Len(s) = n /\ \A j \in 1 .. n : s[j] = c[N + j]
  BY DEF Holds, Follows
<1>2. PICK u \in Seq(SUBSET RawPackets) : u = Trusted(s)
  BY <1>1, TrustedIs
<1>3. Len(u) = n /\ \A j \in 1 .. n : u[j] = Left(c[N + j])
  <2>1. Len(u) = n /\ \A j \in 1 .. n : u[j] = Left(s[j])
    BY <1>1, <1>2, TrustedIs
  <2> QED
    BY <1>1, <2>1
<1>4. /\ t \o u \in Seq(SUBSET RawPackets) /\ Len(t \o u) = N + n
      /\ \A i \in 1 .. N + n : (t \o u)[i] = IF i <= N THEN t[i] ELSE u[i - N]
  <2>1. /\ t \o u \in Seq(SUBSET RawPackets) /\ Len(t \o u) = Len(t) + Len(u)
        /\ \A i \in 1 .. Len(t) + Len(u) : (t \o u)[i] =
              IF i <= Len(t) THEN t[i] ELSE u[i - Len(t)]
    <3>1. t \in Seq(SUBSET RawPackets) /\ u \in Seq(SUBSET RawPackets)
      BY <1>1, <1>2
    <3> QED
      BY <3>1, ConcatProperties
  <2>2. Len(t) = N /\ Len(u) = n
    BY <1>1, <1>3
  <2> QED
    BY <2>1, <2>2
<1>5. ASSUME NEW i \in 1 .. (N + n) PROVE (t \o u)[i] = Left(c[i])
  <2>1. CASE i <= N
    BY <1>1, <1>4, <2>1
  <2>2. CASE ~ (i <= N)
    <3>1. PICK j \in 1 .. n : j = i - N /\ N + j = i
      <4>1. i - N \in 1 .. n /\ N + (i - N) = i
        BY <1>5, <2>2
      <4> QED
        BY <4>1
    <3>2. u[i - N] = Left(c[i])
      BY <1>3, <3>1
    <3> QED
      BY <1>4, <2>2, <3>2
  <2> QED
    BY <2>1, <2>2
<1> QED
  BY <1>2, <1>4, <1>5 DEF Holds

(* Row j of the chunk is the row of its packet in the capture.             *)
LEMMA RowIs ==
  ASSUME IInv, ~ failed, NEW j \in 1 .. filled, Slice[j] = Contents[stats.packets + j]
  PROVE  Row(j) = RowOf(Contents, stats.packets + j) /\ Row(j) \in Rows
<1>1. PICK N \in Nat : N = stats.packets
  BY RunTypes
<1>2. PICK c \in Seq(RawPackets) : c = Contents
  BY RunTypes
<1>3. PICK t \in Seq(SUBSET RawPackets) : t = tables
  BY RunTypes
<1>4. /\ Len(t) = N /\ \A i \in 1 .. N : t[i] = Left(c[i])
      /\ \A i \in 1 .. filled : chunk[i] = c[N + i]
  BY <1>1, <1>2, <1>3 DEF IInv, ChunkInv
<1>5. PICK s \in Seq(RawPackets) : s = Slice
  BY SliceIs
<1>6. filled \in Nat /\ Len(s) = filled /\ \A i \in 1 .. filled : s[i] = c[N + i] /\ s[i] \in RawPackets
  <2>1. filled \in Nat /\ Len(s) = filled /\ \A i \in 1 .. filled : s[i] = c[N + i]
    BY <1>4, <1>5, SliceIs, RunTypes
  <2> QED
    BY <2>1
<1>7. PICK u : u = SubSeq(s, 1, j - 1)
  OBVIOUS
<1>8. u \in Seq(RawPackets) /\ Len(u) = j - 1 /\ \A i \in 1 .. (j - 1) : u[i] = s[i]
  <2>1. PICK m \in Nat : m = j - 1 /\ m < filled
    <3>1. j - 1 \in Nat /\ j - 1 < filled
      BY <1>6
    <3> QED
      BY <3>1
  <2>2. \A i \in 1 .. m : s[i] \in RawPackets
    BY <1>6, <2>1
  <2>3. /\ u \in Seq(RawPackets) /\ Len(u) = (IF 1 <= m THEN m - 1 + 1 ELSE 0)
        /\ \A i \in 1 .. m - 1 + 1 : u[i] = s[1 + i - 1]
    BY <1>7, <2>1, <2>2, SubSeqProperties
  <2>4. m - 1 + 1 = m /\ \A i \in 1 .. m : 1 + i - 1 = i
    BY <2>1
  <2>5. Len(u) = m /\ \A i \in 1 .. m : u[i] = s[i]
    BY <2>1, <2>3, <2>4
  <2> QED
    BY <2>1, <2>3, <2>5
<1>9. PICK v : v = t \o Trusted(u)
  OBVIOUS
<1>10. /\ v \in Seq(SUBSET RawPackets) /\ Len(v) = N + (j - 1)
       /\ \A i \in 1 .. (N + (j - 1)) : v[i] = Left(c[i])
  <2>1. PICK m \in Nat : m = j - 1
    <3>1. j - 1 \in Nat
      BY <1>6
    <3> QED
      BY <3>1
  <2>2. \A i \in 1 .. m : i \in 1 .. filled
    BY <1>6, <2>1
  <2>3. Follows(u, c, N, m)
    BY <1>6, <1>8, <2>1, <2>2 DEF Follows
  <2>4. Holds(t, c, N)
    BY <1>3, <1>4 DEF Holds
  <2>5. Holds(v, c, N + m)
    BY <1>9, <2>3, <2>4, TablesGrow
  <2> QED
    BY <2>1, <2>5 DEF Holds
<1>11. v = [i \in 1 .. ((N + j) - 1) |-> Left(c[i])]
  <2>1. N + (j - 1) = (N + j) - 1 /\ (N + j) - 1 \in Nat
    OBVIOUS
  <2>2. DOMAIN v = 1 .. ((N + j) - 1)
    BY <1>10, <2>1, LenProperties
  <2>3. v = [i \in 1 .. ((N + j) - 1) |-> v[i]]
    BY <1>10, <2>2
  <2> QED
    BY <1>10, <2>1, <2>3
<1>12. Row(j) = [packet_id |-> N + j - 1, packet |-> s[j], after |-> v]
  BY <1>1, <1>3, <1>5, <1>7, <1>9 DEF Row
<1>13. s[j] = c[N + j] /\ s[j] \in RawPackets /\ N + j - 1 \in Nat
  BY <1>6
<1>14. Row(j) \in Rows
  BY <1>10, <1>12, <1>13 DEF Rows
<1>15. Row(j) = RowOf(c, N + j)
  BY <1>11, <1>12, <1>13 DEF RowOf
<1> QED
  BY <1>1, <1>2, <1>14, <1>15

LEMMA AbsorbKeeps ==
  ASSUME IInv, Absorb
  PROVE  IInv'
<1>1. /\ phase = "absorb" /\ tables' = tables \o Trusted(Slice)
      /\ builder' = builder \o [j \in DOMAIN Slice |-> Row(j)]
      /\ stats' = [stats EXCEPT !.packets = @ + Len(Slice), !.panicked = @ + Panicked(Slice)]
      /\ filled' = 0 /\ done' = {} /\ phase' = "emit"
      /\ UNCHANGED <<chunk, tail, out, batches, failed, result>>
      /\ UNCHANGED readerVars
  BY DEF Absorb
<1>2. /\ ReaderInv' /\ ReaderTypeOK' /\ Contents' = Contents /\ Before' = Before
      /\ reading' = reading
  BY <1>1, Still
<1>3. /\ ~ failed /\ filled > 0 /\ builder = <<>> /\ (~ tail => filled = BatchSize)
      /\ (tail => ~ reading) /\ result = "running"
  BY <1>1 DEF IInv, PhaseInv
<1>4. /\ filled \in Nat /\ filled <= BatchSize /\ BatchSize \in Nat /\ Len(out) \in Nat
      /\ stats \in [packets : Nat, panicked : Nat, bad_blocks : Nat]
  BY RunTypes
<1>5. PICK N \in Nat : N = stats.packets
  BY RunTypes
<1>6. PICK c \in Seq(RawPackets) : c = Contents
  BY RunTypes
<1>7. /\ N = Len(out) + Len(builder) /\ N + filled = Cardinality(Before)
      /\ stats.panicked = Cardinality({i \in 1 .. N : c[i].data \in Panics})
      /\ Len(tables) = N /\ \A i \in 1 .. N : tables[i] = Left(c[i])
      /\ \A i \in 1 .. filled : chunk[i] = c[N + i]
  BY <1>3, <1>5, <1>6 DEF IInv, ChunkInv
<1>8. PICK s \in Seq(RawPackets) : s = Slice
  BY SliceIs
<1>9. Len(s) = filled /\ DOMAIN s = 1 .. filled /\ \A i \in 1 .. filled : s[i] = c[N + i]
  BY <1>7, <1>8, SliceIs
<1>10. /\ tables' \in Seq(SUBSET RawPackets) /\ Len(tables') = N + filled
       /\ \A i \in 1 .. (N + filled) : tables'[i] = Left(c[i])
  <2>1. Holds(tables, c, N)
    BY <1>7, RunTypes DEF Holds
  <2>2. Follows(s, c, N, filled)
    BY <1>9 DEF Follows
  <2>3. Holds(tables', c, N + filled)
    BY <1>1, <1>4, <1>8, <2>1, <2>2, TablesGrow
  <2> QED
    BY <2>3 DEF Holds
<1>11. /\ builder' \in Seq(Rows) /\ Len(builder') = filled
       /\ \A j \in 1 .. filled : builder'[j] = RowOf(c, N + j)
  <2>1. \A j \in 1 .. filled : Row(j) = RowOf(c, N + j) /\ Row(j) \in Rows
    <3>1. SUFFICES ASSUME NEW j \in 1 .. filled PROVE Row(j) = RowOf(c, N + j) /\ Row(j) \in Rows
      OBVIOUS
    <3>2. Slice[j] = Contents[stats.packets + j]
      BY <1>5, <1>6, <1>8, <1>9
    <3> QED
      BY <1>3, <1>5, <1>6, <3>2, RowIs
  <2>2. PICK b : b = [j \in 1 .. filled |-> Row(j)]
    OBVIOUS
  <2>3. b \in Seq(Rows) /\ Len(b) = filled /\ \A j \in 1 .. filled : b[j] = RowOf(c, N + j)
    BY <1>4, <2>1, <2>2
  <2>4. builder' = <<>> \o b
    BY <1>1, <1>3, <1>8, <1>9, <2>2
  <2>5. builder' = b
    BY <2>3, <2>4, ConcatEmptySeq
  <2> QED
    BY <2>3, <2>5
<1>12. Panicked(Slice) = Cardinality({j \in 1 .. filled : s[j].data \in Panics})
  BY <1>8, <1>9 DEF Panicked
<1>13. /\ stats'.packets = N + filled
       /\ stats'.panicked = Cardinality({i \in 1 .. (N + filled) : c[i].data \in Panics})
       /\ stats' \in [packets : Nat, panicked : Nat, bad_blocks : Nat]
  <2>1. PICK q : q = Panicked(Slice)
    OBVIOUS
  <2>2. Cardinality({i \in 1 .. (N + filled) : c[i].data \in Panics}) = stats.panicked + q
    <3>1. Cardinality({i \in 1 .. (N + filled) : c[i].data \in Panics})
            = Cardinality({i \in 1 .. N : c[i].data \in Panics})
              + Cardinality({j \in 1 .. filled : s[j].data \in Panics})
      <4>1. filled \in Nat /\ \A j \in 1 .. filled : s[j] = c[N + j]
        BY <1>4, <1>9
      <4>2. Counted(c, N + filled, Panics) = Counted(c, N, Panics) + Counted(s, filled, Panics)
        BY <4>1, CountSplit
      <4> QED
        BY <4>2, Zenon DEF Counted
    <3> QED
      BY <1>7, <1>12, <2>1, <3>1, Zenon
  <2>3. q \in Nat
    <3>1. PICK S \in SUBSET (1 .. filled) : S = {j \in 1 .. filled : s[j].data \in Panics}
      <4>1. {j \in 1 .. filled : s[j].data \in Panics} \in SUBSET (1 .. filled)
        OBVIOUS
      <4> QED
        BY <4>1, Zenon
    <3>2. IsFiniteSet(S)
      BY <1>4, IntervalPart
    <3>3. q = Cardinality(S)
      BY <1>12, <2>1, <3>1, Zenon
    <3> QED
      BY <3>2, <3>3, FS_CardinalityType
  <2>4. stats' = [stats EXCEPT !.packets = @ + filled, !.panicked = @ + q]
    BY <1>1, <1>8, <1>9, <2>1
  <2>5. stats'.packets = N + filled /\ stats'.panicked = stats.panicked + q
    BY <1>4, <1>5, <2>4
  <2>6. stats' \in [packets : Nat, panicked : Nat, bad_blocks : Nat]
    <3>1. PICK a \in Nat, b \in Nat : a = stats.packets + filled /\ b = stats.panicked + q
      <4>1. stats.packets + filled \in Nat /\ stats.panicked + q \in Nat
        BY <1>4, <2>3, RunTypes
      <4> QED
        BY <4>1
    <3>2. stats' = [stats EXCEPT !.packets = a, !.panicked = b]
      BY <2>4, <3>1
    <3> QED
      BY <1>4, <3>2
  <2> QED
    BY <2>2, <2>5, <2>6
<1>14. TypeOK'
  <2>1. filled' \in 0 .. Len(chunk') /\ done' \subseteq 1 .. filled'
    BY <1>1, RunTypes
  <2> QED
    BY <1>1, <1>2, <1>10, <1>11, <1>13, <2>1 DEF IInv, TypeOK
<1>15. PhaseInv'
  <2>1. Len(builder') <= BatchSize /\ (~ tail' => Len(builder') = BatchSize)
    BY <1>1, <1>3, <1>4, <1>11
  <2> QED
    BY <1>1, <1>2, <1>3, <2>1 DEF PhaseInv
<1>16. BatchInv'
  BY <1>1, BatchStays DEF IInv
<1>17. OutInv'
  BY <1>1, <1>2, OutStays DEF IInv
<1>18. ChunkInv'
  <2>1. Len(out) = N
    BY <1>3, <1>4, <1>7
  <2>2. stats'.packets = Len(out') + Len(builder')
    BY <1>1, <1>11, <1>13, <2>1
  <2>3. stats'.packets + filled' = Cardinality(Before')
    BY <1>1, <1>2, <1>4, <1>7, <1>13
  <2>4. \A i \in 1 .. Len(tables') : tables'[i] = Left(Contents[i])'
    BY <1>2, <1>6, <1>10 DEF Left
  <2>5. \A i \in 1 .. Len(builder') : builder'[i] = RowOf(Contents, Len(out) + i)'
    <3>1. SUFFICES ASSUME NEW i \in 1 .. filled
                   PROVE  builder'[i] = RowOf(Contents, Len(out) + i)'
      BY <1>11
    <3>2. RowOf(Contents, Len(out) + i)' = RowOf(c, N + i)
      BY <1>1, <1>2, <1>6, <2>1 DEF RowOf, Left
    <3> QED
      BY <1>11, <3>2
  <2>6. \A i \in 1 .. filled' : chunk'[i] = Contents'[stats'.packets + i]
    BY <1>1
  <2> QED
    BY <1>2, <1>6, <1>10, <1>13, <2>2, <2>3, <2>4, <2>5, <2>6 DEF ChunkInv
<1> QED
  BY <1>2, <1>14, <1>15, <1>16, <1>17, <1>18 DEF IInv

----------------------------------------------------------------------------
LEMMA NextKeeps ==
  ASSUME IInv, [Next]_vars
  PROVE  IInv'
<1>1. CASE Read
  BY <1>1, ReadKeeps
<1>2. CASE Skip
  BY <1>2, SkipKeeps
<1>3. CASE Fill
  BY <1>3, FillKeeps
<1>4. CASE ReadEnds
  BY <1>4, ReadEndsKeeps
<1>5. CASE \E i \in 1..filled : DissectOne(i)
  BY <1>5, DissectOneKeeps
<1>6. CASE Absorb
  BY <1>6, AbsorbKeeps
<1>7. CASE AbsorbPanics
  BY <1>7, AbsorbPanicsKeeps
<1>8. CASE FinishFails
  BY <1>8, FinishFailsKeeps
<1>9. CASE \E ok \in BOOLEAN : HandOver(ok)
  BY <1>9, HandOverKeeps
<1>10. CASE NoTail
  BY <1>10, NoTailKeeps
<1>11. CASE Return
  BY <1>11, ReturnKeeps
<1>12. CASE UNCHANGED vars
  BY <1>12, StutterKeeps
<1> QED
  BY <1>1, <1>2, <1>3, <1>4, <1>5, <1>6, <1>7, <1>8, <1>9, <1>10, <1>11, <1>12 DEF Next

LEMMA Invariance == Spec => []IInv
<1>1. Init => IInv
  BY InitInv
<1>2. IInv /\ [Next]_vars => IInv'
  BY NextKeeps
<1> QED
  BY <1>1, <1>2, PTL DEF Spec

(* Every variable of run and of the reader keeps its type: the chunk never *)
(* outgrows batch_size.                                                    *)
THEOREM PipelineTypeCorrect == Spec => []TypeOK
<1>1. IInv => TypeOK
  BY DEF IInv
<1> QED
  BY <1>1, Invariance, PTL

(* Every batch that on_batch gets is full, the last one apart, and none is *)
(* empty.                                                                  *)
THEOREM BatchesCorrect == Spec => []BatchesAreFull
<1>1. IInv => BatchesAreFull
  BY DEF IInv, BatchInv
<1> QED
  BY <1>1, Invariance, PTL

(* Once the capture is read and the last batch is out, all rows are.       *)
LEMMA AllOut ==
  ASSUME IInv, ~ failed, ~ reading, filled = 0, builder = <<>>
  PROVE  /\ stats.packets = Len(out) /\ Len(out) = Len(Contents) /\ Len(out) \in Nat
         /\ stats.panicked = Cardinality({i \in 1..stats.packets : Contents[i].data \in Panics})
<1>1. /\ stats.packets = Len(out) + Len(builder)
      /\ stats.packets + filled = Cardinality(Before)
      /\ stats.panicked = Cardinality({i \in 1..stats.packets : Contents[i].data \in Panics})
  BY DEF IInv, ChunkInv
<1>2. Len(builder) = 0
  OBVIOUS
<1>3. stats.packets = Len(out) /\ stats.packets = Cardinality(Before) /\ Len(out) \in Nat
  BY <1>1, <1>2, RunTypes
<1>4. Len(out) = Len(Contents)
  BY <1>3, AllRead DEF IInv
<1> QED
  BY <1>1, <1>3, <1>4

(* The statistics of a run that returns Ok are those of the rows it handed *)
(* over, and bad_blocks tells whether the file was damaged.                *)
LEMMA StatsFromInv ==
  ASSUME IInv, result = "ok"
  PROVE  /\ stats.packets = Len(out)
         /\ stats.panicked = Cardinality({i \in 1..Len(out) : out[i].packet.data \in Panics})
         /\ stats.bad_blocks > 0 <=> Damaged
<1>1. /\ ~ failed /\ ~ reading /\ filled = 0 /\ builder = <<>> /\ stats.bad_blocks = bad_blocks
  BY DEF IInv, PhaseInv
<1>2. /\ stats.packets = Len(out) /\ Len(out) = Len(Contents) /\ Len(out) \in Nat
      /\ stats.panicked = Cardinality({i \in 1..stats.packets : Contents[i].data \in Panics})
  BY <1>1, AllOut
<1>3. \A i \in 1 .. Len(out) : out[i].packet = Contents[i]
  <2>1. \A i \in 1 .. Len(out) : out[i] = RowOf(Contents, i)
    BY DEF IInv, OutInv
  <2>2. SUFFICES ASSUME NEW i \in 1 .. Len(out) PROVE out[i].packet = Contents[i]
    OBVIOUS
  <2>3. PICK r : r = RowOf(Contents, i)
    OBVIOUS
  <2>4. r.packet = Contents[i]
    BY <2>3 DEF RowOf
  <2> QED
    BY <2>1, <2>3, <2>4
<1>4. {i \in 1..stats.packets : Contents[i].data \in Panics}
        = {i \in 1..Len(out) : out[i].packet.data \in Panics}
  BY <1>2, <1>3
<1>5. stats.bad_blocks > 0 <=> Damaged
  BY <1>1, DamageIs DEF IInv
<1> QED
  BY <1>2, <1>4, <1>5

(* The statistics of a run that returns Ok are those of the rows handed    *)
(* over, for every file and however it was cut into chunks.                *)
THEOREM StatsCorrect == Spec => []StatsMatchRows
<1>1. IInv => StatsMatchRows
  BY StatsFromInv DEF StatsMatchRows
<1> QED
  BY <1>1, Invariance, PTL

(* Nothing is handed over after a batch has failed, and run returns that   *)
(* failure.                                                                *)
THEOREM FailureCorrect == Spec => FailureIsFinal
<1>1. ASSUME IInv, [Next]_vars, failed
      PROVE  out' = out /\ failed' /\ result' \in {"running", "err"}
  <2>1. /\ phase \notin {"dissect", "absorb", "emit"} /\ result \in {"running", "err"}
    BY <1>1 DEF IInv, PhaseInv
  <2>2. CASE Read
    BY <1>1, <2>1, <2>2 DEF Read, runVars
  <2>3. CASE Skip
    BY <1>1, <2>1, <2>3 DEF Skip, runVars
  <2>4. CASE Fill
    BY <1>1, <2>4 DEF Fill
  <2>5. CASE ReadEnds
    BY <1>1, <2>1, <2>5 DEF ReadEnds
  <2>6. CASE \E i \in 1..filled : DissectOne(i)
    BY <2>1, <2>6 DEF DissectOne
  <2>7. CASE Absorb
    BY <2>1, <2>7 DEF Absorb
  <2>8. CASE AbsorbPanics
    BY <2>1, <2>8 DEF AbsorbPanics
  <2>9. CASE FinishFails
    BY <2>1, <2>9 DEF FinishFails
  <2>10. CASE \E ok \in BOOLEAN : HandOver(ok)
    BY <2>1, <2>10 DEF HandOver
  <2>11. CASE NoTail
    BY <2>1, <2>11 DEF NoTail
  <2>12. CASE Return
    BY <1>1, <2>1, <2>12 DEF Return
  <2>13. CASE UNCHANGED vars
    BY <1>1, <2>1, <2>13 DEF vars, runVars
  <2> QED
    BY <1>1, <2>2, <2>3, <2>4, <2>5, <2>6, <2>7, <2>8, <2>9, <2>10, <2>11, <2>12, <2>13 DEF Next
<1>2. IInv /\ [Next]_vars
        => [failed => out' = out /\ failed' /\ result' \in {"running", "err"}]_vars
  BY <1>1
<1> QED
  BY <1>2, Invariance, PTL DEF Spec, FailureIsFinal

----------------------------------------------------------------------------
(* A row of the capture is the row of the serial run.                      *)
LEMMA SerialRowIs ==
  ASSUME NEW c \in Seq(RawPackets), NEW i \in 1 .. Len(c)
  PROVE  Serial!SerialRow(c, i) = RowOf(c, i)
<1>1. Len(c) \in Nat /\ \A j \in 1 .. Len(c) : c[j] \in RawPackets
  BY LenProperties
<1>2. \A j \in 1 .. (i - 1) : {c[j]} \ {r \in RawPackets : r.data \in Panics} = Left(c[j])
  <2>1. SUFFICES ASSUME NEW j \in 1 .. (i - 1)
                 PROVE  {c[j]} \ {r \in RawPackets : r.data \in Panics} = Left(c[j])
    OBVIOUS
  <2>2. c[j] \in RawPackets
    BY <1>1
  <2> QED
    BY <2>2 DEF Left
<1>3. [j \in 1 .. (i - 1) |-> {c[j]} \ {r \in RawPackets : r.data \in Panics}]
        = [j \in 1 .. (i - 1) |-> Left(c[j])]
  BY <1>2
<1> QED
  BY <1>3 DEF Serial!SerialRow, RowOf

(* What a caller of run can see of its result.                             *)
Seen == IF result = "crashed" THEN "err" ELSE result

LEMMA HandOverRefines ==
  ASSUME IInv, IInv', NEW ok \in BOOLEAN, HandOver(ok)
  PROVE  Serial!HandOver
<1>1. /\ phase = "emit" /\ builder # <<>> /\ out' = out \o builder /\ result' = result
      /\ UNCHANGED readerVars
  BY DEF HandOver
<1>2. result = "running"
  BY <1>1 DEF IInv, PhaseInv
<1>3. Contents' = Contents
  BY <1>1, Still
<1>4. /\ builder \in Seq(Rows) /\ Len(builder) \in Nat /\ out \in Seq(Rows) /\ Len(out) \in Nat
      /\ Contents \in Seq(RawPackets) /\ Len(Contents) \in Nat
  BY RunTypes
<1>5. out' \in Seq(Rows) /\ Len(out') = Len(out) + Len(builder) /\ Len(builder) > 0
  BY <1>1, <1>4, ConcatProperties
<1>6. PICK c \in Seq(RawPackets) : c = Contents
  BY <1>4
<1>7. PICK n \in Nat : n = Len(out') /\ n \in (Len(out) + 1) .. Len(c)
  <2>1. Len(out') <= Len(Contents)'
    BY DEF IInv, OutInv
  <2>2. Len(out') \in Nat /\ Len(out') \in (Len(out) + 1) .. Len(c)
    BY <1>3, <1>4, <1>5, <1>6, <2>1
  <2> QED
    BY <2>2
<1>8. \A i \in 1 .. n : out'[i] = RowOf(c, i)
  <2>1. \A i \in 1 .. Len(out') : out'[i] = RowOf(Contents, i)'
    BY DEF IInv, OutInv
  <2>2. \A i \in 1 .. Len(out') : RowOf(Contents, i)' = RowOf(c, i)
    BY <1>3, <1>6 DEF RowOf, Left
  <2> QED
    BY <1>7, <2>1, <2>2
<1>9. \A i \in 1 .. n : RowOf(c, i) = Serial!SerialRow(c, i)
  <2>1. \A i \in 1 .. n : i \in 1 .. Len(c)
    BY <1>4, <1>6, <1>7
  <2> QED
    BY <2>1, SerialRowIs
<1>10. out' = [i \in 1 .. n |-> Serial!SerialRow(c, i)]
  <2>1. DOMAIN out' = 1 .. n
    BY <1>5, <1>7, LenProperties
  <2>2. out' = [i \in 1 .. n |-> out'[i]]
    BY <1>5, <2>1
  <2>3. \A i \in 1 .. n : out'[i] = Serial!SerialRow(c, i)
    BY <1>8, <1>9
  <2> QED
    BY <2>2, <2>3
<1>11. Len(out') > Len(out)
  BY <1>4, <1>5
<1> QED
  BY <1>1, <1>2, <1>3, <1>6, <1>7, <1>10, <1>11 DEF Serial!HandOver

LEMMA EndRefines ==
  ASSUME IInv, IInv', AbsorbPanics \/ Return
  PROVE  Serial!End
<1>1. UNCHANGED readerVars /\ out' = out /\ phase \in {"absorb", "return"}
  BY DEF AbsorbPanics, Return
<1>2. Contents' = Contents
  BY <1>1, Still
<1>3. result = "running"
  BY <1>1 DEF IInv, PhaseInv
<1>4. CASE result' = "ok"
  <2>1. phase = "return" /\ ~ failed
    BY <1>4 DEF AbsorbPanics, Return
  <2>2. ~ reading /\ filled = 0 /\ builder = <<>>
    BY <2>1 DEF IInv, PhaseInv
  <2>3. Len(out) = Len(Contents)
    BY <2>1, <2>2, AllOut
  <2> QED
    BY <1>1, <1>2, <1>3, <1>4, <2>3 DEF Serial!End
<1>5. CASE result' # "ok"
  <2>1. result' \in {"crashed", "err"}
    BY <1>5 DEF AbsorbPanics, Return
  <2> QED
    BY <1>1, <1>2, <1>3, <2>1 DEF Serial!End
<1> QED
  BY <1>4, <1>5

(* run implements SerialRun: whatever the batch size, the number of        *)
(* threads and the order they dissect in, the rows handed over are those   *)
(* of a pass over the packets of the file, one by one; and a run that      *)
(* returns Ok has handed over all of them.                                 *)
THEOREM RefinesSerial == Spec => ImplementsSerial
<1>1. Init => Serial!Init
  <2>1. SUFFICES ASSUME Init PROVE Serial!Init
    OBVIOUS
  <2>2. Contents \in Seq(RawPackets)
    <3>1. IInv
      BY <2>1, InitInv
    <3> QED
      BY <3>1, RunTypes
  <2> QED
    BY <2>1, <2>2 DEF Init, Serial!Init
<1>2. IInv /\ IInv' /\ [Next]_vars => [Serial!Next]_<<Contents, out, Seen>>
  <2>1. SUFFICES ASSUME IInv, IInv', [Next]_vars
                 PROVE  Serial!Next \/ UNCHANGED <<Contents, out, Seen>>
    OBVIOUS
  <2>2. CASE AbsorbPanics \/ Return
    BY <2>1, <2>2, EndRefines DEF Serial!Next
  <2>3. CASE \E ok \in BOOLEAN : HandOver(ok)
    BY <2>1, <2>3, HandOverRefines DEF Serial!Next
  <2>4. CASE Read
    BY <2>1, <2>4, NotRead DEF IInv, Read, runVars, Seen
  <2>5. CASE Skip
    BY <2>1, <2>5, NextRead DEF IInv, Skip, runVars, Seen
  <2>6. CASE Fill
    BY <2>1, <2>6, NextRead DEF IInv, Fill, Seen
  <2>7. CASE ReadEnds
    BY <2>1, <2>7, Still DEF ReadEnds, Seen
  <2>8. CASE \E i \in 1..filled : DissectOne(i)
    BY <2>1, <2>8, Still DEF DissectOne, Seen
  <2>9. CASE Absorb
    BY <2>1, <2>9, Still DEF Absorb, Seen
  <2>10. CASE FinishFails
    BY <2>1, <2>10, Still DEF FinishFails, Seen
  <2>11. CASE NoTail
    BY <2>1, <2>11, Still DEF NoTail, Seen
  <2>12. CASE UNCHANGED vars
    BY <2>1, <2>12, Still DEF vars, runVars, Seen
  <2> QED
    BY <2>1, <2>2, <2>3, <2>4, <2>5, <2>6, <2>7, <2>8, <2>9, <2>10, <2>11, <2>12 DEF Next
<1>3. Spec => Serial!Init /\ [][Serial!Next]_<<Contents, out, Seen>>
  BY <1>1, <1>2, Invariance, PTL DEF Spec
<1> QED
  BY <1>3 DEF ImplementsSerial, Serial!Spec, Seen
=============================================================================
