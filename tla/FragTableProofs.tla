-------------------------- MODULE FragTableProofs --------------------------
(***************************************************************************)
(* What FragTable guarantees for every capture, every cap and any number   *)
(* of datagrams: its types, its bounds, that a datagram it returns is      *)
(* whole, that a fragment lost is counted, and that the assembly the model *)
(* describes is what the source's sort and loop compute.                   *)
(***************************************************************************)
EXTENDS FragTable, FiniteSetTheorems, SequenceTheorems, WellFoundedInduction, TLAPS

(* The strengthening NeverHalfParsed needs: a known total length is the    *)
(* end of some piece of the set, the last fragment that declared it.       *)
TotalIsDeclared ==
  \A k \in FragKeys :
    sets[k].total_len # Unknown =>
      \E i \in DOMAIN sets[k].pieces : End(sets[k].pieces[i]) = sets[k].total_len

----------------------------------------------------------------------------
(* A non-empty set of naturals has a least element.                        *)
LEMMA FragLeastNatural ==
  ASSUME NEW T \in SUBSET Nat, T # {}
  PROVE  \E m \in T : \A n \in T : m <= n
<1>1. PICK m \in T : \A n \in T : ~ (<<n, m>> \in OpToRel(<, Nat))
  BY NatLessThanWellFounded, WFMin, Zenon
<1>2. \A n \in T : ~ (n < m)
  BY <1>1, Zenon DEF OpToRel
<1> QED
  BY <1>2

(* The pieces' types, as the leaves below use them.                        *)
LEMMA PieceTypes ==
  ASSUME NEW ps \in Seq(Piece), NEW i \in DOMAIN ps
  PROVE  /\ i \in Nat
         /\ ps[i].offset \in Nat
         /\ ps[i].data \in Seq(FragByte)
         /\ Len(ps[i].data) \in Nat
         /\ End(ps[i]) \in Nat
<1>1. i \in Nat /\ ps[i] \in Piece
  OBVIOUS
<1>2. ps[i].offset \in Nat /\ ps[i].data \in Seq(FragByte)
  BY <1>1, Zenon DEF Piece
<1> QED
  BY <1>1, <1>2 DEF End

(* If no piece leaves a hole and the pieces reach the declared end, then   *)
(* every position of the datagram has a winner, and it covers it: the loop *)
(* of push never reads outside a fragment.                                 *)
LEMMA WinnerCovers ==
  ASSUME NEW ps \in Seq(Piece), NEW total \in Nat, NEW pos \in Nat,
         ~ HasHole(ps), ~ FallsShort(ps, total), pos < total
  PROVE  /\ Winner(ps, pos) \in DOMAIN ps
         /\ ps[Winner(ps, pos)].offset <= pos
         /\ pos < End(ps[Winner(ps, pos)])
<1> DEFINE C == {i \in DOMAIN ps : End(ps[i]) > pos}
           Wins(i) == /\ End(ps[i]) > pos
                      /\ \A j \in DOMAIN ps : SortsBefore(ps, j, i) => End(ps[j]) <= pos
<1>1. C # {}
  <2>1. PICK i \in DOMAIN ps : ~ (End(ps[i]) < total)
    BY DEF FallsShort
  <2> QED
    BY <2>1, PieceTypes
<1>2. \E i \in DOMAIN ps : Wins(i)
  <2> DEFINE O == {ps[i].offset : i \in C}
  <2>1. PICK o \in O : \A x \in O : o <= x
    <3>1. O \in SUBSET Nat /\ O # {}
      BY <1>1, PieceTypes
    <3> QED
      BY <3>1, FragLeastNatural, Zenon
  <2> DEFINE D == {i \in C : ps[i].offset = o}
  <2>2. PICK i \in D : \A x \in D : i <= x
    <3>1. D \in SUBSET Nat /\ D # {}
      BY <2>1, PieceTypes
    <3> QED
      BY <3>1, FragLeastNatural, Zenon
  <2>3. ASSUME NEW j \in DOMAIN ps, SortsBefore(ps, j, i)
        PROVE  End(ps[j]) <= pos
    <3>1. j \notin C
      <4> SUFFICES ASSUME j \in C PROVE FALSE
        OBVIOUS
      <4>1. o <= ps[j].offset
        BY <2>1
      <4>2. ps[i].offset = o
        BY <2>2
      <4>3. ps[j].offset = o /\ j < i
        BY <4>1, <4>2, <2>3, PieceTypes DEF SortsBefore
      <4> QED
        BY <4>3, <2>2, PieceTypes
    <3> QED
      BY <3>1, PieceTypes
  <2> QED
    BY <2>2, <2>3
<1>3. Winner(ps, pos) \in DOMAIN ps /\ Wins(Winner(ps, pos))
  BY <1>2, Zenon DEF Winner
<1>4. ps[Winner(ps, pos)].offset <= pos
  <2> DEFINE w == Winner(ps, pos)
  <2> HIDE DEF w
  <2>1. w \in DOMAIN ps /\ Wins(w)
    BY <1>3 DEF w
  <2> SUFFICES ASSUME ~ (ps[w].offset <= pos) PROVE FALSE
    BY DEF w
  <2>2. ps[w].offset > 0
    BY <2>1, PieceTypes
  <2>3. PICK j \in DOMAIN ps : SortsBefore(ps, j, w) /\ ~ (End(ps[j]) < ps[w].offset)
    BY <2>1, <2>2 DEF HasHole
  <2>4. End(ps[j]) <= pos
    BY <2>1, <2>3
  <2> QED
    BY <2>1, <2>3, <2>4, PieceTypes
<1> QED
  BY <1>3, <1>4

(* What a completed set assembles into.                                    *)
LEMMA AssembleIsWhole ==
  ASSUME NEW ps \in Seq(Piece), NEW total \in Nat,
         ~ HasHole(ps), ~ FallsShort(ps, total)
  PROVE  /\ Assemble(ps, total) \in Seq(FragByte)
         /\ Len(Assemble(ps, total)) = total
         /\ \A n \in 1..total :
              \E i \in DOMAIN ps :
                /\ ps[i].offset < n
                /\ n <= End(ps[i])
                /\ Assemble(ps, total)[n] = ByteAt(ps[i], n - 1)
<1>1. ASSUME NEW n \in 1..total
      PROVE  LET w == Winner(ps, n - 1)
             IN  /\ w \in DOMAIN ps
                 /\ ps[w].offset < n
                 /\ n <= End(ps[w])
                 /\ ByteAt(ps[w], n - 1) \in FragByte
  <2> DEFINE w == Winner(ps, n - 1)
  <2>1. n - 1 \in Nat /\ n - 1 < total
    OBVIOUS
  <2>2. w \in DOMAIN ps /\ ps[w].offset <= n - 1 /\ n - 1 < End(ps[w])
    BY <2>1, WinnerCovers
  <2> HIDE DEF w
  <2>3. /\ ps[w].offset \in Nat
        /\ ps[w].data \in Seq(FragByte)
        /\ End(ps[w]) \in Nat
    BY <2>2, PieceTypes
  <2>4. ps[w].offset < n /\ n <= End(ps[w])
    BY <2>2, <2>3
  <2>5. n - ps[w].offset \in 1..Len(ps[w].data)
    BY <2>3, <2>4 DEF End
  <2>6. ByteAt(ps[w], n - 1) \in FragByte
    BY <2>3, <2>5 DEF ByteAt
  <2> QED
    BY <2>2, <2>4, <2>6 DEF w
<1>2. Assemble(ps, total) \in [1..total -> FragByte]
  BY <1>1 DEF Assemble
<1>3. Assemble(ps, total) \in Seq(FragByte) /\ Len(Assemble(ps, total)) = total
  BY <1>2
<1> QED
  BY <1>1, <1>3 DEF Assemble
----------------------------------------------------------------------------
FragInv == FragTypeOK /\ SetsBounded /\ TotalIsDeclared /\ NeverHalfParsed

(* The set a fragment is added to keeps its type, and its total length,    *)
(* when known, stays the end of one of its pieces.                         *)
LEMMA AddedSet ==
  ASSUME FragTypeOK, TotalIsDeclared, NEW k \in FragKeys, NEW offset \in Offsets,
         NEW mf \in BOOLEAN, NEW data \in FragPayloads
  PROVE  LET s == Added(k, offset, mf, data)
         IN  /\ s \in FragSet
             /\ s.pieces # <<>>
             /\ s.bytes_held = sets[k].bytes_held + Len(data)
             /\ s.total_len # Unknown =>
                  \E i \in DOMAIN s.pieces : End(s.pieces[i]) = s.total_len
<1> DEFINE s == Added(k, offset, mf, data)
           p == [offset |-> offset, data |-> data]
           ps == sets[k].pieces
<1>1. /\ ps \in Seq(Piece)
      /\ sets[k].total_len \in Nat \cup {Unknown}
      /\ sets[k].bytes_held \in Nat
  BY DEF FragTypeOK, FragSet
<1>2. offset \in Nat /\ data \in Seq(FragByte) /\ Len(data) \in Nat
  BY FragAssumption
<1>3. p \in Piece /\ p.offset = offset /\ p.data = data
  BY <1>2 DEF Piece
<1> HIDE DEF p, ps
<1>4. /\ s.pieces = Append(ps, p)
      /\ s.total_len = IF mf THEN sets[k].total_len ELSE offset + Len(data)
      /\ s.bytes_held = sets[k].bytes_held + Len(data)
      /\ s = [pieces |-> s.pieces, total_len |-> s.total_len, bytes_held |-> s.bytes_held]
  BY DEF Added, ps, p
<1>5. /\ Append(ps, p) \in Seq(Piece)
      /\ Append(ps, p) # <<>>
      /\ DOMAIN Append(ps, p) = 1..(Len(ps) + 1)
      /\ \A i \in DOMAIN ps : i \in DOMAIN Append(ps, p) /\ Append(ps, p)[i] = ps[i]
      /\ Append(ps, p)[Len(ps) + 1] = p
      /\ Len(ps) \in Nat
  BY <1>1, <1>3 DEF ps
<1>6. s \in FragSet
  <2> HIDE DEF s
  <2>1. s.total_len \in Nat \cup {Unknown} /\ s.bytes_held \in Nat
    BY <1>1, <1>2, <1>4
  <2> QED
    BY <2>1, <1>4, <1>5 DEF FragSet
<1>7. ASSUME s.total_len # Unknown
      PROVE  \E i \in DOMAIN s.pieces : End(s.pieces[i]) = s.total_len
  <2> HIDE DEF s
  <2>1. CASE mf
    <3>1. PICK i \in DOMAIN ps : End(ps[i]) = s.total_len
      BY <2>1, <1>4, <1>7 DEF TotalIsDeclared, ps
    <3> QED
      BY <3>1, <1>4, <1>5
  <2>2. CASE ~ mf
    <3>1. End(p) = s.total_len
      BY <2>2, <1>3, <1>4 DEF End
    <3>2. Len(ps) + 1 \in DOMAIN Append(ps, p)
      BY <1>5
    <3> QED
      BY <3>1, <3>2, <1>4, <1>5
  <2> QED
    BY <2>1, <2>2
<1> QED
  BY <1>4, <1>5, <1>6, <1>7

(* A set that push has removed, or not opened yet, is a well-typed set     *)
(* that holds nothing.                                                     *)
LEMMA EmptySetTypes ==
  /\ EmptySet \in FragSet
  /\ EmptySet.pieces = <<>>
  /\ EmptySet.total_len = Unknown
  /\ EmptySet.bytes_held = 0
<1>1. <<>> \in Seq(Piece)
  OBVIOUS
<1> QED
  BY <1>1 DEF EmptySet, FragSet, Unknown

(* The table holds finitely many sets, so that they can be counted.        *)
LEMMA PresentFinite ==
  /\ IsFiniteSet(SetsPresent)
  /\ Cardinality(SetsPresent) \in Nat
  BY FragAssumption, FS_Subset, FS_CardinalityType DEF SetsPresent

(* What push returns when it returns None has the type of a result.        *)
LEMMA NoResultType ==
  NoResult \in [key : SUBSET FragKeys, pieces : Seq(Piece), total : Nat, data : Seq(FragByte)]
<1>1. <<>> \in Seq(Piece) /\ <<>> \in Seq(FragByte)
  OBVIOUS
<1> QED
  BY <1>1 DEF NoResult

(* A new table satisfies the inductive invariant.                          *)
LEMMA FragInitInv == FragInit => FragInv
<1> SUFFICES ASSUME FragInit PROVE FragInv
  OBVIOUS
<1> USE DEF FragInit
<1>1. FragTypeOK
  BY EmptySetTypes, NoResultType DEF FragTypeOK
<1>2. SetsBounded
  <2>1. SetsPresent = {}
    BY EmptySetTypes DEF SetsPresent
  <2>2. Cardinality(SetsPresent) = 0
    BY <2>1, FS_EmptySet
  <2> QED
    BY <2>2, EmptySetTypes, FragAssumption DEF SetsBounded
<1>3. TotalIsDeclared
  BY EmptySetTypes DEF TotalIsDeclared
<1>4. NeverHalfParsed
  BY DEF NeverHalfParsed
<1> QED
  BY <1>1, <1>2, <1>3, <1>4 DEF FragInv

(* A push that takes the set of k out of the table keeps the part of the   *)
(* invariant that speaks of the sets.                                      *)
LEMMA RemovalKeepsSets ==
  ASSUME FragInv, NEW k \in FragKeys, sets' = [sets EXCEPT ![k] = EmptySet]
  PROVE  sets' \in [FragKeys -> FragSet] /\ SetsBounded' /\ TotalIsDeclared'
<1>1. sets \in [FragKeys -> FragSet]
  BY DEF FragInv, FragTypeOK
<1>2. sets' \in [FragKeys -> FragSet]
  BY <1>1, EmptySetTypes
<1>3. SetsPresent' \in SUBSET SetsPresent
  BY <1>1, EmptySetTypes DEF SetsPresent
<1>4. Cardinality(SetsPresent') <= Cardinality(SetsPresent) /\ Cardinality(SetsPresent') \in Nat
  BY <1>3, PresentFinite, FS_Subset, FS_CardinalityType
<1>5. SetsBounded'
  BY <1>1, <1>4, EmptySetTypes, PresentFinite, FragAssumption DEF FragInv, SetsBounded
<1>6. TotalIsDeclared'
  BY <1>1, EmptySetTypes DEF FragInv, TotalIsDeclared
<1> QED
  BY <1>2, <1>5, <1>6

(* A push that keeps the fragment respects both caps.                      *)
LEMMA HoldKeepsSets ==
  ASSUME FragInv, NEW k \in FragKeys, NEW offset \in Offsets, NEW mf \in BOOLEAN,
         NEW data \in FragPayloads, PushHolds(k, offset, mf, data)
  PROVE  sets' \in [FragKeys -> FragSet] /\ SetsBounded' /\ TotalIsDeclared'
<1> DEFINE s == Added(k, offset, mf, data)
<1>1. sets \in [FragKeys -> FragSet] /\ sets' = [sets EXCEPT ![k] = s]
  BY DEF FragInv, FragTypeOK, PushHolds
<1>2. /\ s \in FragSet
      /\ s.bytes_held = sets[k].bytes_held + Len(data)
      /\ s.total_len # Unknown =>
           \E i \in DOMAIN s.pieces : End(s.pieces[i]) = s.total_len
  BY AddedSet DEF FragInv
<1> HIDE DEF s
<1>3. SetsPresent' \in SUBSET (SetsPresent \cup {k})
  BY <1>1 DEF SetsPresent
<1>4. Cardinality(SetsPresent') <= MaxSets
  <2>1. /\ IsFiniteSet(SetsPresent \cup {k})
        /\ Cardinality(SetsPresent \cup {k}) =
             IF k \in SetsPresent THEN Cardinality(SetsPresent) ELSE Cardinality(SetsPresent) + 1
    BY PresentFinite, FS_AddElement
  <2>2. Cardinality(SetsPresent') <= Cardinality(SetsPresent \cup {k}) /\ Cardinality(SetsPresent') \in Nat
    BY <1>3, <2>1, FS_Subset, FS_CardinalityType
  <2>3. Cardinality(SetsPresent) <= MaxSets
    BY DEF FragInv, SetsBounded
  <2>4. k \in SetsPresent \/ ~ (Cardinality(SetsPresent) >= MaxSets)
    BY DEF PushHolds, FragTableFull
  <2> QED
    BY <2>1, <2>2, <2>3, <2>4, PresentFinite, FragAssumption
<1>5. s.bytes_held <= MaxFragBytes
  <2>1. ~ (sets[k].bytes_held + Len(data) > MaxFragBytes)
    BY DEF PushHolds, OverBudget
  <2>2. Len(data) \in Nat /\ sets[k].bytes_held \in Nat
    BY <1>1, FragAssumption DEF FragSet
  <2> QED
    BY <2>1, <2>2, <1>2, FragAssumption
<1>6. SetsBounded'
  BY <1>1, <1>4, <1>5 DEF FragInv, SetsBounded
<1>7. TotalIsDeclared'
  BY <1>1, <1>2 DEF FragInv, TotalIsDeclared
<1> QED
  BY <1>1, <1>2, <1>6, <1>7

(* The datagram a completing push returns is whole.                        *)
LEMMA CompletionIsWhole ==
  ASSUME FragInv, NEW k \in FragKeys, NEW offset \in Offsets, NEW mf \in BOOLEAN,
         NEW data \in FragPayloads, PushCompletes(k, offset, mf, data)
  PROVE  /\ result' \in [key : SUBSET FragKeys, pieces : Seq(Piece), total : Nat, data : Seq(FragByte)]
         /\ NeverHalfParsed'
         /\ consumed' \in Nat
<1> DEFINE s == Added(k, offset, mf, data)
           ps == s.pieces
           total == s.total_len
           out == Assemble(ps, total)
<1>1. /\ s \in FragSet
      /\ total # Unknown => \E i \in DOMAIN ps : End(ps[i]) = total
  BY AddedSet DEF FragInv
<1>2. /\ Completes(s)
      /\ result' = [key |-> {k}, pieces |-> ps, total |-> total, data |-> out]
      /\ consumed' = consumed + Len(ps)
  BY DEF PushCompletes
<1> HIDE DEF s
<1>3. total # Unknown /\ ~ HasHole(ps) /\ ~ FallsShort(ps, total)
  BY <1>2 DEF Completes
<1>4. ps \in Seq(Piece) /\ total \in Nat
  BY <1>1, <1>3 DEF FragSet
<1>5. PICK i \in DOMAIN ps : End(ps[i]) = total
  BY <1>1, <1>3
<1> HIDE DEF ps, total
<1>6. /\ out \in Seq(FragByte)
      /\ Len(out) = total
      /\ \A n \in 1..total :
           \E j \in DOMAIN ps : /\ ps[j].offset < n
                                /\ n <= End(ps[j])
                                /\ out[n] = ByteAt(ps[j], n - 1)
  BY <1>3, <1>4, AssembleIsWhole
<1> HIDE DEF out
<1>7. /\ result'.pieces = ps
      /\ result'.total = total
      /\ result'.data = out
  BY <1>2
<1>8. result' \in [key : SUBSET FragKeys, pieces : Seq(Piece), total : Nat, data : Seq(FragByte)]
  BY <1>2, <1>4, <1>6
<1>9. NeverHalfParsed'
  BY <1>5, <1>6, <1>7 DEF NeverHalfParsed
<1>10. consumed' \in Nat
  BY <1>2, <1>4 DEF FragInv, FragTypeOK
<1> QED
  BY <1>8, <1>9, <1>10

(* Every push, refused, abandoning, holding or completing, and the final   *)
(* read of the counters keep the inductive invariant.                      *)
LEMMA FragNextInv == FragInv /\ [FragNext]_fragVars => FragInv'
<1> SUFFICES ASSUME FragInv, [FragNext]_fragVars PROVE FragInv'
  OBVIOUS
<1>1. FragTypeOK
  BY DEF FragInv
<1>2. ASSUME NEW k \in FragKeys, NEW offset \in Offsets, NEW mf \in BOOLEAN,
             NEW data \in FragPayloads, FragPush(k, offset, mf, data)
      PROVE  FragInv'
  <2>1. fragments' \in Nat /\ reported' \in Nat \cup {-1}
    BY <1>1, <1>2 DEF FragPush, FragTypeOK
  <2>2. CASE FragPushRefused(k)
    BY <1>1, <2>1, <2>2, NoResultType
       DEF FragPushRefused, FragInv, FragTypeOK, SetsBounded, SetsPresent, TotalIsDeclared, NeverHalfParsed
  <2>3. CASE PushAbandons(k, data)
    <3>1. sets' \in [FragKeys -> FragSet] /\ SetsBounded' /\ TotalIsDeclared'
      BY <2>3, RemovalKeepsSets DEF PushAbandons
    <3> QED
      BY <3>1, <1>1, <2>1, <2>3, NoResultType DEF PushAbandons, FragInv, FragTypeOK, NeverHalfParsed
  <2>4. CASE PushHolds(k, offset, mf, data)
    <3>1. sets' \in [FragKeys -> FragSet] /\ SetsBounded' /\ TotalIsDeclared'
      BY <2>4, HoldKeepsSets
    <3> QED
      BY <3>1, <1>1, <2>1, <2>4, NoResultType DEF PushHolds, FragInv, FragTypeOK, NeverHalfParsed
  <2>5. CASE PushCompletes(k, offset, mf, data)
    <3>1. sets' \in [FragKeys -> FragSet] /\ SetsBounded' /\ TotalIsDeclared'
      BY <2>5, RemovalKeepsSets DEF PushCompletes
    <3>2. dropped' \in Nat /\ completed' \in Nat
      BY <2>5, <1>1 DEF PushCompletes, FragTypeOK
    <3> QED
      BY <3>1, <3>2, <2>1, <2>5, CompletionIsWhole DEF FragInv, FragTypeOK
  <2> QED
    BY <1>2, <2>2, <2>3, <2>4, <2>5 DEF FragPush
<1>3. CASE FragFinalize
  BY <1>1, <1>3, NoResultType
     DEF FragFinalize, FragInv, FragTypeOK, SetsBounded, SetsPresent, TotalIsDeclared, NeverHalfParsed
<1>4. CASE UNCHANGED fragVars
  BY <1>4 DEF fragVars, FragInv, FragTypeOK, SetsBounded, SetsPresent, TotalIsDeclared, NeverHalfParsed
<1> QED
  BY <1>2, <1>3, <1>4 DEF FragNext

----------------------------------------------------------------------------
(* FragTable's variables keep their types whatever the capture holds.      *)
THEOREM FragTypeCorrect == FragSpec => []FragTypeOK
<1>1. FragInv => FragTypeOK
  BY DEF FragInv
<1> QED
  BY <1>1, FragInitInv, FragNextInv, PTL DEF FragSpec

(* max_sets and max_bytes are never exceeded, for every value of the caps: *)
(* "strictly bounded" reassembly (reasm.rs).                               *)
THEOREM FragSetsBounded == FragSpec => []SetsBounded
<1>1. FragInv => SetsBounded
  BY DEF FragInv
<1> QED
  BY <1>1, FragInitInv, FragNextInv, PTL DEF FragSpec

(* A datagram that push returns has its declared length and only bytes     *)
(* that a fragment carried for that position.                              *)
THEOREM FragNeverHalfParsed == FragSpec => []NeverHalfParsed
<1>1. FragInv => NeverHalfParsed
  BY DEF FragInv
<1> QED
  BY <1>1, FragInitInv, FragNextInv, PTL DEF FragSpec

----------------------------------------------------------------------------
(* Fragments are conserved: the fragments lost are those pushed that are   *)
(* neither in a completed datagram nor waiting, and the counter reported   *)
(* is the one that push keeps.                                             *)
LossInv ==
  /\ IsFiniteSet(HeldPieces)
  /\ LossIsCounted
  /\ reported = -1 \/ reported = dropped

(* The places of the pieces of set k.                                      *)
Places(k) == {k} \X DOMAIN sets[k].pieces

LEMMA HeldIs ==
  ASSUME NEW x
  PROVE  x \in HeldPieces <=> \E k \in FragKeys : \E i \in DOMAIN sets[k].pieces : x = <<k, i>>
BY DEF HeldPieces

LEMMA PlacesCount ==
  ASSUME FragTypeOK, NEW k \in FragKeys
  PROVE  /\ Len(sets[k].pieces) \in Nat /\ DOMAIN sets[k].pieces = 1 .. Len(sets[k].pieces)
         /\ IsFiniteSet(Places(k)) /\ Cardinality(Places(k)) = Len(sets[k].pieces)
         /\ Places(k) \subseteq HeldPieces
<1>1. sets[k].pieces \in Seq(Piece)
  BY DEF FragTypeOK, FragSet
<1>2. PICK ps \in Seq(Piece) : ps = sets[k].pieces
  BY <1>1
<1>3. PICK n \in Nat : n = Len(ps) /\ DOMAIN ps = 1 .. n
  BY LenProperties
<1>4. IsFiniteSet(1 .. n) /\ Cardinality(1 .. n) = n
  BY FS_Interval
<1>5. IsFiniteSet({k}) /\ Cardinality({k}) = 1
  BY FS_Singleton
<1>6. IsFiniteSet({k} \X (1 .. n)) /\ Cardinality({k} \X (1 .. n)) = 1 * n
  BY <1>4, <1>5, FS_Product
<1>7. Places(k) = {k} \X (1 .. n)
  BY <1>2, <1>3 DEF Places
<1>8. Places(k) \subseteq HeldPieces
  BY DEF Places, HeldPieces
<1> QED
  BY <1>2, <1>3, <1>6, <1>7, <1>8

(* A set that is removed takes its pieces along.                           *)
LEMMA HeldLoses ==
  ASSUME FragTypeOK, IsFiniteSet(HeldPieces), NEW k \in FragKeys, sets' = [sets EXCEPT ![k] = EmptySet]
  PROVE  /\ IsFiniteSet(HeldPieces') /\ Cardinality(HeldPieces) \in Nat
         /\ Cardinality(HeldPieces') = Cardinality(HeldPieces) - Len(sets[k].pieces)
<1>1. sets \in [FragKeys -> FragSet]
  BY DEF FragTypeOK
<1>2. sets'[k].pieces = <<>> /\ \A j \in FragKeys : j # k => sets'[j] = sets[j]
  BY <1>1, EmptySetTypes
<1>3. DOMAIN sets'[k].pieces = {}
  BY <1>2
<1>4. HeldPieces' = HeldPieces \ Places(k)
  <2>1. \A x : x \in HeldPieces' <=> \E j \in FragKeys : \E i \in DOMAIN sets'[j].pieces : x = <<j, i>>
    BY DEF HeldPieces
  <2>2. \A x : x \in HeldPieces <=> \E j \in FragKeys : \E i \in DOMAIN sets[j].pieces : x = <<j, i>>
    BY HeldIs
  <2>3. \A x : x \in Places(k) <=> \E i \in DOMAIN sets[k].pieces : x = <<k, i>>
    BY DEF Places
  <2>4. ASSUME NEW x, x \in HeldPieces' PROVE x \in HeldPieces /\ x \notin Places(k)
    <3>1. PICK j \in FragKeys : \E i \in DOMAIN sets'[j].pieces : x = <<j, i>>
      BY <2>1, <2>4
    <3>2. PICK i \in DOMAIN sets'[j].pieces : x = <<j, i>>
      BY <3>1
    <3>3. j # k
      BY <1>3, <3>2
    <3>4. i \in DOMAIN sets[j].pieces
      BY <1>2, <3>2, <3>3
    <3> QED
      BY <2>2, <2>3, <3>2, <3>3, <3>4
  <2>5. ASSUME NEW x, x \in HeldPieces, x \notin Places(k) PROVE x \in HeldPieces'
    <3>1. PICK j \in FragKeys : \E i \in DOMAIN sets[j].pieces : x = <<j, i>>
      BY <2>2, <2>5
    <3>2. PICK i \in DOMAIN sets[j].pieces : x = <<j, i>>
      BY <3>1
    <3>3. j # k
      BY <2>3, <2>5, <3>2
    <3>4. i \in DOMAIN sets'[j].pieces
      BY <1>2, <3>2, <3>3
    <3> QED
      BY <2>1, <3>2, <3>4
  <2> QED
    BY <2>4, <2>5
<1>5. Places(k) \subseteq HeldPieces /\ Cardinality(Places(k)) = Len(sets[k].pieces)
  BY PlacesCount
<1>6. HeldPieces \cap Places(k) = Places(k)
  BY <1>5
<1>7. /\ IsFiniteSet(HeldPieces \ Places(k))
      /\ Cardinality(HeldPieces \ Places(k)) = Cardinality(HeldPieces) - Cardinality(HeldPieces \cap Places(k))
  BY FS_Difference
<1> QED
  BY <1>4, <1>5, <1>6, <1>7, FS_CardinalityType

(* A piece that is kept is one more.                                       *)
LEMMA HeldGains ==
  ASSUME FragTypeOK, IsFiniteSet(HeldPieces), NEW k \in FragKeys, NEW offset, NEW mf, NEW data,
         sets' = [sets EXCEPT ![k] = Added(k, offset, mf, data)],
         [offset |-> offset, data |-> data] \in Piece
  PROVE  /\ IsFiniteSet(HeldPieces') /\ Cardinality(HeldPieces) \in Nat
         /\ Cardinality(HeldPieces') = Cardinality(HeldPieces) + 1
<1>1. sets \in [FragKeys -> FragSet]
  BY DEF FragTypeOK
<1>2. PICK p \in Piece : p = [offset |-> offset, data |-> data]
  OBVIOUS
<1>3. PICK ps \in Seq(Piece) : ps = sets[k].pieces
  <2>1. sets[k].pieces \in Seq(Piece)
    BY DEF FragTypeOK, FragSet
  <2> QED
    BY <2>1
<1>4. PICK n \in Nat : n = Len(ps) /\ DOMAIN ps = 1 .. n
  BY LenProperties
<1>5. sets'[k].pieces = Append(ps, p) /\ \A j \in FragKeys : j # k => sets'[j] = sets[j]
  BY <1>1, <1>2, <1>3 DEF Added
<1>6. DOMAIN Append(ps, p) = 1 .. (n + 1)
  BY <1>4
<1>7. DOMAIN sets'[k].pieces = DOMAIN sets[k].pieces \cup {n + 1}
  <2>1. 1 .. (n + 1) = 1 .. n \cup {n + 1}
    OBVIOUS
  <2> QED
    BY <1>3, <1>4, <1>5, <1>6, <2>1
<1>8. n + 1 \notin DOMAIN sets[k].pieces
  BY <1>3, <1>4
<1>9. HeldPieces' = HeldPieces \cup {<<k, n + 1>>} /\ <<k, n + 1>> \notin HeldPieces
  <2>1. PICK m : m = n + 1
    OBVIOUS
  <2>2. \A x : x \in HeldPieces' <=> \E j \in FragKeys : \E i \in DOMAIN sets'[j].pieces : x = <<j, i>>
    BY DEF HeldPieces
  <2>3. \A x : x \in HeldPieces <=> \E j \in FragKeys : \E i \in DOMAIN sets[j].pieces : x = <<j, i>>
    BY HeldIs
  <2>4. ASSUME NEW x, x \in HeldPieces' PROVE x \in HeldPieces \/ x = <<k, m>>
    <3>1. PICK j \in FragKeys : \E i \in DOMAIN sets'[j].pieces : x = <<j, i>>
      BY <2>2, <2>4
    <3>2. PICK i \in DOMAIN sets'[j].pieces : x = <<j, i>>
      BY <3>1
    <3>3. i \in DOMAIN sets[j].pieces \/ (j = k /\ i = m)
      BY <1>5, <1>7, <2>1, <3>2
    <3> QED
      BY <2>3, <3>2, <3>3
  <2>5. ASSUME NEW x, x \in HeldPieces PROVE x \in HeldPieces'
    <3>1. PICK j \in FragKeys : \E i \in DOMAIN sets[j].pieces : x = <<j, i>>
      BY <2>3, <2>5
    <3>2. PICK i \in DOMAIN sets[j].pieces : x = <<j, i>>
      BY <3>1
    <3>3. i \in DOMAIN sets'[j].pieces
      BY <1>5, <1>7, <3>2
    <3> QED
      BY <2>2, <3>2, <3>3
  <2>6. <<k, m>> \in HeldPieces'
    BY <1>7, <2>1, <2>2
  <2>7. <<k, m>> \notin HeldPieces
    <3>1. SUFFICES ASSUME <<k, m>> \in HeldPieces PROVE FALSE
      OBVIOUS
    <3>2. PICK j \in FragKeys : \E i \in DOMAIN sets[j].pieces : <<k, m>> = <<j, i>>
      BY <2>3, <3>1
    <3>3. PICK i \in DOMAIN sets[j].pieces : <<k, m>> = <<j, i>>
      BY <3>2
    <3>4. j = k /\ i = m
      BY <3>3
    <3> QED
      BY <1>8, <2>1, <3>3, <3>4
  <2>8. HeldPieces' = HeldPieces \cup {<<k, m>>}
    BY <2>4, <2>5, <2>6
  <2> QED
    BY <2>1, <2>7, <2>8
<1> QED
  BY <1>9, FS_AddElement, FS_CardinalityType

(* The arithmetic of a step: h is what waits.                              *)
Loss(h, n, c, d, r) ==
  LET lost == n - c - h
  IN  /\ lost >= d
      /\ lost > 0 => d > 0
      /\ lost > 0 /\ r # -1 => r > 0

LEMMA LossIs ==
  /\ LossIsCounted <=> Loss(Cardinality(HeldPieces), fragments, consumed, dropped, reported)
  /\ LossIsCounted' <=> Loss(Cardinality(HeldPieces'), fragments', consumed', dropped', reported')
BY DEF LossIsCounted, Loss

LEMMA InitLoss == FragInit => LossInv
<1> SUFFICES ASSUME FragInit PROVE LossInv
  OBVIOUS
<1>1. HeldPieces = {}
  <2>1. \A k \in FragKeys : sets[k].pieces = <<>>
    BY EmptySetTypes DEF FragInit
  <2>2. \A k \in FragKeys : DOMAIN sets[k].pieces = {}
    BY <2>1
  <2> QED
    BY <2>2, HeldIs
<1>2. IsFiniteSet({}) /\ Cardinality({}) = 0
  BY FS_EmptySet
<1>3. Loss(0, 0, 0, 0, -1)
  BY DEF Loss
<1>4. LossIsCounted
  BY <1>1, <1>2, <1>3, LossIs DEF FragInit
<1> QED
  BY <1>1, <1>2, <1>4 DEF LossInv, FragInit

LEMMA NextLoss == FragInv /\ LossInv /\ [FragNext]_fragVars => LossInv'
<1> SUFFICES ASSUME FragInv, LossInv, [FragNext]_fragVars PROVE LossInv'
  OBVIOUS
<1>1. FragTypeOK /\ IsFiniteSet(HeldPieces)
  BY DEF FragInv, LossInv
<1>2. Cardinality(HeldPieces) \in Nat
  BY <1>1, FS_CardinalityType
<1>3. PICK h \in Nat, n \in Nat, c \in Nat, d \in Nat :
        h = Cardinality(HeldPieces) /\ n = fragments /\ c = consumed /\ d = dropped
  BY <1>1, <1>2 DEF FragTypeOK
<1>4. Loss(h, n, c, d, reported) /\ (reported = -1 \/ reported = d)
  BY <1>3, LossIs DEF LossInv
<1>5. ASSUME NEW k \in FragKeys, NEW offset \in Offsets, NEW mf \in BOOLEAN,
             NEW data \in FragPayloads, FragPush(k, offset, mf, data)
      PROVE  LossInv'
  <2>1. reported = -1 /\ reported' = -1 /\ fragments' = n + 1
    BY <1>3, <1>5 DEF FragPush
  <2>2. CASE FragPushRefused(k)
    <3>1. HeldPieces' = HeldPieces /\ consumed' = c /\ dropped' = d + 1
      BY <1>3, <2>2 DEF FragPushRefused, HeldPieces
    <3>2. Loss(h, n + 1, c, d + 1, -1)
      BY <1>4, <2>1 DEF Loss
    <3> QED
      BY <1>1, <1>3, <2>1, <3>1, <3>2, LossIs DEF LossInv
  <2>3. CASE PushAbandons(k, data)
    <3>1. sets' = [sets EXCEPT ![k] = EmptySet] /\ consumed' = c /\ dropped' = d + 1
      BY <1>3, <2>3 DEF PushAbandons
    <3>2. PICK l \in Nat : l = Len(sets[k].pieces)
      BY <1>1, PlacesCount
    <3>3. IsFiniteSet(HeldPieces') /\ Cardinality(HeldPieces') = h - l
      BY <1>1, <1>3, <3>1, <3>2, HeldLoses
    <3>4. Loss(h - l, n + 1, c, d + 1, -1)
      BY <1>4, <2>1 DEF Loss
    <3> QED
      BY <2>1, <3>1, <3>3, <3>4, LossIs DEF LossInv
  <2>4. CASE PushHolds(k, offset, mf, data)
    <3>1. /\ sets' = [sets EXCEPT ![k] = Added(k, offset, mf, data)]
          /\ consumed' = c /\ dropped' = d
      BY <1>3, <2>4 DEF PushHolds
    <3>2. [offset |-> offset, data |-> data] \in Piece
      BY FragAssumption DEF Piece
    <3>3. IsFiniteSet(HeldPieces') /\ Cardinality(HeldPieces') = h + 1
      BY <1>1, <1>3, <3>1, <3>2, HeldGains
    <3>4. Loss(h + 1, n + 1, c, d, -1)
      BY <1>4, <2>1 DEF Loss
    <3> QED
      BY <2>1, <3>1, <3>3, <3>4, LossIs DEF LossInv
  <2>5. CASE PushCompletes(k, offset, mf, data)
    <3>1. PICK s : s = Added(k, offset, mf, data)
      OBVIOUS
    <3>2. /\ sets' = [sets EXCEPT ![k] = EmptySet] /\ consumed' = c + Len(s.pieces)
          /\ dropped' = d
      BY <1>3, <2>5, <3>1 DEF PushCompletes
    <3>3. PICK l \in Nat : l = Len(sets[k].pieces)
      BY <1>1, PlacesCount
    <3>4. Len(s.pieces) = l + 1
      <4>1. PICK p \in Piece : p = [offset |-> offset, data |-> data]
        <5>1. [offset |-> offset, data |-> data] \in Piece
          BY FragAssumption DEF Piece
        <5> QED
          BY <5>1
      <4>2. PICK ps \in Seq(Piece) : ps = sets[k].pieces
        <5>1. sets[k].pieces \in Seq(Piece)
          BY <1>1 DEF FragTypeOK, FragSet
        <5> QED
          BY <5>1
      <4>3. s.pieces = Append(ps, p)
        BY <3>1, <4>1, <4>2 DEF Added
      <4>4. Len(Append(ps, p)) = Len(ps) + 1
        OBVIOUS
      <4>5. Len(ps) = l
        BY <3>3, <4>2
      <4> QED
        BY <4>3, <4>4, <4>5
    <3>5. IsFiniteSet(HeldPieces') /\ Cardinality(HeldPieces') = h - l
      BY <1>1, <1>3, <3>2, <3>3, HeldLoses
    <3>6. Loss(h - l, n + 1, c + (l + 1), d, -1)
      BY <1>4, <2>1 DEF Loss
    <3> QED
      BY <2>1, <3>2, <3>4, <3>5, <3>6, LossIs DEF LossInv
  <2> QED
    BY <1>5, <2>2, <2>3, <2>4, <2>5 DEF FragPush
<1>6. CASE FragFinalize
  <2>1. /\ HeldPieces' = HeldPieces /\ fragments' = n /\ consumed' = c /\ dropped' = d /\ reported' = d
    BY <1>3, <1>6 DEF FragFinalize, HeldPieces
  <2>2. Loss(h, n, c, d, d)
    BY <1>4 DEF Loss
  <2> QED
    BY <1>1, <1>3, <2>1, <2>2, LossIs DEF LossInv
<1>7. CASE UNCHANGED fragVars
  <2>1. HeldPieces' = HeldPieces
    BY <1>7 DEF HeldPieces, fragVars
  <2> QED
    BY <1>7, <2>1 DEF fragVars, LossInv, LossIsCounted
<1> QED
  BY <1>5, <1>6, <1>7 DEF FragNext

(* A fragment that is neither buffered nor in a completed datagram has     *)
(* moved the dropped counter, and the run reports it: "anything dropped is *)
(* counted rather than silently discarded" (reasm.rs).                     *)
THEOREM FragLossCounted == FragSpec => []LossIsCounted
<1>1. FragInit => FragInv /\ LossInv
  BY FragInitInv, InitLoss
<1>2. FragInv /\ LossInv /\ [FragNext]_fragVars => (FragInv /\ LossInv)'
  BY FragNextInv, NextLoss
<1>3. LossInv => LossIsCounted
  BY DEF LossInv
<1> QED
  BY <1>1, <1>2, <1>3, PTL DEF FragSpec

----------------------------------------------------------------------------
(* The source's loop.  First its sort: the order of SortsBefore is total,  *)
(* so the pieces that sort before a piece give its place, no two pieces    *)
(* have the same place, and Order exists.                                  *)
LEMMA SortsTotally ==
  ASSUME NEW ps \in Seq(Piece)
  PROVE  /\ \A i \in DOMAIN ps : ~ SortsBefore(ps, i, i)
         /\ \A i, j \in DOMAIN ps : i = j \/ SortsBefore(ps, i, j) \/ SortsBefore(ps, j, i)
         /\ \A i, j, k \in DOMAIN ps :
              SortsBefore(ps, i, j) /\ SortsBefore(ps, j, k) => SortsBefore(ps, i, k)
<1>1. \A i \in DOMAIN ps : i \in Nat /\ ps[i].offset \in Nat
  BY PieceTypes
<1> QED
  BY <1>1 DEF SortsBefore

(* The pieces before piece i.                                              *)
Earlier(ps, i) == {j \in DOMAIN ps : SortsBefore(ps, j, i)}

Place(ps) == [i \in DOMAIN ps |-> Cardinality(Earlier(ps, i)) + 1]

LEMMA DomainFinite ==
  ASSUME NEW ps \in Seq(Piece)
  PROVE  /\ Len(ps) \in Nat /\ DOMAIN ps = 1 .. Len(ps)
         /\ IsFiniteSet(DOMAIN ps) /\ Cardinality(DOMAIN ps) = Len(ps)
<1>1. Len(ps) \in Nat /\ DOMAIN ps = 1 .. Len(ps)
  OBVIOUS
<1>2. IsFiniteSet(1 .. Len(ps)) /\ Cardinality(1 .. Len(ps)) = Len(ps)
  BY <1>1, FS_Interval
<1> QED
  BY <1>1, <1>2

LEMMA EarlierCount ==
  ASSUME NEW ps \in Seq(Piece), NEW i \in DOMAIN ps
  PROVE  /\ IsFiniteSet(Earlier(ps, i)) /\ Cardinality(Earlier(ps, i)) \in Nat
         /\ Cardinality(Earlier(ps, i)) < Len(ps)
<1>1. Earlier(ps, i) \in SUBSET DOMAIN ps /\ i \notin Earlier(ps, i)
  BY SortsTotally DEF Earlier
<1>2. /\ IsFiniteSet(Earlier(ps, i)) /\ Cardinality(Earlier(ps, i)) <= Cardinality(DOMAIN ps)
      /\ Cardinality(DOMAIN ps) = Cardinality(Earlier(ps, i)) => DOMAIN ps = Earlier(ps, i)
  BY <1>1, DomainFinite, FS_Subset
<1>3. Cardinality(Earlier(ps, i)) \in Nat
  BY <1>2, FS_CardinalityType
<1> QED
  BY <1>1, <1>2, <1>3, DomainFinite

LEMMA PlaceGrows ==
  ASSUME NEW ps \in Seq(Piece), NEW i \in DOMAIN ps, NEW j \in DOMAIN ps, SortsBefore(ps, i, j)
  PROVE  Place(ps)[i] < Place(ps)[j]
<1>1. /\ Earlier(ps, i) \in SUBSET Earlier(ps, j)
      /\ i \in Earlier(ps, j) /\ i \notin Earlier(ps, i)
  BY SortsTotally DEF Earlier
<1>2. /\ Cardinality(Earlier(ps, i)) <= Cardinality(Earlier(ps, j))
      /\ Cardinality(Earlier(ps, j)) = Cardinality(Earlier(ps, i)) => Earlier(ps, j) = Earlier(ps, i)
  BY <1>1, EarlierCount, FS_Subset
<1>3. Cardinality(Earlier(ps, i)) \in Nat /\ Cardinality(Earlier(ps, j)) \in Nat
  BY EarlierCount
<1> QED
  BY <1>1, <1>2, <1>3 DEF Place

LEMMA PlacesAreAll ==
  ASSUME NEW ps \in Seq(Piece)
  PROVE  /\ Place(ps) \in [DOMAIN ps -> DOMAIN ps]
         /\ \A r \in DOMAIN ps : \E i \in DOMAIN ps : Place(ps)[i] = r
<1>1. Place(ps) \in [DOMAIN ps -> DOMAIN ps]
  <2>1. ASSUME NEW i \in DOMAIN ps PROVE Cardinality(Earlier(ps, i)) + 1 \in DOMAIN ps
    BY EarlierCount, DomainFinite
  <2> QED
    BY <2>1 DEF Place
<1>2. \A i, j \in DOMAIN ps : Place(ps)[i] = Place(ps)[j] => i = j
  <2>1. SUFFICES ASSUME NEW i \in DOMAIN ps, NEW j \in DOMAIN ps, i # j
                 PROVE  Place(ps)[i] # Place(ps)[j]
    OBVIOUS
  <2>2. Place(ps)[i] \in Nat /\ Place(ps)[j] \in Nat
    BY <1>1, DomainFinite
  <2>3. SortsBefore(ps, i, j) \/ SortsBefore(ps, j, i)
    BY <2>1, SortsTotally
  <2> QED
    BY <2>2, <2>3, PlaceGrows
<1>3. Place(ps) \in Injection(DOMAIN ps, DOMAIN ps)
  BY <1>1, <1>2 DEF Injection, IsInjective
<1>4. Place(ps) \in Surjection(DOMAIN ps, DOMAIN ps)
  BY <1>3, DomainFinite, FS_Injection
<1> QED
  BY <1>1, <1>4 DEF Surjection

(* What a sorted order of the pieces is.                                   *)
Sorts(ps, f) ==
  /\ f \in [DOMAIN ps -> DOMAIN ps]
  /\ \A r, s \in DOMAIN ps : r < s => SortsBefore(ps, f[r], f[s])

LEMMA OrderSorts ==
  ASSUME NEW ps \in Seq(Piece)
  PROVE  Sorts(ps, Order(ps))
<1> DEFINE f == [r \in DOMAIN ps |-> CHOOSE i \in DOMAIN ps : Place(ps)[i] = r]
<1>1. f \in [DOMAIN ps -> DOMAIN ps] /\ \A r \in DOMAIN ps : Place(ps)[f[r]] = r
  BY PlacesAreAll
<1> HIDE DEF f
<1>2. ASSUME NEW r \in DOMAIN ps, NEW s \in DOMAIN ps, r < s
      PROVE  SortsBefore(ps, f[r], f[s])
  <2>1. f[r] \in DOMAIN ps /\ f[s] \in DOMAIN ps /\ r \in Nat /\ s \in Nat
    BY <1>1, DomainFinite
  <2>2. Place(ps)[f[r]] = r /\ Place(ps)[f[s]] = s
    BY <1>1
  <2>3. f[r] # f[s]
    BY <1>2, <2>1, <2>2
  <2>4. ~ SortsBefore(ps, f[s], f[r])
    <3>1. SUFFICES ASSUME SortsBefore(ps, f[s], f[r]) PROVE s < r
      BY <1>2, <2>1
    <3>2. Place(ps)[f[s]] < Place(ps)[f[r]]
      BY <2>1, <3>1, PlaceGrows
    <3> QED
      BY <2>2, <3>2
  <2> QED
    BY <2>1, <2>3, <2>4, SortsTotally
<1>3. \E g \in [DOMAIN ps -> DOMAIN ps] :
        \A r, s \in DOMAIN ps : r < s => SortsBefore(ps, g[r], g[s])
  BY <1>1, <1>2
<1> QED
  BY <1>3 DEF Order, Sorts

(* A sorted order has every piece, and those before the one at place r are *)
(* at the places before it.                                                *)
LEMMA SortedOnto ==
  ASSUME NEW ps \in Seq(Piece), NEW f, Sorts(ps, f)
  PROVE  /\ \A i \in DOMAIN ps : \E r \in DOMAIN ps : f[r] = i
         /\ \A r, s \in DOMAIN ps : SortsBefore(ps, f[s], f[r]) => s < r
<1>0. /\ f \in [DOMAIN ps -> DOMAIN ps]
      /\ \A r, s \in DOMAIN ps : r < s => SortsBefore(ps, f[r], f[s])
  BY DEF Sorts
<1>1. \A r, s \in DOMAIN ps : SortsBefore(ps, f[s], f[r]) => s < r
  <2>1. SUFFICES ASSUME NEW r \in DOMAIN ps, NEW s \in DOMAIN ps, SortsBefore(ps, f[s], f[r])
                 PROVE  s < r
    OBVIOUS
  <2>2. f[r] \in DOMAIN ps /\ f[s] \in DOMAIN ps /\ r \in Nat /\ s \in Nat
    BY <1>0, DomainFinite
  <2>3. ~ SortsBefore(ps, f[r], f[s])
    BY <2>1, <2>2, SortsTotally
  <2>4. r # s
    BY <2>1, <2>2, SortsTotally
  <2>5. ~ (r < s)
    BY <1>0, <2>3
  <2> QED
    BY <2>2, <2>4, <2>5
<1>2. \A r, s \in DOMAIN ps : f[r] = f[s] => r = s
  <2>1. SUFFICES ASSUME NEW r \in DOMAIN ps, NEW s \in DOMAIN ps, r # s PROVE f[r] # f[s]
    OBVIOUS
  <2>2. f[r] \in DOMAIN ps /\ r \in Nat /\ s \in Nat
    BY <1>0, DomainFinite
  <2>3. r < s \/ s < r
    BY <2>1, <2>2
  <2>4. SortsBefore(ps, f[r], f[s]) \/ SortsBefore(ps, f[s], f[r])
    BY <1>0, <2>3
  <2> QED
    BY <2>2, <2>4, SortsTotally
<1>3. f \in Injection(DOMAIN ps, DOMAIN ps)
  BY <1>0, <1>2 DEF Injection, IsInjective
<1>4. f \in Surjection(DOMAIN ps, DOMAIN ps)
  BY <1>3, DomainFinite, FS_Injection
<1> QED
  BY <1>1, <1>4 DEF Surjection

----------------------------------------------------------------------------
(* The output of the loop, before and after a piece.                       *)
Output == [data : Seq(FragByte), hole : BOOLEAN]

NoOutput == [data |-> <<>>, hole |-> FALSE]

(* e is d with what piece p has behind it.                                 *)
Grown(d, p, e) ==
  /\ Len(e) = IF End(p) > Len(d) THEN End(p) ELSE Len(d)
  /\ \A m \in 1 .. Len(d) : e[m] = d[m]
  /\ \A m \in Len(d) + 1 .. Len(e) : e[m] = p.data[m - p.offset]

(* One turn of the loop, by what it does to hole and data.                 *)
Turn(o, p, x) ==
  /\ x \in Output
  /\ o.hole => x.hole
  /\ ~ o.hole => (x.hole <=> p.offset > Len(o.data))
  /\ ~ x.hole => Grown(o.data, p, x.data)

LEMMA GrownBySubSeq ==
  ASSUME NEW d \in Seq(FragByte), NEW b \in Seq(FragByte), NEW off \in Nat,
         off <= Len(d), off + Len(b) > Len(d)
  PROVE  LET e == d \o SubSeq(b, Len(d) - off + 1, Len(b))
         IN  /\ e \in Seq(FragByte) /\ Len(e) = off + Len(b)
             /\ \A m \in 1 .. Len(d) : e[m] = d[m]
             /\ \A m \in Len(d) + 1 .. Len(e) : e[m] = b[m - off]
<1>1. PICK n \in Nat : n = Len(d)
  OBVIOUS
<1>2. PICK k \in Nat : k = Len(b)
  OBVIOUS
<1>3. PICK c : c = SubSeq(b, n - off + 1, k)
  OBVIOUS
<1>4. n - off + 1 \in 1 .. k /\ n - off \in Nat /\ off + k - n \in Nat
  BY <1>1, <1>2
<1>5. /\ c \in Seq(FragByte) /\ Len(c) = off + k - n
      /\ \A m \in 1 .. off + k - n : c[m] = b[n - off + m]
  <2>1. \A m \in n - off + 1 .. k : b[m] \in FragByte
    BY <1>2, <1>4
  <2>2. /\ SubSeq(b, n - off + 1, k) \in Seq(FragByte)
        /\ Len(SubSeq(b, n - off + 1, k)) = k - (n - off + 1) + 1
        /\ \A m \in 1 .. k - (n - off + 1) + 1 :
             SubSeq(b, n - off + 1, k)[m] = b[n - off + 1 + m - 1]
    BY <1>2, <1>4, <2>1, SubSeqProperties
  <2> QED
    BY <1>1, <1>2, <1>3, <1>4, <2>2
<1>6. /\ d \o c \in Seq(FragByte) /\ Len(d \o c) = n + Len(c)
      /\ \A m \in 1 .. n : (d \o c)[m] = d[m]
      /\ \A m \in n + 1 .. n + Len(c) : (d \o c)[m] = c[m - n]
  BY <1>1, <1>5, ConcatProperties
<1>7. Len(d \o c) = off + k
  BY <1>4, <1>5, <1>6
<1>8. ASSUME NEW m \in n + 1 .. off + k PROVE (d \o c)[m] = b[m - off]
  <2>1. m - n \in 1 .. off + k - n /\ m \in n + 1 .. n + Len(c)
    BY <1>4, <1>5, <1>8
  <2>2. c[m - n] = b[n - off + (m - n)] /\ n - off + (m - n) = m - off
    BY <1>4, <1>5, <2>1
  <2> QED
    BY <1>6, <2>1, <2>2
<1> QED
  BY <1>1, <1>2, <1>3, <1>6, <1>7, <1>8

LEMMA TurnIs ==
  ASSUME NEW o \in Output, NEW p \in Piece
  PROVE  Turn(o, p, AppendPiece(o, p))
<1>1. PICK d \in Seq(FragByte), h \in BOOLEAN : o = [data |-> d, hole |-> h]
  BY DEF Output
<1>2. PICK b \in Seq(FragByte), off \in Nat : p = [offset |-> off, data |-> b]
  BY DEF Piece
<1>3. o.data = d /\ o.hole = h /\ p.offset = off /\ p.data = b
  BY <1>1, <1>2
<1>4. PICK n \in Nat : n = Len(d)
  OBVIOUS
<1>5. PICK k \in Nat : k = Len(b)
  OBVIOUS
<1>6. End(p) = off + k
  BY <1>3, <1>5 DEF End
<1>7. CASE h \/ off > n
  <2>1. AppendPiece(o, p) = [data |-> d, hole |-> TRUE]
    BY <1>1, <1>3, <1>4, <1>7 DEF AppendPiece
  <2>2. PICK x : x = [data |-> d, hole |-> TRUE]
    OBVIOUS
  <2>3. x \in Output /\ x.hole = TRUE
    BY <2>2 DEF Output
  <2> QED
    BY <1>3, <1>4, <1>7, <2>1, <2>2, <2>3 DEF Turn
<1>8. CASE ~ h /\ off <= n /\ off + k > n
  <2>1. PICK e : e = d \o SubSeq(b, n - off + 1, k)
    OBVIOUS
  <2>2. AppendPiece(o, p) = [data |-> e, hole |-> FALSE]
    <3>1. ~ (o.hole \/ p.offset > Len(o.data)) /\ End(p) > Len(o.data)
      BY <1>3, <1>4, <1>6, <1>8
    <3>2. AppendPiece(o, p) = [o EXCEPT !.data = @ \o SubSeq(p.data, Len(@) - p.offset + 1, Len(p.data))]
      BY <3>1 DEF AppendPiece
    <3> QED
      BY <1>1, <1>3, <1>4, <1>5, <1>8, <2>1, <3>2
  <2>3. /\ e \in Seq(FragByte) /\ Len(e) = off + k
        /\ \A m \in 1 .. n : e[m] = d[m]
        /\ \A m \in n + 1 .. off + k : e[m] = b[m - off]
    <3>1. off <= Len(d) /\ off + Len(b) > Len(d)
      BY <1>4, <1>5, <1>8
    <3>2. LET x == d \o SubSeq(b, Len(d) - off + 1, Len(b))
          IN  /\ x \in Seq(FragByte) /\ Len(x) = off + Len(b)
              /\ \A m \in 1 .. Len(d) : x[m] = d[m]
              /\ \A m \in Len(d) + 1 .. Len(x) : x[m] = b[m - off]
      BY <3>1, GrownBySubSeq
    <3>3. e = d \o SubSeq(b, Len(d) - off + 1, Len(b))
      BY <1>4, <1>5, <2>1
    <3>4. /\ e \in Seq(FragByte) /\ Len(e) = off + Len(b)
          /\ \A m \in 1 .. Len(d) : e[m] = d[m]
          /\ \A m \in Len(d) + 1 .. Len(e) : e[m] = b[m - off]
      BY <3>2, <3>3
    <3> QED
      BY <1>4, <1>5, <3>4
  <2>4. Grown(d, p, e)
    BY <1>3, <1>4, <1>6, <1>8, <2>3 DEF Grown
  <2>5. PICK x : x = [data |-> e, hole |-> FALSE]
    OBVIOUS
  <2>6. x \in Output /\ x.hole = FALSE /\ x.data = e
    BY <2>3, <2>5 DEF Output
  <2> QED
    BY <1>3, <1>4, <1>8, <2>2, <2>4, <2>5, <2>6 DEF Turn
<1>9. CASE ~ h /\ off <= n /\ ~ (off + k > n)
  <2>1. AppendPiece(o, p) = o
    BY <1>3, <1>4, <1>6, <1>9 DEF AppendPiece
  <2>2. Grown(d, p, d)
    BY <1>4, <1>6, <1>9 DEF Grown
  <2> QED
    BY <1>3, <1>4, <1>9, <2>1, <2>2 DEF Turn
<1> QED
  BY <1>7, <1>8, <1>9

----------------------------------------------------------------------------
(* The loop over the sorted pieces q, turn by turn.                        *)
RunOver(q, n, g) ==
  /\ g[0] = NoOutput
  /\ \A m \in 1 .. n : g[m] = AppendPiece(g[m - 1], q[m])

LEMMA RunExists ==
  ASSUME NEW q \in Seq(Piece)
  PROVE  \E g \in [0 .. Len(q) -> Output] : RunOver(q, Len(q), g)
<1>0. PICK N \in Nat : N = Len(q)
  OBVIOUS
<1> DEFINE T == {m \in 0 .. N : ~ \E g \in [0 .. m -> Output] : RunOver(q, m, g)}
<1>1. SUFFICES ASSUME T # {} PROVE FALSE
  BY <1>0
<1>2. PICK m \in T : \A n \in T : m <= n
  <2>1. T \in SUBSET Nat
    BY <1>0
  <2> HIDE DEF T
  <2> QED
    BY <1>1, <2>1, FragLeastNatural
<1>3. m \in 0 .. N /\ m \in Nat /\ ~ \E g \in [0 .. m -> Output] : RunOver(q, m, g)
  BY <1>0, <1>2
<1>4. m # 0
  <2>1. NoOutput \in Output
    BY DEF NoOutput, Output
  <2>2. PICK g : g = [n \in 0 .. 0 |-> NoOutput]
    OBVIOUS
  <2>3. g \in [0 .. 0 -> Output] /\ RunOver(q, 0, g)
    BY <2>1, <2>2 DEF RunOver
  <2> QED
    BY <1>3, <2>3
<1>5. m - 1 \in 0 .. N /\ m - 1 \notin T /\ m - 1 \in Nat /\ m \in 1 .. N
  <2>1. m - 1 \in 0 .. N /\ ~ (m <= m - 1) /\ m - 1 \in Nat /\ m \in 1 .. N
    BY <1>0, <1>3, <1>4
  <2> HIDE DEF T
  <2> QED
    BY <1>2, <2>1
<1>6. PICK g \in [0 .. m - 1 -> Output] : RunOver(q, m - 1, g)
  BY <1>5
<1> HIDE DEF T
<1> DEFINE h == [n \in 0 .. m |-> IF n = m THEN AppendPiece(g[m - 1], q[m]) ELSE g[n]]
<1>7. AppendPiece(g[m - 1], q[m]) \in Output
  <2>1. g[m - 1] \in Output /\ q[m] \in Piece
    BY <1>0, <1>5, <1>6
  <2> QED
    BY <2>1, TurnIs DEF Turn
<1>8. h \in [0 .. m -> Output]
  BY <1>3, <1>5, <1>6, <1>7
<1>9. RunOver(q, m, h)
  <2>1. h[0] = NoOutput
    BY <1>3, <1>4, <1>6 DEF RunOver
  <2>2. ASSUME NEW n \in 1 .. m PROVE h[n] = AppendPiece(h[n - 1], q[n])
    <3>1. h[n - 1] = g[n - 1]
      BY <1>3, <2>2
    <3>2. n = m \/ n \in 1 .. m - 1
      BY <1>3, <2>2
    <3>3. n \in 0 .. m
      BY <1>3, <2>2
    <3>4. n # m => h[n] = g[n] /\ n \in 1 .. m - 1
      BY <3>2, <3>3
    <3>5. n = m => h[n] = AppendPiece(g[m - 1], q[m])
      BY <3>3
    <3> HIDE DEF h
    <3> QED
      BY <1>6, <3>1, <3>4, <3>5 DEF RunOver
  <2> HIDE DEF h
  <2> QED
    BY <2>1, <2>2 DEF RunOver
<1> QED
  BY <1>3, <1>8, <1>9

LEMMA SortedTypes ==
  ASSUME NEW ps \in Seq(Piece)
  PROVE  /\ SortedPieces(ps) \in Seq(Piece) /\ Len(SortedPieces(ps)) = Len(ps)
         /\ \A r \in DOMAIN ps : SortedPieces(ps)[r] = ps[Order(ps)[r]]
<1>1. PICK f : f = Order(ps)
  OBVIOUS
<1>2. f \in [DOMAIN ps -> DOMAIN ps]
  BY <1>1, OrderSorts DEF Sorts
<1>3. PICK q : q = [r \in DOMAIN ps |-> ps[f[r]]]
  OBVIOUS
<1>4. SortedPieces(ps) = q
  BY <1>1, <1>3 DEF SortedPieces
<1>5. DOMAIN ps = 1 .. Len(ps) /\ Len(ps) \in Nat
  BY DomainFinite
<1>6. q \in [1 .. Len(ps) -> Piece]
  BY <1>2, <1>3, <1>5
<1>7. q \in Seq(Piece) /\ Len(q) = Len(ps)
  BY <1>5, <1>6
<1> QED
  BY <1>1, <1>3, <1>4, <1>7

LEMMA LoopIsRun ==
  ASSUME NEW ps \in Seq(Piece)
  PROVE  \E g : RunOver(SortedPieces(ps), Len(ps), g) /\ Loop(ps) = g[Len(ps)]
<1>1. PICK q : q = SortedPieces(ps)
  OBVIOUS
<1>2. PICK N \in Nat : N = Len(ps)
  BY DomainFinite
<1>3. q \in Seq(Piece) /\ Len(q) = N
  BY <1>1, <1>2, SortedTypes
<1> DEFINE Is(t) == t = [n \in 0 .. N |-> IF n = 0 THEN [data |-> <<>>, hole |-> FALSE]
                                          ELSE AppendPiece(t[n - 1], q[n])]
           c == CHOOSE t : Is(t)
<1>4. PICK g \in [0 .. N -> Output] : RunOver(q, N, g)
  BY <1>3, RunExists
<1>5. Is(g)
  <2>1. ASSUME NEW n \in 0 .. N
        PROVE  g[n] = IF n = 0 THEN [data |-> <<>>, hole |-> FALSE] ELSE AppendPiece(g[n - 1], q[n])
    <3>1. n = 0 \/ n \in 1 .. N
      BY <1>2, <2>1
    <3> QED
      BY <1>4, <3>1 DEF RunOver, NoOutput
  <2> QED
    BY <1>4, <2>1
<1>6. Is(c)
  BY <1>5
<1>7. Loop(ps) = c[N]
  BY <1>1, <1>2 DEF Loop
<1>8. RunOver(q, N, c)
  <2>1. c = [n \in 0 .. N |-> IF n = 0 THEN [data |-> <<>>, hole |-> FALSE] ELSE AppendPiece(c[n - 1], q[n])]
    BY <1>6
  <2> HIDE DEF c
  <2>2. \A n \in 0 .. N : c[n] = IF n = 0 THEN [data |-> <<>>, hole |-> FALSE] ELSE AppendPiece(c[n - 1], q[n])
    BY <2>1
  <2>3. c[0] = NoOutput
    BY <1>2, <2>2 DEF NoOutput
  <2>4. ASSUME NEW n \in 1 .. N PROVE c[n] = AppendPiece(c[n - 1], q[n])
    <3>1. n \in 0 .. N /\ n # 0
      BY <1>2, <2>4
    <3> QED
      BY <2>2, <3>1
  <2> QED
    BY <2>3, <2>4 DEF RunOver
<1> HIDE DEF c
<1> QED
  BY <1>1, <1>2, <1>7, <1>8

----------------------------------------------------------------------------
(* What the loop has computed after n pieces: a hole iff some piece starts *)
(* past all before it; else as many bytes as the pieces reach, each from   *)
(* the first piece that reaches past its position.                         *)
HoleAt(q, r) == q[r].offset > 0 /\ \A s \in 1 .. r - 1 : End(q[s]) < q[r].offset

Reaches(q, n, d) ==
  /\ \A r \in 1 .. n : End(q[r]) <= Len(d)
  /\ Len(d) = 0 \/ \E r \in 1 .. n : End(q[r]) = Len(d)

From(q, r, d, m) ==
  /\ m <= End(q[r])
  /\ \A s \in 1 .. r - 1 : End(q[s]) < m
  /\ d[m] = q[r].data[m - q[r].offset]

FirstPast(q, n, d) == \A m \in 1 .. Len(d) : \E r \in 1 .. n : From(q, r, d, m)

Upto(q, n, x) ==
  /\ x \in Output
  /\ x.hole <=> \E r \in 1 .. n : HoleAt(q, r)
  /\ ~ x.hole => Reaches(q, n, x.data) /\ FirstPast(q, n, x.data)

LEMMA UptoStep ==
  ASSUME NEW q \in Seq(Piece), NEW n \in 1 .. Len(q), NEW o, NEW x,
         Upto(q, n - 1, o), Turn(o, q[n], x)
  PROVE  Upto(q, n, x)
<1>0. n \in Nat /\ Len(q) \in Nat /\ n \in DOMAIN q /\ (\A r \in 1 .. n : r \in DOMAIN q)
  OBVIOUS
<1>1. \A r \in 1 .. n : q[r].offset \in Nat /\ End(q[r]) \in Nat
  BY <1>0, PieceTypes
<1>2. o \in Output /\ x \in Output
  BY DEF Upto, Turn
<1>3. PICK d : d = o.data
  OBVIOUS
<1>4. PICK e : e = x.data
  OBVIOUS
<1>5. d \in Seq(FragByte) /\ Len(d) \in Nat /\ e \in Seq(FragByte) /\ Len(e) \in Nat
  BY <1>2, <1>3, <1>4 DEF Output
<1>6. CASE o.hole
  <2>1. x.hole
    BY <1>6 DEF Turn
  <2>2. PICK r \in 1 .. n - 1 : HoleAt(q, r)
    BY <1>6 DEF Upto
  <2>3. r \in 1 .. n
    BY <1>0
  <2> QED
    BY <1>2, <2>1, <2>2, <2>3 DEF Upto
<1>7. CASE ~ o.hole
  <2>1. Reaches(q, n - 1, d) /\ FirstPast(q, n - 1, d)
    BY <1>3, <1>7 DEF Upto
  <2>2. x.hole <=> q[n].offset > Len(d)
    BY <1>3, <1>7 DEF Turn
  <2>3. HoleAt(q, n) <=> q[n].offset > Len(d)
    <3>1. q[n].offset \in Nat /\ \A r \in 1 .. n - 1 : r \in 1 .. n
      BY <1>0, <1>1
    <3>2. \A r \in 1 .. n - 1 : End(q[r]) \in Nat /\ End(q[r]) <= Len(d)
      BY <1>1, <2>1, <3>1 DEF Reaches
    <3>3. ASSUME q[n].offset > Len(d) PROVE HoleAt(q, n)
      BY <1>5, <3>1, <3>2, <3>3 DEF HoleAt
    <3>4. ASSUME HoleAt(q, n) PROVE q[n].offset > Len(d)
      BY <1>5, <2>1, <3>1, <3>4 DEF HoleAt, Reaches
    <3> QED
      BY <3>3, <3>4
  <2>4. x.hole <=> \E r \in 1 .. n : HoleAt(q, r)
    <3>1. \A r \in 1 .. n : r = n \/ r \in 1 .. n - 1
      BY <1>0
    <3>2. ~ \E r \in 1 .. n - 1 : HoleAt(q, r)
      BY <1>7 DEF Upto
    <3>3. n \in 1 .. n
      BY <1>0
    <3> QED
      BY <2>2, <2>3, <3>1, <3>2, <3>3
  <2>5. ASSUME ~ x.hole PROVE Reaches(q, n, e) /\ FirstPast(q, n, e)
    <3>1. Grown(d, q[n], e)
      BY <1>3, <1>4, <2>5 DEF Turn
    <3>2. PICK k \in Nat, l \in Nat : k = Len(d) /\ l = Len(e)
      BY <1>5
    <3>3. PICK z \in Nat : z = End(q[n])
      BY <1>0, <1>1
    <3>4. l = IF z > k THEN z ELSE k
      BY <3>1, <3>2, <3>3 DEF Grown
    <3>5. \A r \in 1 .. n : r = n \/ r \in 1 .. n - 1
      BY <1>0
    <3>6. n \in 1 .. n /\ \A r \in 1 .. n - 1 : r \in 1 .. n
      BY <1>0
    <3>7. \A r \in 1 .. n - 1 : End(q[r]) \in Nat /\ End(q[r]) <= k
      BY <1>1, <2>1, <3>2, <3>6 DEF Reaches
    <3>8. \A r \in 1 .. n : End(q[r]) <= l
      BY <1>1, <3>3, <3>4, <3>5, <3>7
    <3>9. l = 0 \/ \E r \in 1 .. n : End(q[r]) = l
      <4>1. CASE z > k
        BY <3>3, <3>4, <3>6, <4>1
      <4>2. CASE ~ (z > k)
        <5>1. l = k
          BY <3>4, <4>2
        <5>2. k = 0 \/ \E r \in 1 .. n - 1 : End(q[r]) = k
          BY <2>1, <3>2 DEF Reaches
        <5> QED
          BY <3>6, <5>1, <5>2
      <4> QED
        BY <4>1, <4>2
    <3>10. ASSUME NEW m \in 1 .. l PROVE \E r \in 1 .. n : From(q, r, e, m)
      <4>1. CASE m <= k
        <5>1. m \in 1 .. k
          BY <3>2, <4>1
        <5>2. PICK r \in 1 .. n - 1 : From(q, r, d, m)
          BY <2>1, <3>2, <5>1 DEF FirstPast
        <5>3. e[m] = d[m]
          BY <3>1, <3>2, <5>1 DEF Grown
        <5>4. From(q, r, e, m)
          BY <5>2, <5>3 DEF From
        <5> QED
          BY <3>6, <5>4
      <4>2. CASE ~ (m <= k)
        <5>1. m \in k + 1 .. l /\ l = z /\ m \in Nat
          BY <3>2, <3>3, <3>4, <4>2
        <5>2. e[m] = q[n].data[m - q[n].offset]
          BY <3>1, <3>2, <5>1 DEF Grown
        <5>3. m <= End(q[n])
          BY <3>3, <5>1
        <5>4. \A s \in 1 .. n - 1 : End(q[s]) < m
          BY <3>2, <3>7, <5>1
        <5>5. From(q, n, e, m)
          BY <5>2, <5>3, <5>4 DEF From
        <5> QED
          BY <3>6, <5>5
      <4> QED
        BY <4>1, <4>2
    <3> QED
      BY <3>2, <3>8, <3>9, <3>10 DEF Reaches, FirstPast
  <2> QED
    BY <1>2, <1>4, <2>4, <2>5 DEF Upto
<1> QED
  BY <1>6, <1>7

LEMMA RunComputes ==
  ASSUME NEW q \in Seq(Piece), NEW g, RunOver(q, Len(q), g)
  PROVE  Upto(q, Len(q), g[Len(q)])
<1>0. PICK N \in Nat : N = Len(q)
  OBVIOUS
<1>1. g[0] = NoOutput /\ \A n \in 1 .. N : g[n] = AppendPiece(g[n - 1], q[n])
  BY <1>0 DEF RunOver
<1> DEFINE T == {n \in 0 .. N : ~ Upto(q, n, g[n])}
<1>2. SUFFICES ASSUME T # {} PROVE FALSE
  BY <1>0
<1>3. PICK m \in T : \A n \in T : m <= n
  <2>1. T \in SUBSET Nat
    BY <1>0
  <2> HIDE DEF T
  <2> QED
    BY <1>2, <2>1, FragLeastNatural
<1>4. m \in 0 .. N /\ m \in Nat /\ ~ Upto(q, m, g[m])
  BY <1>0, <1>3
<1>5. m # 0
  <2>1. NoOutput \in Output /\ NoOutput.hole = FALSE /\ NoOutput.data = <<>>
    BY DEF NoOutput, Output
  <2>2. Upto(q, 0, NoOutput)
    BY <2>1 DEF Upto, Reaches, FirstPast
  <2> QED
    BY <1>1, <1>4, <2>2
<1>6. m - 1 \in 0 .. N /\ m - 1 \notin T /\ m \in 1 .. N
  <2>1. m - 1 \in 0 .. N /\ ~ (m <= m - 1) /\ m \in 1 .. N
    BY <1>0, <1>4, <1>5
  <2> HIDE DEF T
  <2> QED
    BY <1>3, <2>1
<1>7. Upto(q, m - 1, g[m - 1])
  BY <1>6
<1> HIDE DEF T
<1>8. g[m] = AppendPiece(g[m - 1], q[m]) /\ q[m] \in Piece /\ g[m - 1] \in Output
  BY <1>0, <1>1, <1>6, <1>7 DEF Upto
<1>9. Turn(g[m - 1], q[m], g[m])
  BY <1>8, TurnIs
<1>10. m \in 1 .. Len(q)
  BY <1>0, <1>6
<1> QED
  BY <1>4, <1>7, <1>9, <1>10, UptoStep

----------------------------------------------------------------------------
(* The model's assembly is the loop's, piece i of the one being the piece  *)
(* at its place in the other.                                              *)
SortedAs(ps, f, q, n) ==
  /\ q \in Seq(Piece) /\ Len(q) = n /\ DOMAIN ps = 1 .. n /\ n \in Nat
  /\ f \in [1 .. n -> 1 .. n]
  /\ \A r \in 1 .. n : q[r] = ps[f[r]]
  /\ \A i \in 1 .. n : \E r \in 1 .. n : f[r] = i
  /\ \A r, s \in 1 .. n : s < r <=> SortsBefore(ps, f[s], f[r])

LEMMA SortedIs ==
  ASSUME NEW ps \in Seq(Piece)
  PROVE  SortedAs(ps, Order(ps), SortedPieces(ps), Len(ps))
<1>1. DOMAIN ps = 1 .. Len(ps) /\ Len(ps) \in Nat
  BY DomainFinite
<1>2. Sorts(ps, Order(ps))
  BY OrderSorts
<1>3. /\ SortedPieces(ps) \in Seq(Piece) /\ Len(SortedPieces(ps)) = Len(ps)
      /\ \A r \in DOMAIN ps : SortedPieces(ps)[r] = ps[Order(ps)[r]]
  BY SortedTypes
<1>4. /\ \A i \in DOMAIN ps : \E r \in DOMAIN ps : Order(ps)[r] = i
      /\ \A r, s \in DOMAIN ps : SortsBefore(ps, Order(ps)[s], Order(ps)[r]) => s < r
  BY <1>2, SortedOnto
<1> QED
  BY <1>1, <1>2, <1>3, <1>4 DEF Sorts, SortedAs

LEMMA HolesAgree ==
  ASSUME NEW ps \in Seq(Piece)
  PROVE  HasHole(ps) <=> \E r \in 1 .. Len(ps) : HoleAt(SortedPieces(ps), r)
<1>1. PICK f : f = Order(ps)
  OBVIOUS
<1>2. PICK q : q = SortedPieces(ps)
  OBVIOUS
<1>3. PICK N : N = Len(ps)
  OBVIOUS
<1>4. /\ DOMAIN ps = 1 .. N /\ N \in Nat
      /\ f \in [1 .. N -> 1 .. N]
      /\ \A r \in 1 .. N : q[r] = ps[f[r]]
      /\ \A i \in 1 .. N : \E r \in 1 .. N : f[r] = i
      /\ \A r, s \in 1 .. N : s < r <=> SortsBefore(ps, f[s], f[r])
  <2>1. SortedAs(ps, f, q, N)
    BY <1>1, <1>2, <1>3, SortedIs
  <2> QED
    BY <2>1 DEF SortedAs
<1>5. ASSUME NEW r \in 1 .. N
      PROVE  HoleAt(q, r) <=>
               /\ ps[f[r]].offset > 0
               /\ \A j \in DOMAIN ps : SortsBefore(ps, j, f[r]) => End(ps[j]) < ps[f[r]].offset
  <2>1. q[r] = ps[f[r]]
    BY <1>4
  <2>2. ASSUME \A s \in 1 .. r - 1 : End(q[s]) < q[r].offset,
               NEW j \in DOMAIN ps, SortsBefore(ps, j, f[r])
        PROVE  End(ps[j]) < ps[f[r]].offset
    <3>1. PICK s \in 1 .. N : f[s] = j
      BY <1>4
    <3>2. s < r
      BY <1>4, <2>2, <3>1
    <3>3. s \in 1 .. r - 1
      BY <1>4, <3>2
    <3> QED
      BY <1>4, <2>1, <2>2, <3>1, <3>3
  <2>3. ASSUME \A j \in DOMAIN ps : SortsBefore(ps, j, f[r]) => End(ps[j]) < ps[f[r]].offset,
               NEW s \in 1 .. r - 1
        PROVE  End(q[s]) < q[r].offset
    <3>1. s \in 1 .. N /\ s < r
      BY <1>4
    <3>2. SortsBefore(ps, f[s], f[r]) /\ f[s] \in DOMAIN ps
      BY <1>4, <3>1
    <3> QED
      BY <1>4, <2>1, <2>3, <3>1, <3>2
  <2> QED
    BY <2>1, <2>2, <2>3 DEF HoleAt
<1>6. ASSUME HasHole(ps) PROVE \E r \in 1 .. N : HoleAt(q, r)
  <2>1. PICK i \in DOMAIN ps :
          /\ ps[i].offset > 0
          /\ \A j \in DOMAIN ps : SortsBefore(ps, j, i) => End(ps[j]) < ps[i].offset
    BY <1>6 DEF HasHole
  <2>2. PICK r \in 1 .. N : f[r] = i
    BY <1>4
  <2> QED
    BY <1>5, <2>1, <2>2
<1>7. ASSUME NEW r \in 1 .. N, HoleAt(q, r) PROVE HasHole(ps)
  <2>1. f[r] \in DOMAIN ps
    BY <1>4
  <2> QED
    BY <1>5, <1>7, <2>1 DEF HasHole
<1> QED
  BY <1>2, <1>3, <1>6, <1>7

LEMMA WinnerIsFirst ==
  ASSUME NEW ps \in Seq(Piece), NEW r \in 1 .. Len(ps), NEW d, NEW m \in Nat, m > 0,
         From(SortedPieces(ps), r, d, m)
  PROVE  ByteAt(ps[Winner(ps, m - 1)], m - 1) = d[m]
<1>1. PICK f : f = Order(ps)
  OBVIOUS
<1>2. PICK q : q = SortedPieces(ps)
  OBVIOUS
<1>3. PICK N : N = Len(ps)
  OBVIOUS
<1>4. /\ DOMAIN ps = 1 .. N /\ N \in Nat
      /\ f \in [1 .. N -> 1 .. N]
      /\ \A s \in 1 .. N : q[s] = ps[f[s]]
      /\ \A i \in 1 .. N : \E s \in 1 .. N : f[s] = i
      /\ \A t, s \in 1 .. N : s < t <=> SortsBefore(ps, f[s], f[t])
  <2>1. SortedAs(ps, f, q, N)
    BY <1>1, <1>2, <1>3, SortedIs
  <2> QED
    BY <2>1 DEF SortedAs
<1>5. r \in 1 .. N /\ r \in Nat
  BY <1>3, <1>4
<1>6. PICK i : i = f[r]
  OBVIOUS
<1>7. i \in DOMAIN ps /\ q[r] = ps[i]
  BY <1>4, <1>5, <1>6
<1>8. /\ m <= End(ps[i]) /\ d[m] = ps[i].data[m - ps[i].offset]
      /\ \A s \in 1 .. r - 1 : End(q[s]) < m
  BY <1>2, <1>7 DEF From
<1>9. \A j \in DOMAIN ps : End(ps[j]) \in Nat /\ ps[j].offset \in Nat
  BY PieceTypes
<1> DEFINE Wins(j) == /\ End(ps[j]) > m - 1
                      /\ \A k \in DOMAIN ps : SortsBefore(ps, k, j) => End(ps[k]) <= m - 1
<1>10. Wins(i)
  <2>1. End(ps[i]) > m - 1
    BY <1>7, <1>8, <1>9
  <2>2. ASSUME NEW k \in DOMAIN ps, SortsBefore(ps, k, i) PROVE End(ps[k]) <= m - 1
    <3>1. PICK s \in 1 .. N : f[s] = k
      BY <1>4
    <3>2. s < r
      BY <1>4, <1>5, <1>6, <2>2, <3>1
    <3>3. s \in 1 .. r - 1
      BY <1>4, <1>5, <3>2
    <3>4. End(ps[k]) < m
      BY <1>4, <1>8, <3>1, <3>3
    <3> QED
      BY <1>9, <3>4
  <2> QED
    BY <2>1, <2>2
<1>11. PICK w : w = Winner(ps, m - 1)
  OBVIOUS
<1>12. w \in DOMAIN ps /\ Wins(w)
  <2>1. w = CHOOSE j \in DOMAIN ps : Wins(j)
    BY <1>11 DEF Winner
  <2> HIDE DEF Wins
  <2> QED
    BY <1>7, <1>10, <2>1
<1>13. w = i
  <2>1. ~ SortsBefore(ps, w, i) /\ ~ SortsBefore(ps, i, w)
    BY <1>7, <1>9, <1>10, <1>12
  <2> HIDE DEF Wins
  <2> QED
    BY <1>7, <1>12, <2>1, SortsTotally
<1>14. ByteAt(ps[i], m - 1) = ps[i].data[m - ps[i].offset]
  <2>1. m - 1 + 1 - ps[i].offset = m - ps[i].offset
    BY <1>7, <1>9
  <2> QED
    BY <2>1, Zenon DEF ByteAt
<1> QED
  BY <1>8, <1>11, <1>13, <1>14

(* FallsShort, HasHole and Assemble for one list of pieces.                *)
Matches(ps, x, total) ==
  /\ HasHole(ps) = x.hole
  /\ ~ x.hole =>
       /\ FallsShort(ps, total) = (Len(x.data) < total)
       /\ total <= Len(x.data) => Assemble(ps, total) = SubSeq(x.data, 1, total)

LEMMA LoopMatches ==
  ASSUME NEW ps \in Seq(Piece), NEW total \in Nat
  PROVE  Matches(ps, Loop(ps), total)
<1>1. PICK q : q = SortedPieces(ps)
  OBVIOUS
<1>2. PICK N : N = Len(ps)
  OBVIOUS
<1>3. PICK x : x = Loop(ps)
  OBVIOUS
<1>4. PICK f : f = Order(ps)
  OBVIOUS
<1>5. /\ q \in Seq(Piece) /\ Len(q) = N /\ DOMAIN ps = 1 .. N /\ N \in Nat
      /\ f \in [1 .. N -> 1 .. N]
      /\ \A s \in 1 .. N : q[s] = ps[f[s]]
      /\ \A i \in 1 .. N : \E s \in 1 .. N : f[s] = i
  <2>1. SortedAs(ps, f, q, N)
    BY <1>1, <1>2, <1>4, SortedIs
  <2> QED
    BY <2>1 DEF SortedAs
<1>6. Upto(q, N, x)
  <2>1. PICK g : RunOver(q, N, g) /\ x = g[N]
    BY <1>1, <1>2, <1>3, LoopIsRun
  <2> QED
    BY <1>5, <2>1, RunComputes
<1>7. x.hole \in BOOLEAN /\ x.data \in Seq(FragByte) /\ Len(x.data) \in Nat
  BY <1>6 DEF Upto, Output
<1>8. HasHole(ps) <=> x.hole
  BY <1>1, <1>2, <1>6, HolesAgree DEF Upto
<1>9. HasHole(ps) \in BOOLEAN
  BY DEF HasHole
<1>10. HasHole(ps) = x.hole
  BY <1>7, <1>8, <1>9
<1>11. ASSUME ~ x.hole
       PROVE  /\ FallsShort(ps, total) = (Len(x.data) < total)
              /\ total <= Len(x.data) => Assemble(ps, total) = SubSeq(x.data, 1, total)
  <2>1. PICK d : d = x.data
    OBVIOUS
  <2>2. PICK l \in Nat : l = Len(d)
    BY <1>7, <2>1
  <2>3. /\ \A r \in 1 .. N : End(q[r]) <= l
        /\ l = 0 \/ \E r \in 1 .. N : End(q[r]) = l
        /\ \A m \in 1 .. l : \E r \in 1 .. N : From(q, r, d, m)
    BY <1>6, <1>11, <2>1, <2>2 DEF Upto, Reaches, FirstPast
  <2>4. \A j \in 1 .. N : End(ps[j]) \in Nat
    BY <1>5, PieceTypes
  <2>5. \A j \in 1 .. N : End(ps[j]) <= l
    <3>1. ASSUME NEW j \in 1 .. N PROVE End(ps[j]) <= l
      <4>1. PICK s \in 1 .. N : f[s] = j
        BY <1>5
      <4> QED
        BY <1>5, <2>3, <4>1
    <3> QED
      BY <3>1
  <2>6. l = 0 \/ \E j \in 1 .. N : End(ps[j]) = l
    BY <1>5, <2>3
  <2>7. FallsShort(ps, total) <=> l < total
    <3>1. FallsShort(ps, total) <=> total > 0 /\ \A j \in 1 .. N : End(ps[j]) < total
      BY <1>5 DEF FallsShort
    <3>2. ASSUME total > 0, \A j \in 1 .. N : End(ps[j]) < total PROVE l < total
      BY <2>6, <3>2
    <3>3. ASSUME l < total PROVE total > 0 /\ \A j \in 1 .. N : End(ps[j]) < total
      BY <2>4, <2>5, <3>3
    <3> QED
      BY <3>1, <3>2, <3>3
  <2>8. FallsShort(ps, total) = (Len(d) < total)
    <3>1. (l < total) \in BOOLEAN /\ (total > 0) \in BOOLEAN
      OBVIOUS
    <3>2. FallsShort(ps, total) \in BOOLEAN
      BY <3>1 DEF FallsShort
    <3> QED
      BY <2>2, <2>7, <3>1, <3>2
  <2>9. ASSUME total <= l PROVE Assemble(ps, total) = SubSeq(d, 1, total)
    <3>1. ASSUME NEW n \in 1 .. total PROVE ByteAt(ps[Winner(ps, n - 1)], n - 1) = d[n]
      <4>1. n \in 1 .. l /\ n \in Nat /\ n > 0
        BY <2>9
      <4>2. PICK r \in 1 .. N : From(q, r, d, n)
        BY <2>3, <4>1
      <4> QED
        BY <1>1, <1>2, <4>1, <4>2, WinnerIsFirst
    <3>2. Assemble(ps, total) = [n \in 1 .. total |-> d[n]]
      BY <3>1 DEF Assemble
    <3>3. SubSeq(d, 1, total) = [n \in 1 .. total |-> d[n]]
      BY <2>9, <1>7, <2>1, <2>2
    <3> QED
      BY <3>2, <3>3
  <2> QED
    BY <2>1, <2>2, <2>8, <2>9
<1> QED
  BY <1>3, <1>10, <1>11 DEF Matches

(* What the model says of a datagram's pieces is what the sort and the     *)
(* loop of push compute, for every list of pieces and every length.        *)
THEOREM FragAssemblyMatchesLoop == FragSpec => []AssemblyMatchesLoop
<1>1. FragInv => AssemblyMatchesLoop
  <2>1. SUFFICES ASSUME FragTypeOK,
                        NEW ps \in {sets[k].pieces : k \in FragKeys} \union {result.pieces}
                 PROVE  \A total \in Nat : Matches(ps, Loop(ps), total)
    <3>1. 0 .. MaxFragBytes + 1 \subseteq Nat /\ 0 \in Nat
      BY FragAssumption
    <3> QED
      BY <2>1, <3>1, Zenon DEF AssemblyMatchesLoop, Matches, FragInv
  <2>2. ps \in Seq(Piece)
    BY <2>1 DEF FragTypeOK, FragSet
  <2> QED
    BY <2>2, LoopMatches
<1> QED
  BY <1>1, FragInitInv, FragNextInv, PTL DEF FragSpec
============================================================================
