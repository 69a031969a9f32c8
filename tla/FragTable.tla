----------------------------- MODULE FragTable -----------------------------
(***************************************************************************)
(* IP fragment reassembly: FragTable of rust/src/reasm.rs, driven by the   *)
(* serial pass of the engine (rust/src/pipeline.rs), one push per fragment *)
(* in capture order, and read once more when the run's statistics are      *)
(* finalized.                                                              *)
(*                                                                         *)
(* What matters to the properties is which copy of a byte survives, never  *)
(* its meaning.  The code stores the pieces back sorted when it finds a    *)
(* hole; the sort is stable, so the order it induces is fixed by the       *)
(* arrival order and the model keeps that one, comparing pieces with       *)
(* SortsBefore where the code iterates.                                    *)
(***************************************************************************)
EXTENDS Integers, Sequences, FiniteSets

CONSTANTS
  FragKeys,      (* FragKey: (src, dst, id, protocol)                      *)
  FragByte,      (* values of a payload byte                               *)
  FragPayloads,  (* the fragment payloads the capture may carry            *)
  Offsets,       (* fragment offsets the capture may carry                 *)
  MaxSets,       (* max_frag_sets: fragment sets held at once              *)
  MaxFragBytes,  (* max_frag_bytes: bytes held for one datagram            *)
  MaxFragments   (* bound on the fragments of the capture                  *)

ASSUME FragAssumption ==
  /\ IsFiniteSet(FragKeys)
  /\ FragPayloads \subseteq Seq(FragByte)
  /\ Offsets \subseteq Nat
  /\ MaxSets \in Nat
  /\ MaxFragBytes \in Nat
  /\ MaxFragments \in Nat

VARIABLES
  sets,       (* FragTable.sets; a key is present iff it has a piece       *)
  dropped,    (* FragTable.dropped                                         *)
  completed,  (* FragTable.completed                                       *)
  result,     (* what the last push returned, with the pieces it used      *)
  consumed,   (* fragments that went into completed datagrams              *)
  fragments,  (* fragments seen so far                                     *)
  reported    (* fragments_dropped of the run's stats, -1 until finalized  *)

fragVars == <<sets, dropped, completed, result, consumed, fragments, reported>>

(* total_len of a set whose last fragment has not been seen.               *)
Unknown == -1

Piece == [offset : Nat, data : Seq(FragByte)]

FragSet == [pieces : Seq(Piece), total_len : Nat \cup {Unknown}, bytes_held : Nat]

(* A FragSet as or_default() makes it, which is also what a key absent     *)
(* from the table maps to: push leaves no set without a piece.             *)
EmptySet == [pieces |-> <<>>, total_len |-> Unknown, bytes_held |-> 0]

SetsPresent == {k \in FragKeys : sets[k].pieces # <<>>}

(* push returned None.                                                     *)
NoResult == [key |-> {}, pieces |-> <<>>, total |-> 0, data |-> <<>>]

End(p) == p.offset + Len(p.data)

----------------------------------------------------------------------------
(* Assembly: sort the pieces by offset (a stable sort) and append each in  *)
(* turn, minus the part already covered.                                   *)

SortsBefore(ps, i, j) ==
  \/ ps[i].offset < ps[j].offset
  \/ ps[i].offset = ps[j].offset /\ i < j

(* A seeded fault: only a hole in front of the first piece is noticed.     *)
HoleOnlyAtStart(ps) == \A i \in DOMAIN ps : ps[i].offset > 0

(* Some piece starts past everything that sorts before it.                 *)
HasHole(ps) ==
  \E i \in DOMAIN ps :
    /\ ps[i].offset > 0
    /\ \A j \in DOMAIN ps : SortsBefore(ps, j, i) => End(ps[j]) < ps[i].offset

(* The assembled bytes stop before the declared end of the datagram.       *)
FallsShort(ps, total) == total > 0 /\ \A i \in DOMAIN ps : End(ps[i]) < total

(* The piece byte number pos is taken from: the first in sorted order that *)
(* reaches past it.                                                        *)
Winner(ps, pos) ==
  CHOOSE i \in DOMAIN ps :
    /\ End(ps[i]) > pos
    /\ \A j \in DOMAIN ps : SortsBefore(ps, j, i) => End(ps[j]) <= pos

ByteAt(p, pos) == p.data[pos + 1 - p.offset]

(* A seeded fault: the head of a piece is skipped by the absolute position *)
(* instead of the position minus the piece's offset.                       *)
AssembleUnskipped(ps, total) ==
  [n \in 1..total |-> LET p == ps[Winner(ps, n - 1)]
                      IN  p.data[IF n <= Len(p.data) THEN n ELSE n - p.offset]]

Assemble(ps, total) == [n \in 1..total |-> ByteAt(ps[Winner(ps, n - 1)], n - 1)]

----------------------------------------------------------------------------
(* The same as the source writes it: the loop over the sorted pieces.      *)

(* Vec::sort_by_key, which is stable.                                      *)
Order(ps) ==
  CHOOSE f \in [DOMAIN ps -> DOMAIN ps] :
    \A r, s \in DOMAIN ps : r < s => SortsBefore(ps, f[r], f[s])

SortedPieces(ps) == LET f == Order(ps) IN [r \in DOMAIN ps |-> ps[f[r]]]

(* One turn: a piece past the end is a hole, one that reaches past it is   *)
(* appended without the part already there.                                *)
AppendPiece(out, p) ==
  IF out.hole \/ p.offset > Len(out.data) THEN [out EXCEPT !.hole = TRUE]
  ELSE IF End(p) > Len(out.data)
       THEN [out EXCEPT !.data = @ \o SubSeq(p.data, Len(@) - p.offset + 1, Len(p.data))]
       ELSE out

Loop(ps) ==
  LET sorted == SortedPieces(ps)
      out[n \in 0..Len(ps)] == IF n = 0 THEN [data |-> <<>>, hole |-> FALSE]
                               ELSE AppendPiece(out[n - 1], sorted[n])
  IN  out[Len(ps)]

----------------------------------------------------------------------------
FragInit ==
  /\ sets = [k \in FragKeys |-> EmptySet]
  /\ dropped = 0
  /\ completed = 0
  /\ result = NoResult
  /\ consumed = 0
  /\ fragments = 0
  /\ reported = -1

FragTableFull(k) == k \notin SetsPresent /\ Cardinality(SetsPresent) >= MaxSets

(* A seeded fault: the budget looks at the fragment, not at the datagram.  *)
OverBudgetAlone(k, data) == Len(data) > MaxFragBytes

OverBudget(k, data) == sets[k].bytes_held + Len(data) > MaxFragBytes

(* The set with the fragment recorded; the last fragment (MF clear) tells  *)
(* the total length, whatever an earlier one said.                         *)
Added(k, offset, mf, data) ==
  [pieces     |-> Append(sets[k].pieces, [offset |-> offset, data |-> data]),
   total_len  |-> IF mf THEN sets[k].total_len ELSE offset + Len(data),
   bytes_held |-> sets[k].bytes_held + Len(data)]

Completes(s) ==
  /\ s.total_len # Unknown
  /\ ~ HasHole(s.pieces)
  /\ ~ FallsShort(s.pieces, s.total_len)

(* The table is at capacity and the fragment would open a set.             *)
FragPushRefused(k) ==
  /\ FragTableFull(k)
  /\ dropped' = dropped + 1
  /\ result' = NoResult
  /\ UNCHANGED <<sets, completed, consumed>>

(* A seeded fault: a datagram is abandoned without being counted.          *)
AbandonSilently(k, data) ==
  /\ ~ FragTableFull(k)
  /\ OverBudget(k, data)
  /\ sets' = [sets EXCEPT ![k] = EmptySet]
  /\ result' = NoResult
  /\ UNCHANGED <<dropped, completed, consumed>>

(* Over budget for this datagram: the whole set is abandoned.              *)
PushAbandons(k, data) ==
  /\ ~ FragTableFull(k)
  /\ OverBudget(k, data)
  /\ sets' = [sets EXCEPT ![k] = EmptySet]
  /\ dropped' = dropped + 1
  /\ result' = NoResult
  /\ UNCHANGED <<completed, consumed>>

(* No total length yet, or a hole, or too short: the pieces wait.          *)
PushHolds(k, offset, mf, data) ==
  /\ ~ FragTableFull(k)
  /\ ~ OverBudget(k, data)
  /\ ~ Completes(Added(k, offset, mf, data))
  /\ sets' = [sets EXCEPT ![k] = Added(k, offset, mf, data)]
  /\ result' = NoResult
  /\ UNCHANGED <<dropped, completed, consumed>>

(* The pieces cover the datagram: it leaves the table and is returned.     *)
PushCompletes(k, offset, mf, data) ==
  /\ ~ FragTableFull(k)
  /\ ~ OverBudget(k, data)
  /\ LET s == Added(k, offset, mf, data)
     IN  /\ Completes(s)
         /\ result' = [key |-> {k}, pieces |-> s.pieces, total |-> s.total_len,
                       data |-> Assemble(s.pieces, s.total_len)]
         /\ consumed' = consumed + Len(s.pieces)
  /\ sets' = [sets EXCEPT ![k] = EmptySet]
  /\ completed' = completed + 1
  /\ UNCHANGED dropped

(* after_ip hands a packet over as a fragment only if MF is set or the     *)
(* offset is not zero.                                                     *)
IsFragment(offset, mf) == mf \/ offset # 0

FragPush(k, offset, mf, data) ==
  /\ reported = -1
  /\ fragments < MaxFragments
  /\ IsFragment(offset, mf)
  /\ \/ FragPushRefused(k)
     \/ PushAbandons(k, data)
     \/ PushHolds(k, offset, mf, data)
     \/ PushCompletes(k, offset, mf, data)
  /\ fragments' = fragments + 1
  /\ UNCHANGED reported

(* finalize_stats: the capture is over and the counters are copied out.    *)
FragFinalize ==
  /\ reported = -1
  /\ reported' = dropped
  /\ result' = NoResult
  /\ UNCHANGED <<sets, dropped, completed, consumed, fragments>>

FragNext ==
  \/ \E k \in FragKeys, offset \in Offsets, mf \in BOOLEAN, data \in FragPayloads :
       FragPush(k, offset, mf, data)
  \/ FragFinalize

FragSpec == FragInit /\ [][FragNext]_fragVars

----------------------------------------------------------------------------
(* Every variable has its type, and a set's counters and pieces theirs.    *)
FragTypeOK ==
  /\ sets \in [FragKeys -> FragSet]
  /\ dropped \in Nat
  /\ completed \in Nat
  /\ result \in [key : SUBSET FragKeys, pieces : Seq(Piece), total : Nat, data : Seq(FragByte)]
  /\ consumed \in Nat
  /\ fragments \in Nat
  /\ reported \in Nat \cup {-1}

(* "Both are strictly bounded" (reasm.rs): never more than max_sets sets,  *)
(* and never more than max_bytes bytes held for one datagram, whatever the *)
(* order in which fragments open, fill, abandon and complete sets.         *)
SetsBounded ==
  /\ Cardinality(SetsPresent) <= MaxSets
  /\ \A k \in FragKeys : sets[k].bytes_held <= MaxFragBytes

(* What push returns is never half a datagram: its length is the one the   *)
(* last fragment declared, and every byte of it is a byte that some        *)
(* fragment of the set carried for that very position.                     *)
NeverHalfParsed ==
  result # NoResult =>
    /\ Len(result.data) = result.total
    /\ \E i \in DOMAIN result.pieces : End(result.pieces[i]) = result.total
    /\ \A n \in 1..result.total :
         \E i \in DOMAIN result.pieces :
           /\ result.pieces[i].offset < n
           /\ n <= End(result.pieces[i])
           /\ result.data[n] = ByteAt(result.pieces[i], n - 1)

(* HasHole, FallsShort and Assemble say what the source's loop computes,   *)
(* for every list of pieces that waits or was put together and every       *)
(* declared length (FragTable::push).                                      *)
AssemblyMatchesLoop ==
  \A ps \in {sets[k].pieces : k \in FragKeys} \union {result.pieces} :
    LET out == Loop(ps)
    IN  /\ HasHole(ps) = out.hole
        /\ ~ out.hole =>
             \A total \in 0..MaxFragBytes + 1 :
               /\ FallsShort(ps, total) = (Len(out.data) < total)
               /\ total <= Len(out.data) => Assemble(ps, total) = SubSeq(out.data, 1, total)

(* The pieces that wait, each by its set and its place in it.              *)
HeldPieces == UNION {{k} \X DOMAIN sets[k].pieces : k \in FragKeys}

(* While the capture is read, a fragment that is neither buffered nor part *)
(* of a completed datagram shows in the dropped counter: it moves iff a    *)
(* fragment is lost, never by more than the fragments lost, and the loss   *)
(* is in what finalize_stats reports ("anything dropped is counted rather  *)
(* than silently discarded", reasm.rs:6).                                  *)
LossIsCounted ==
  LET lost == fragments - consumed - Cardinality(HeldPieces)
  IN  /\ lost >= dropped
      /\ lost > 0 => dropped > 0
      /\ lost > 0 /\ reported # -1 => reported > 0
============================================================================
