---------------------------- MODULE StreamTable ----------------------------
(***************************************************************************)
(* TCP stream reassembly: StreamTable of rust/src/reasm.rs.  The engine    *)
(* pushes every TCP segment with a payload in capture order and dissects   *)
(* the prefix that push returns; close is part of the table's interface.   *)
(*                                                                         *)
(* Sequence numbers are integers modulo SeqSpace, 2^32 in the code, so     *)
(* that a stream may start anywhere and wrap.  A stream is absent from the *)
(* table iff its base_seq is None: push sets it before it does anything    *)
(* else to a stream.                                                       *)
(***************************************************************************)
EXTENDS Integers, Sequences, FiniteSets

CONSTANTS
  StreamKeys,      (* StreamKey: one direction of one conversation         *)
  Byte,            (* values of a payload byte                             *)
  SegPayloads,     (* the TCP payloads the capture may carry               *)
  SeqSpace,        (* modulus of TCP sequence numbers                      *)
  MaxStreams,      (* max_streams: streams held at once                    *)
  MaxStreamBytes,  (* max_bytes: bytes kept of one stream                  *)
  MaxPending,      (* out-of-order segments one stream may hold (64)       *)
  MaxSegments      (* bound on the segments of the capture                 *)

(* The comment on wrapping arithmetic in push ("as long as the stream      *)
(* stays under 2 GiB") is the last conjunct.                               *)
ASSUME StreamAssumption ==
  /\ IsFiniteSet(StreamKeys)
  /\ SegPayloads \subseteq Seq(Byte)
  /\ SeqSpace \in Nat \ {0}
  /\ MaxStreams \in Nat
  /\ MaxStreamBytes \in Nat
  /\ MaxPending \in Nat
  /\ MaxSegments \in Nat
  /\ \A p \in SegPayloads : MaxStreamBytes + Len(p) <= SeqSpace

VARIABLES
  streams,          (* StreamTable.streams                                 *)
  streams_evicted,  (* StreamTable.evicted                                 *)
  truncated,        (* StreamTable.truncated                               *)
  rcvd,             (* per stream, the segments pushed since it was opened *)
  segments          (* segments seen so far                                *)

streamVars == <<streams, streams_evicted, truncated, rcvd, segments>>

None == -1

SeqNum == 0..(SeqSpace - 1)

Segment == [seq : SeqNum, data : Seq(Byte)]

Stream == [base_seq : SeqNum \cup {None}, buf : Seq(Byte),
           pending : Seq(Segment), truncated : BOOLEAN]

NoStream == [base_seq |-> None, buf |-> <<>>, pending |-> <<>>, truncated |-> FALSE]

StreamsPresent == {k \in StreamKeys : streams[k].base_seq # None}

----------------------------------------------------------------------------
(* base.wrapping_add(n) and seq.wrapping_sub(base).                        *)
WrapAdd(base, n) == (base + n) % SeqSpace
WrapSub(seq, base) == (seq - base) % SeqSpace

(* The sequence number right after the buffer.                             *)
BufEnd(s) == WrapAdd(s.base_seq, Len(s.buf))

(* A seeded fault: an overlapping segment is appended whole.               *)
ExtendWhole(buf, offset, data) == buf \o data

(* buf with the part of a segment that reaches past its end.               *)
Extend(buf, offset, data) == buf \o SubSeq(data, Len(buf) - offset + 1, Len(data))

Appends(s, seq, data) ==
  LET offset == WrapSub(seq, s.base_seq)
  IN  offset <= Len(s.buf) /\ offset + Len(data) > Len(s.buf)

(* A segment ahead of the gap waits; one that starts past max_bytes is     *)
(* ignored.                                                                *)
Waits(s, seq) ==
  LET offset == WrapSub(seq, s.base_seq)
  IN  offset > Len(s.buf) /\ offset < MaxStreamBytes

(* A seeded fault: the limit on pending segments is one too high.          *)
HoldOneMore(s, seq, data) ==
  LET held == Append(s.pending, [seq |-> seq, data |-> data])
  IN  IF Len(held) > MaxPending + 1
      THEN [s EXCEPT !.pending = <<>>, !.truncated = TRUE]
      ELSE [s EXCEPT !.pending = held]

(* A pending segment too many gives up all of them.                        *)
Hold(s, seq, data) ==
  LET held == Append(s.pending, [seq |-> seq, data |-> data])
  IN  IF Len(held) > MaxPending
      THEN [s EXCEPT !.pending = <<>>, !.truncated = TRUE]
      ELSE [s EXCEPT !.pending = held]

(* Indices of the pending segments that sit flush against the buffer.      *)
Flush(s) == {i \in DOMAIN s.pending : s.pending[i].seq = BufEnd(s)}

DropAt(q, i) == [j \in 1..(Len(q) - 1) |-> IF j < i THEN q[j] ELSE q[j + 1]]

(* One turn of the drain loop: the first flush segment joins the buffer.   *)
DrainOne(s) ==
  IF Flush(s) = {} THEN s
  ELSE LET i == CHOOSE i \in Flush(s) : \A j \in Flush(s) : i <= j
       IN  [s EXCEPT !.buf = @ \o s.pending[i].data, !.pending = DropAt(@, i)]

(* A seeded fault: the drain loop runs once.                               *)
DrainOnce(s) == DrainOne(s)

(* Every turn but the last removes a pending segment, so the loop is over  *)
(* after as many turns as there are pending segments.                      *)
Drain(s) ==
  LET after[n \in 0..Len(s.pending)] == IF n = 0 THEN s ELSE DrainOne(after[n - 1])
  IN  after[Len(s.pending)]

(* A seeded fault: the cap keeps the newest bytes instead of the oldest.   *)
CapTail(s) ==
  IF Len(s.buf) > MaxStreamBytes
  THEN [s EXCEPT !.buf = SubSeq(@, Len(@) - MaxStreamBytes + 1, Len(@)), !.truncated = TRUE]
  ELSE s

(* The byte cap: what lies beyond it is cut off.                           *)
Cap(s) ==
  IF Len(s.buf) > MaxStreamBytes
  THEN [s EXCEPT !.buf = SubSeq(@, 1, MaxStreamBytes), !.truncated = TRUE]
  ELSE s

----------------------------------------------------------------------------
StreamInit ==
  /\ streams = [k \in StreamKeys |-> NoStream]
  /\ streams_evicted = 0
  /\ truncated = 0
  /\ rcvd = [k \in StreamKeys |-> <<>>]
  /\ segments = 0

(* The stream a segment is pushed to: the one held, or a new one whose     *)
(* buffer starts at the segment.                                           *)
Opened(k, seq) ==
  IF k \in StreamsPresent THEN streams[k] ELSE [NoStream EXCEPT !.base_seq = seq]

(* The stream once the segment is placed, before the cap.                  *)
Placed(s, seq, data) ==
  CASE Appends(s, seq, data) ->
         Drain([s EXCEPT !.buf = Extend(@, WrapSub(seq, s.base_seq), data)])
    [] Waits(s, seq) -> Hold(s, seq, data)
    [] OTHER -> s

StreamTableFull(k) == k \notin StreamsPresent /\ Cardinality(StreamsPresent) >= MaxStreams

(* The table is at capacity: the caller dissects the bare segment.         *)
StreamPushRefused(k) ==
  /\ StreamTableFull(k)
  /\ streams_evicted' = streams_evicted + 1
  /\ UNCHANGED <<streams, truncated, rcvd>>

(* A seeded fault: what the cap cuts off is not counted.                   *)
NewlyCutNever(s) == FALSE

(* The cap counts a stream once, and not one already marked.               *)
NewlyCut(s) == Len(s.buf) > MaxStreamBytes /\ ~ s.truncated

PushAccepted(k, seq, data) ==
  /\ ~ StreamTableFull(k)
  /\ LET s == Placed(Opened(k, seq), seq, data)
     IN  /\ streams' = [streams EXCEPT ![k] = Cap(s)]
         /\ truncated' = IF NewlyCut(s) THEN truncated + 1 ELSE truncated
  /\ rcvd' = [rcvd EXCEPT ![k] = Append(@, [seq |-> seq, data |-> data])]
  /\ UNCHANGED streams_evicted

(* A segment without a payload returns before it touches the table.        *)
StreamPush(k, seq, data) ==
  /\ segments < MaxSegments
  /\ data # <<>>
  /\ \/ StreamPushRefused(k)
     \/ PushAccepted(k, seq, data)
  /\ segments' = segments + 1

Close(k) ==
  /\ k \in StreamsPresent
  /\ streams' = [streams EXCEPT ![k] = NoStream]
  /\ rcvd' = [rcvd EXCEPT ![k] = <<>>]
  /\ UNCHANGED <<streams_evicted, truncated, segments>>

StreamNext ==
  \/ \E k \in StreamKeys, seq \in SeqNum, data \in SegPayloads : StreamPush(k, seq, data)
  \/ \E k \in StreamKeys : Close(k)

StreamSpec == StreamInit /\ [][StreamNext]_streamVars

----------------------------------------------------------------------------
(* Every variable has its type.                                            *)
StreamTypeOK ==
  /\ streams \in [StreamKeys -> Stream]
  /\ streams_evicted \in Nat
  /\ truncated \in Nat
  /\ rcvd \in [StreamKeys -> Seq(Segment)]
  /\ segments \in Nat

(* "Every buffer here has a cap" (reasm.rs): the streams held, the bytes   *)
(* of each and its out-of-order segments, after any mix of appends, drains *)
(* of long runs of pending segments, overflows and closes.                 *)
StreamsBounded ==
  /\ Cardinality(StreamsPresent) <= MaxStreams
  /\ \A k \in StreamKeys : /\ Len(streams[k].buf) <= MaxStreamBytes
                     /\ Len(streams[k].pending) <= MaxPending

(* Segment g carried byte b for sequence number q.                         *)
Carries(g, q, b) ==
  \E n \in 1..Len(g.data) : WrapAdd(g.seq, n - 1) = q /\ g.data[n] = b

(* The prefix handed to dissection is genuine: every byte of it, and every *)
(* byte still pending, was carried for that very sequence number by a      *)
(* segment pushed since the stream was opened, on either side of the wrap. *)
BufIsReceived ==
  \A k \in StreamKeys :
    LET s == streams[k]
    IN  /\ \A p \in 1..Len(s.buf) :
             \E i \in DOMAIN rcvd[k] :
               Carries(rcvd[k][i], WrapAdd(s.base_seq, p - 1), s.buf[p])
        /\ \A j \in DOMAIN s.pending : \E i \in DOMAIN rcvd[k] : rcvd[k][i] = s.pending[j]

(* Segment g carried the byte right behind the buffer of stream s.         *)
CarriesNext(s, g) ==
  LET offset == WrapSub(g.seq, s.base_seq)
  IN  offset <= Len(s.buf) /\ offset + Len(g.data) > Len(s.buf)

(* The prefix ends only where it must: if the byte behind it did arrive,   *)
(* and neither the cap nor an overflow of pending segments stood in the    *)
(* way, then it is in a segment that waited ahead of a gap and was partly  *)
(* overtaken when the gap closed.  The drain loop takes only what sits     *)
(* flush against the buffer, so such a segment waits for ever and its tail *)
(* is lost although it was received ("hold it until the missing segment    *)
(* arrives", reasm.rs); nothing else is.                                   *)
GapsAreExplained ==
  \A k \in StreamsPresent :
    LET s == streams[k]
    IN  ~ s.truncated /\ Len(s.buf) < MaxStreamBytes =>
          \A i \in DOMAIN rcvd[k] :
            CarriesNext(s, rcvd[k][i]) =>
              /\ \E j \in DOMAIN s.pending : s.pending[j] = rcvd[k][i]
              /\ WrapSub(rcvd[k][i].seq, s.base_seq) < Len(s.buf)

(* README.md: "Anything dropped at those limits is counted in _meta.json   *)
(* [...], never silently discarded."  What holds of the counter: a stream  *)
(* marked truncated that it does not show has had more segments waiting    *)
(* than it may hold, behind one that opened it; push clears them and       *)
(* counts nothing, then or when the cap cuts the stream later.             *)
UncountedLossIsOverflow ==
  \A k \in StreamKeys : streams[k].truncated /\ truncated = 0 => Len(rcvd[k]) >= MaxPending + 2

(* The prefix only ever grows at its end: no push revises, shortens or     *)
(* moves bytes that dissection has already seen, the cap included.         *)
PrefixIsStable ==
  [][\A k \in StreamKeys :
       k \in StreamsPresent /\ rcvd'[k] # <<>> =>
         /\ streams'[k].base_seq = streams[k].base_seq
         /\ Len(streams[k].buf) <= Len(streams'[k].buf)
         /\ \A p \in 1..Len(streams[k].buf) : streams'[k].buf[p] = streams[k].buf[p]]_streamVars
============================================================================
