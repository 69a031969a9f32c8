----------------------------- MODULE RecordWalk -----------------------------
(***************************************************************************)
(* The loops that walk length-delimited records: TCP options and SCTP      *)
(* chunks (dissect/l4.rs), IPv6 and GTP extension headers, TLS records     *)
(* down to the certificates in them, BER, HTTP/2 frames, DNS records with  *)
(* compressed names, and the attribute lists of DHCP, RADIUS, EtherNet/IP  *)
(* and SSH (dissect/app/).  All read through the cursor of bytes.rs: check *)
(* that a header fits, take a body as long as the header says, walk inside *)
(* it if the protocol nests, go on behind it.                              *)
(*                                                                         *)
(* The bytes are the environment: a buffer is its length, and every length *)
(* field a dissector reads is a choice.  A walk is the record of what the  *)
(* source does with that field; the stack of frames is the stack of loops  *)
(* that are running, each over its own slice of the payload.               *)
(***************************************************************************)
EXTENDS Integers, Sequences, FiniteSets

CONSTANTS
  Payloads,   (* the payloads to walk: <<the walk it starts with, length>> *)
  Lens,       (* values of a length field                                  *)
  MaxNest,    (* BER readers open at once: the two of parse_certificate    *)
              (* and the depth budget of the search in them (10 in all)    *)
  NameGuard,  (* turns of the loop of read_name (128)                      *)
  MaxJumps    (* compression pointers one name may follow (16)             *)

NoMax == 1000000

(* hdr: bytes of the header, which extra more may follow, and spare: bytes *)
(* that must be left behind it.  The body is unit * length - less bytes    *)
(* for one of the units, padded to a multiple of pad; a length below min   *)
(* ends the walk.  clamp: a body that runs past the slice is cut there     *)
(* instead of ending the walk.  max: records at most.  ones: some records  *)
(* are a single byte.  stops: a record, or a count sent ahead, may end the *)
(* walk.  named: a name precedes each header.  lead: bytes before the      *)
(* first record, at a distance if late, with the length of the list if     *)
(* cut.  inner: walks run over the body, of the first record only if once. *)
(* then: the walk that goes on where this one ends.                        *)
Plain ==
  [hdr |-> 0, extra |-> {0}, spare |-> 0, units |-> {1}, less |-> 0, pad |-> 1, min |-> 0,
   clamp |-> FALSE, max |-> NoMax, ones |-> FALSE, stops |-> FALSE, named |-> FALSE,
   lead |-> 0, late |-> FALSE, cut |-> FALSE, inner |-> {}, once |-> FALSE, then |-> {}]

(* Kind 1 is padding, kind 0 the end; the length covers the header.        *)
TcpOptions ==
  [Plain EXCEPT !.hdr = 2, !.less = 2, !.min = 2, !.ones = TRUE, !.stops = TRUE]

SctpChunks == [Plain EXCEPT !.hdr = 4, !.less = 4, !.min = 4, !.pad = 4, !.max = 64]

(* Lengths in units of 8 bytes not counting the first; in units of 4 not   *)
(* counting two in an authentication header; none in a fragment header.    *)
Ip6Extensions ==
  [Plain EXCEPT !.hdr = 2, !.units = {8, 4, 0}, !.less = -6, !.max = 16, !.stops = TRUE]

(* Lengths in units of 4 bytes; a next type of 0 ends the chain.           *)
GtpExtensions ==
  [Plain EXCEPT !.hdr = 2, !.units = {4}, !.less = 2, !.min = 1, !.max = 8, !.stops = TRUE]

(* An unknown content type, or a handshake that fails, ends the walk.      *)
TlsRecords ==
  [Plain EXCEPT !.hdr = 5, !.clamp = TRUE, !.max = 8, !.stops = TRUE,
                !.inner = {"tls_handshakes"}]

DtlsRecords ==
  [Plain EXCEPT !.hdr = 13, !.clamp = TRUE, !.max = 8, !.stops = TRUE,
                !.inner = {"dtls_handshakes"}]

TlsHandshakes ==
  [Plain EXCEPT !.hdr = 4, !.clamp = TRUE, !.max = 8, !.stops = TRUE,
                !.inner = {"tls_extensions", "certificates"}]

(* Sequence number, fragment offset and fragment length are skipped: the   *)
(* length of the whole message is taken for that of the fragment.          *)
DtlsHandshakes == [TlsHandshakes EXCEPT !.hdr = 12]

(* Behind the fixed part of a hello, with a length of the whole list.      *)
TlsExtensions ==
  [Plain EXCEPT !.hdr = 4, !.lead = 2, !.late = TRUE, !.cut = TRUE,
                !.inner = {"server_names", "alpn"}]

(* The length of the list is read and ignored; a host name ends the walk.  *)
ServerNames == [Plain EXCEPT !.hdr = 3, !.lead = 2, !.stops = TRUE]

Alpn == [Plain EXCEPT !.hdr = 1, !.lead = 2]

(* Only the leaf is looked into (the code keeps its slice and does so once *)
(* the list is read).                                                      *)
Certificates ==
  [Plain EXCEPT !.hdr = 3, !.spare = 1, !.max = 16, !.lead = 3, !.cut = TRUE,
                !.inner = {"ber"}, !.once = TRUE]

(* read_in: up to four more bytes each for the tag and for the length.     *)
(* find_after_oid and collect: a search of every constructed value.        *)
Ber == [Plain EXCEPT !.hdr = 2, !.extra = 0..8, !.stops = TRUE, !.inner = {"ber"}]

Http2Frames == [Plain EXCEPT !.hdr = 9, !.clamp = TRUE, !.max = 16, !.inner = {"hpack"}]

(* An index byte, or one with a value behind it, or a name as well.        *)
Hpack ==
  [Plain EXCEPT !.hdr = 2, !.extra = {0} \union {1 + l : l \in Lens}, !.max = 64,
                !.ones = TRUE, !.stops = TRUE]

(* As many as the message header says, and at most 8.                      *)
DnsQuestions ==
  [Plain EXCEPT !.hdr = 4, !.units = {0}, !.max = 8, !.stops = TRUE, !.named = TRUE,
                !.lead = 12, !.then = {"dns_records"}]

DnsRecords ==
  [Plain EXCEPT !.hdr = 10, !.max = 64, !.stops = TRUE, !.named = TRUE, !.inner = {"dns_txt"}]

DnsTxt == [Plain EXCEPT !.hdr = 1]

(* Code 0 is padding and counts, code 255 the end.                         *)
DhcpOptions == [Plain EXCEPT !.hdr = 2, !.max = 128, !.ones = TRUE, !.stops = TRUE]

RadiusAttributes == [Plain EXCEPT !.hdr = 2, !.less = 2, !.min = 2, !.max = 128]

EnipItems == [Plain EXCEPT !.hdr = 4, !.clamp = TRUE, !.max = 4, !.stops = TRUE]

SshNameLists == [Plain EXCEPT !.hdr = 4, !.max = 10]

Walk(w) ==
  CASE w = "tcp_options" -> TcpOptions [] w = "sctp_chunks" -> SctpChunks
    [] w = "ip6_extensions" -> Ip6Extensions [] w = "gtp_extensions" -> GtpExtensions
    [] w = "tls_records" -> TlsRecords [] w = "dtls_records" -> DtlsRecords
    [] w = "tls_handshakes" -> TlsHandshakes [] w = "dtls_handshakes" -> DtlsHandshakes
    [] w = "tls_extensions" -> TlsExtensions
    [] w = "server_names" -> ServerNames [] w = "alpn" -> Alpn
    [] w = "certificates" -> Certificates [] w = "ber" -> Ber
    [] w = "http2_frames" -> Http2Frames [] w = "hpack" -> Hpack
    [] w = "dns_questions" -> DnsQuestions [] w = "dns_records" -> DnsRecords
    [] w = "dns_txt" -> DnsTxt
    [] w = "dhcp_options" -> DhcpOptions [] w = "radius_attributes" -> RadiusAttributes
    [] w = "enip_items" -> EnipItems [] w = "ssh_name_lists" -> SshNameLists

Walks ==
  {"tcp_options", "sctp_chunks", "ip6_extensions", "gtp_extensions", "tls_records",
   "dtls_records", "tls_handshakes", "dtls_handshakes", "tls_extensions", "server_names", "alpn",
   "certificates", "ber", "http2_frames", "hpack", "dns_questions", "dns_records", "dns_txt",
   "dhcp_options", "radius_attributes", "enip_items", "ssh_name_lists"}

ASSUME WalkAssumption ==
  /\ Payloads \subseteq Walks \X Nat
  /\ \A p \in Payloads : Walk(p[1]).lead <= p[2]
  /\ Lens \subseteq Nat
  /\ MaxNest \in Nat
  /\ NameGuard \in Nat
  /\ MaxJumps \in Nat

VARIABLES
  size,    (* length of the payload                                        *)
  frames,  (* the loops that are running, the innermost last               *)
  name     (* the name being read, or last read, by read_name              *)

vars == <<size, frames, name>>

(* A loop over the slice lo..hi-1: its cursor, the records read so far,    *)
(* and of the last one where it starts, its extra header bytes, its length *)
(* field (-1 for a single byte) and unit, and where its body starts.       *)
(* ready: the name in front of the next header has been read.              *)
Frame ==
  [walk : Walks, lo : Nat, hi : Nat, pos : Nat, n : Nat, at : Nat, extra : Nat,
   len : Int, unit : Nat, data : Nat, ready : BOOLEAN]

NewFrame(w, lo, pos, hi) ==
  [walk |-> w, lo |-> lo, hi |-> hi, pos |-> pos, n |-> 0, at |-> pos, extra |-> 0,
   len |-> -1, unit |-> 1, data |-> pos, ready |-> FALSE]

(* on: read_name is running, in the data of a record if rdata.  here:      *)
(* bytes of the name passed before the first pointer, those of the pointer *)
(* included.                                                               *)
Name ==
  [on : BOOLEAN, rdata : BOOLEAN, start : Nat, pos : Nat, turns : Nat, jumps : Nat,
   end : Int, here : Nat]

NoName ==
  [on |-> FALSE, rdata |-> FALSE, start |-> 0, pos |-> 0, turns |-> 0, jumps |-> 0,
   end |-> -1, here |-> 0]

(* Only a DNS message has something in front of its first record: its      *)
(* header, without which its dissector does not come here.                 *)
Init ==
  /\ \E p \in Payloads :
       /\ size = p[2]
       /\ frames = <<NewFrame(p[1], 0, Walk(p[1]).lead, size)>>
  /\ name = NoName

Top == frames[Len(frames)]

WithTop(f) == [frames EXCEPT ![Len(frames)] = f]

Outer == SubSeq(frames, 1, Len(frames) - 1)

----------------------------------------------------------------------------
(* A seeded fault: the body is taken whole even if it runs past the slice. *)
FitsHeader(f, h, b) == h <= f.hi - f.pos

(* Cur::need, for a header of h bytes and a body of b.                     *)
Fits(f, h, b) == h + b <= f.hi - f.pos

LongEnough(w, len) == len >= w.min

Body(w, u, len) ==
  LET b == u * len - w.less
  IN  IF w.pad = 4 THEN 4 * ((b + 3) \div 4) ELSE b

(* The walk c over the body b..e-1 starts behind what leads its list, and  *)
(* ends with the list or with the body.                                    *)
Inner(c, b, e) ==
  LET k == Walk(c)
  IN  {NewFrame(c, b, p, h) :
         p \in IF k.late THEN (b + k.lead)..e ELSE {b + k.lead} \intersect (b..e),
         h \in IF k.cut THEN (b + k.lead)..e ELSE {e}}

BerReaders == Cardinality({i \in 1..Len(frames) : frames[i].walk = "ber"})

(* The names in the data of a record are read where they stand, over the   *)
(* whole message.                                                          *)
NamesInData(f, b, e) ==
  IF f.walk = "dns_records"
  THEN {[NoName EXCEPT !.on = TRUE, !.rdata = TRUE, !.start = b + k, !.pos = b + k] :
          k \in {0} \union {k \in {2, 6} : b + k < e}}
  ELSE {}

(* One record with a header is read, and what is inside it next, if        *)
(* anything.                                                               *)
Read(len, u, x) ==
  LET f == Top
      w == Walk(f.walk)
      h == w.hdr + x
      b == Body(w, u, len)
      e == IF Fits(f, h, b) THEN f.pos + h + b ELSE f.hi
      g == [f EXCEPT !.pos = e, !.n = @ + 1, !.at = f.pos, !.extra = x, !.len = len,
                     !.unit = u, !.data = f.pos + h, !.ready = FALSE]
  IN  /\ w.named => f.ready
      /\ f.n < w.max
      /\ LongEnough(w, len)
      /\ Fits(f, h + w.spare, 0)
      /\ Fits(f, h, b) \/ w.clamp
      /\ \/ frames' = WithTop(g) /\ name' = NoName
         \/ /\ w.once => f.n = 0
            /\ \E c \in w.inner : \E i \in Inner(c, f.pos + h, e) :
                 /\ i.pos <= i.hi
                 /\ c = "ber" => BerReaders < MaxNest
                 /\ frames' = Append(WithTop(g), i)
            /\ name' = NoName
         \/ /\ frames' = WithTop(g)
            /\ name' \in NamesInData(f, f.pos + h, e)

(* A record of one byte.                                                   *)
ReadOne ==
  LET f == Top
      w == Walk(f.walk)
  IN  /\ w.ones
      /\ f.n < w.max
      /\ Fits(f, 1, 0)
      /\ frames' = WithTop([f EXCEPT !.pos = @ + 1, !.n = @ + 1, !.at = f.pos, !.len = -1,
                                     !.data = f.pos + 1])
      /\ name' = NoName

(* The loop is over: no header or no body fits, a length makes no sense,   *)
(* the limit is reached, or a record or a count says so.                   *)
Stops(f) ==
  LET w == Walk(f.walk)
  IN  \/ w.stops
      \/ f.n >= w.max
      \/ ~ Fits(f, w.hdr + w.spare, 0)
      \/ \E len \in Lens, u \in w.units :
           ~ LongEnough(w, len) \/ (~ w.clamp /\ ~ Fits(f, w.hdr, Body(w, u, len)))

Stop ==
  /\ Stops(Top)
  /\ frames' = Outer
  /\ name' = NoName

(* The next list of the same message.                                      *)
GoOn ==
  /\ ~ Top.ready
  /\ \E c \in Walk(Top.walk).then : frames' = WithTop(NewFrame(c, Top.lo, Top.pos, Top.hi))
  /\ name' = NoName

Loop ==
  /\ frames # <<>>
  /\ ~ name.on
  /\ \/ LET w == Walk(Top.walk)
        IN  \E len \in Lens, u \in w.units, x \in w.extra : Read(len, u, x)
     \/ ReadOne
     \/ Stop
     \/ GoOn
  /\ UNCHANGED size

----------------------------------------------------------------------------
(* read_name.                                                              *)

NameStarts ==
  /\ frames # <<>>
  /\ Walk(Top.walk).named
  /\ ~ name.on /\ ~ Top.ready
  /\ Top.n < Walk(Top.walk).max
  /\ name' = [NoName EXCEPT !.on = TRUE, !.start = Top.pos, !.pos = Top.pos]
  /\ UNCHANGED <<size, frames>>

(* Bytes of the name where it stands, once k more have been passed.        *)
Here(k) == IF name.end = -1 THEN name.here + k ELSE name.here

NameLabel(len) ==
  /\ name.on
  /\ name.turns < NameGuard
  /\ len > 0
  /\ name.pos + 1 + len <= size
  /\ name' = [name EXCEPT !.pos = @ + 1 + len, !.turns = @ + 1, !.here = Here(1 + len)]
  /\ UNCHANGED <<size, frames>>

(* A seeded fault: every pointer moves the end of the name.                *)
EndOfLastPointer == name.pos + 2

EndPos == IF name.end = -1 THEN name.pos + 2 ELSE name.end

(* A seeded fault: only labels count as turns, and pointers not at all.    *)
NameJumpUncounted(target) ==
  /\ name.on
  /\ name.pos + 1 < size
  /\ target < size
  /\ name' = [name EXCEPT !.pos = target, !.end = EndPos, !.here = Here(2)]
  /\ UNCHANGED <<size, frames>>

NameJump(target) ==
  /\ name.on
  /\ name.turns < NameGuard
  /\ name.pos + 1 < size
  /\ name.jumps < MaxJumps
  /\ target < size
  /\ name' = [name EXCEPT !.pos = target, !.turns = @ + 1, !.jumps = @ + 1,
                          !.end = EndPos, !.here = Here(2)]
  /\ UNCHANGED <<size, frames>>

(* The root label: the record goes on behind the name, and nowhere else    *)
(* than before if the name is in its data.                                 *)
NameEnds ==
  /\ name.on
  /\ name.turns < NameGuard
  /\ name.pos < size
  /\ LET end == IF name.end = -1 THEN name.pos + 1 ELSE name.end
     IN  frames' = IF name.rdata THEN frames
                   ELSE WithTop([Top EXCEPT !.pos = end, !.ready = TRUE])
  /\ name' = IF name.rdata THEN NoName ELSE [name EXCEPT !.on = FALSE, !.here = Here(1)]
  /\ UNCHANGED size

(* Cut short, malformed, or too many turns or jumps: no more records,      *)
(* unless the name is in the data of one.                                  *)
NameFails ==
  /\ name.on
  /\ name' = NoName
  /\ frames' = IF name.rdata THEN frames ELSE Outer
  /\ UNCHANGED size

Next ==
  \/ Loop
  \/ NameStarts
  \/ \E len \in Lens : NameLabel(len)
  \/ \E target \in 0..size : NameJump(target)
  \/ NameEnds
  \/ NameFails

(* One thread runs the loops, and runs on.                                 *)
Spec == Init /\ [][Next]_vars /\ WF_vars(Next)

----------------------------------------------------------------------------
(* The frames and the name are well formed (every loop of dissect/).       *)
TypeOK ==
  /\ size \in Nat
  /\ frames \in Seq(Frame)
  /\ name \in Name

(* Every cursor stays in its slice and every slice in the record it was    *)
(* taken from, which the loop outside has already passed: whatever the     *)
(* lengths say, no byte outside the payload is read and none twice by the  *)
(* same loop (parse_tcp_options: "every read is checked and any            *)
(* inconsistency ends the walk"; Cur::sub: "it cannot read into the next   *)
(* record").                                                               *)
Confined ==
  /\ \A i \in 1..Len(frames) :
       LET f == frames[i]
       IN  /\ f.lo <= f.pos /\ f.pos <= f.hi /\ f.hi <= size
           /\ i < Len(frames) => f.data <= frames[i + 1].lo /\ frames[i + 1].hi <= f.pos
  /\ name.on => name.pos <= size

(* Bytes of a record as its protocol defines it (a DTLS message that is    *)
(* not fragmented).                                                        *)
RecordSize(f) ==
  CASE f.walk \in {"tcp_options", "radius_attributes"} -> f.len
    [] f.walk = "sctp_chunks" -> f.len + ((4 - (f.len % 4)) % 4)
    [] f.walk = "gtp_extensions" -> 4 * f.len
    [] f.walk = "ip6_extensions" ->
         IF f.unit = 8 THEN 8 * (f.len + 1) ELSE IF f.unit = 4 THEN 4 * (f.len + 2) ELSE 8
    [] f.walk = "dns_questions" -> 4
    [] OTHER -> Walk(f.walk).hdr + f.extra + f.len

(* No walk loses step with the records: the cursor stands exactly where    *)
(* the protocol says the next one starts, or at the end of the slice when  *)
(* the last one was cut there; and behind a name it stands just past the   *)
(* name as it is written there, wherever pointers led ("the offset just    *)
(* past the name in the original record", dns.rs).                         *)
InStep ==
  \A i \in 1..Len(frames) :
    LET f == frames[i]
    IN  IF f.ready THEN f.pos = name.start + name.here
        ELSE f.n = 0 \/ f.pos = f.at + (IF f.len = -1 THEN 1 ELSE RecordSize(f))
             \/ (f.pos = f.hi /\ Walk(f.walk).clamp /\ f.at + RecordSize(f) > f.hi)

(* Every walk ends, compressed names that point in a circle included.      *)
Ends == <>(frames = <<>>)
=============================================================================
