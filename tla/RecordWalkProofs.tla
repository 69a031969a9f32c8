-------------------------- MODULE RecordWalkProofs --------------------------
(***************************************************************************)
(* Whatever the payload holds and however long it is, the loops over       *)
(* length-delimited records stay in their slices and in step with the      *)
(* records.                                                                *)
(***************************************************************************)
EXTENDS RecordWalk, SequenceTheorems, TLAPS

(* The walks that read names; they run over the whole message.             *)
DnsLists == {"dns_questions", "dns_records"}

(* A cursor in its slice, and the slice in the message.                    *)
InSlice(f, sz) ==
  /\ f \in Frame
  /\ f.lo <= f.pos /\ f.pos <= f.hi /\ f.hi <= sz
  /\ f.walk \in DnsLists => f.lo = 0 /\ f.hi = sz

(* The slice of g is taken from the record f has just passed.              *)
Within(f, g) == f.data <= g.lo /\ g.hi <= f.pos

(* f stands at the start of a record, or at the end of its slice.          *)
AtRecord(f) ==
  /\ ~ f.ready
  /\ \/ f.n = 0
     \/ f.pos = f.at + (IF f.len = -1 THEN 1 ELSE RecordSize(f))
     \/ f.pos = f.hi /\ Walk(f.walk).clamp /\ f.at + RecordSize(f) > f.hi

(* f stands behind the name of its next record.                            *)
BehindName(f, nm) ==
  /\ f.ready /\ f.walk \in DnsLists
  /\ ~ nm.on /\ f.pos = nm.start + nm.here

(* The loops that are running.  Only the innermost can have read a name it *)
(* has not used yet.                                                       *)
Stack(fs, sz) ==
  /\ fs \in Seq(Frame)
  /\ \A i \in 1 .. Len(fs) : InSlice(fs[i], sz)
  /\ \A i \in 1 .. (Len(fs) - 1) : Within(fs[i], fs[i + 1]) /\ AtRecord(fs[i])

(* A name in front of a header is read for the innermost loop, and the     *)
(* bytes passed so far add up.                                             *)
NameAt(nm, sz) ==
  /\ nm \in Name
  /\ nm.on => nm.pos <= sz
  /\ nm.on /\ nm.end = -1 => nm.pos = nm.start + nm.here
  /\ nm.on /\ nm.end # -1 => nm.end \in Nat /\ nm.end = nm.start + nm.here /\ nm.end <= sz

IInv ==
  /\ size \in Nat
  /\ Stack(frames, size)
  /\ frames # <<>> => AtRecord(Top) \/ BehindName(Top, name)
  /\ NameAt(name, size)
  /\ name.on /\ ~ name.rdata => frames # <<>> /\ Top.walk \in DnsLists /\ AtRecord(Top)

----------------------------------------------------------------------------
(* What the proofs need to know of a walk.                                 *)

(* RecordSize, of the parts of the frame it looks at.                      *)
SizeOf(w, k, x, len, u) ==
  CASE w \in {"tcp_options", "radius_attributes"} -> len
    [] w = "sctp_chunks" -> len + ((4 - (len % 4)) % 4)
    [] w = "gtp_extensions" -> 4 * len
    [] w = "ip6_extensions" ->
         IF u = 8 THEN 8 * (len + 1) ELSE IF u = 4 THEN 4 * (len + 2) ELSE 8
    [] w = "dns_questions" -> 4
    [] OTHER -> k.hdr + x + len

LEMMA RecordSizeIs ==
  ASSUME NEW f
  PROVE  RecordSize(f) = SizeOf(f.walk, Walk(f.walk), f.extra, f.len, f.unit)
BY DEF RecordSize, SizeOf

Typed(k) ==
  /\ k.hdr \in Nat /\ k.spare \in Nat /\ k.lead \in Nat
  /\ \A x \in k.extra : x \in Nat
  /\ \A u \in k.units : u \in Nat

(* Names are read by the walks over DNS lists only, and those are nested   *)
(* in none.                                                                *)
Names(w, k) ==
  /\ \A c \in k.inner : c \in Walks \ DnsLists
  /\ \A c \in k.then : c = "dns_records" /\ w \in DnsLists
  /\ k.named => w \in DnsLists
  /\ k.ones => w \notin DnsLists

(* A header and a body of any length the walk takes make a record.         *)
Sized(w, k) ==
  \A u \in k.units, x \in k.extra, len \in Nat : LongEnough(k, len) =>
    Body(k, u, len) \in Nat /\ k.hdr + x + Body(k, u, len) = SizeOf(w, k, x, len, u)

Sound(w, k) == Typed(k) /\ Names(w, k) /\ Sized(w, k)

LEMMA TcpOptionsSound == Walk("tcp_options") = TcpOptions /\ Sound("tcp_options", TcpOptions)
<1>1. Walk("tcp_options") = TcpOptions
  BY DEF Walk
<1>2. Typed(TcpOptions)
  BY WalkAssumption DEF Typed, Plain, TcpOptions
<1>3. Names("tcp_options", TcpOptions)
  BY DEF Names, Walks, DnsLists, Plain, TcpOptions
<1>4. Sized("tcp_options", TcpOptions)
  BY WalkAssumption DEF Sized, SizeOf, Body, LongEnough, Plain, TcpOptions
<1> QED
  BY <1>1, <1>2, <1>3, <1>4 DEF Sound

LEMMA SctpChunksSound == Walk("sctp_chunks") = SctpChunks /\ Sound("sctp_chunks", SctpChunks)
<1>1. Walk("sctp_chunks") = SctpChunks
  BY DEF Walk
<1>2. Typed(SctpChunks)
  BY WalkAssumption DEF Typed, Plain, SctpChunks
<1>3. Names("sctp_chunks", SctpChunks)
  BY DEF Names, Walks, DnsLists, Plain, SctpChunks
<1>4. Sized("sctp_chunks", SctpChunks)
  <2>1. SUFFICES ASSUME NEW u \in SctpChunks.units, NEW x \in SctpChunks.extra, NEW len \in Nat,
                        LongEnough(SctpChunks, len)
                 PROVE  /\ Body(SctpChunks, u, len) \in Nat
                        /\ SctpChunks.hdr + x + Body(SctpChunks, u, len)
                             = SizeOf("sctp_chunks", SctpChunks, x, len, u)
    BY DEF Sized
  <2>2. u = 1 /\ x = 0 /\ len >= 4 /\ SctpChunks.hdr = 4 /\ SctpChunks.less = 4 /\ SctpChunks.pad = 4
    BY <2>1 DEF LongEnough, SctpChunks, Plain
  <2>3. 1 * len - 4 + 3 = len - 1
    OBVIOUS
  <2>4. Body(SctpChunks, u, len) = 4 * ((len - 1) \div 4)
    BY <2>2, <2>3 DEF Body
  <2>5. SizeOf("sctp_chunks", SctpChunks, x, len, u) = len + ((4 - (len % 4)) % 4)
    BY DEF SizeOf
  <2>6. 4 * ((len - 1) \div 4) \in Nat /\ 4 + 0 + 4 * ((len - 1) \div 4) = len + ((4 - (len % 4)) % 4)
    BY <2>2
  <2> QED
    BY <2>2, <2>4, <2>5, <2>6
<1> QED
  BY <1>1, <1>2, <1>3, <1>4 DEF Sound

LEMMA Ip6ExtensionsSound == Walk("ip6_extensions") = Ip6Extensions /\ Sound("ip6_extensions", Ip6Extensions)
<1>1. Walk("ip6_extensions") = Ip6Extensions
  BY DEF Walk
<1>2. Typed(Ip6Extensions)
  BY WalkAssumption DEF Typed, Plain, Ip6Extensions
<1>3. Names("ip6_extensions", Ip6Extensions)
  BY DEF Names, Walks, DnsLists, Plain, Ip6Extensions
<1>4. Sized("ip6_extensions", Ip6Extensions)
  BY WalkAssumption DEF Sized, SizeOf, Body, LongEnough, Plain, Ip6Extensions
<1> QED
  BY <1>1, <1>2, <1>3, <1>4 DEF Sound

LEMMA GtpExtensionsSound == Walk("gtp_extensions") = GtpExtensions /\ Sound("gtp_extensions", GtpExtensions)
<1>1. Walk("gtp_extensions") = GtpExtensions
  BY DEF Walk
<1>2. Typed(GtpExtensions)
  BY WalkAssumption DEF Typed, Plain, GtpExtensions
<1>3. Names("gtp_extensions", GtpExtensions)
  BY DEF Names, Walks, DnsLists, Plain, GtpExtensions
<1>4. Sized("gtp_extensions", GtpExtensions)
  BY WalkAssumption DEF Sized, SizeOf, Body, LongEnough, Plain, GtpExtensions
<1> QED
  BY <1>1, <1>2, <1>3, <1>4 DEF Sound

LEMMA TlsRecordsSound == Walk("tls_records") = TlsRecords /\ Sound("tls_records", TlsRecords)
<1>1. Walk("tls_records") = TlsRecords
  BY DEF Walk
<1>2. Typed(TlsRecords)
  BY WalkAssumption DEF Typed, Plain, TlsRecords
<1>3. Names("tls_records", TlsRecords)
  BY DEF Names, Walks, DnsLists, Plain, TlsRecords
<1>4. Sized("tls_records", TlsRecords)
  BY WalkAssumption DEF Sized, SizeOf, Body, LongEnough, Plain, TlsRecords
<1> QED
  BY <1>1, <1>2, <1>3, <1>4 DEF Sound

LEMMA DtlsRecordsSound == Walk("dtls_records") = DtlsRecords /\ Sound("dtls_records", DtlsRecords)
<1>1. Walk("dtls_records") = DtlsRecords
  BY DEF Walk
<1>2. Typed(DtlsRecords)
  BY WalkAssumption DEF Typed, Plain, DtlsRecords
<1>3. Names("dtls_records", DtlsRecords)
  BY DEF Names, Walks, DnsLists, Plain, DtlsRecords
<1>4. Sized("dtls_records", DtlsRecords)
  BY WalkAssumption DEF Sized, SizeOf, Body, LongEnough, Plain, DtlsRecords
<1> QED
  BY <1>1, <1>2, <1>3, <1>4 DEF Sound

LEMMA TlsHandshakesSound == Walk("tls_handshakes") = TlsHandshakes /\ Sound("tls_handshakes", TlsHandshakes)
<1>1. Walk("tls_handshakes") = TlsHandshakes
  BY DEF Walk
<1>2. Typed(TlsHandshakes)
  BY WalkAssumption DEF Typed, Plain, TlsHandshakes
<1>3. Names("tls_handshakes", TlsHandshakes)
  BY DEF Names, Walks, DnsLists, Plain, TlsHandshakes
<1>4. Sized("tls_handshakes", TlsHandshakes)
  BY WalkAssumption DEF Sized, SizeOf, Body, LongEnough, Plain, TlsHandshakes
<1> QED
  BY <1>1, <1>2, <1>3, <1>4 DEF Sound

LEMMA DtlsHandshakesSound == Walk("dtls_handshakes") = DtlsHandshakes /\ Sound("dtls_handshakes", DtlsHandshakes)
<1>1. Walk("dtls_handshakes") = DtlsHandshakes
  BY DEF Walk
<1>2. Typed(DtlsHandshakes)
  BY WalkAssumption DEF Typed, Plain, DtlsHandshakes, TlsHandshakes
<1>3. Names("dtls_handshakes", DtlsHandshakes)
  BY DEF Names, Walks, DnsLists, Plain, DtlsHandshakes, TlsHandshakes
<1>4. Sized("dtls_handshakes", DtlsHandshakes)
  BY WalkAssumption DEF Sized, SizeOf, Body, LongEnough, Plain, DtlsHandshakes, TlsHandshakes
<1> QED
  BY <1>1, <1>2, <1>3, <1>4 DEF Sound

LEMMA TlsExtensionsSound == Walk("tls_extensions") = TlsExtensions /\ Sound("tls_extensions", TlsExtensions)
<1>1. Walk("tls_extensions") = TlsExtensions
  BY DEF Walk
<1>2. Typed(TlsExtensions)
  BY WalkAssumption DEF Typed, Plain, TlsExtensions
<1>3. Names("tls_extensions", TlsExtensions)
  BY DEF Names, Walks, DnsLists, Plain, TlsExtensions
<1>4. Sized("tls_extensions", TlsExtensions)
  BY WalkAssumption DEF Sized, SizeOf, Body, LongEnough, Plain, TlsExtensions
<1> QED
  BY <1>1, <1>2, <1>3, <1>4 DEF Sound

LEMMA ServerNamesSound == Walk("server_names") = ServerNames /\ Sound("server_names", ServerNames)
<1>1. Walk("server_names") = ServerNames
  BY DEF Walk
<1>2. Typed(ServerNames)
  BY WalkAssumption DEF Typed, Plain, ServerNames
<1>3. Names("server_names", ServerNames)
  BY DEF Names, Walks, DnsLists, Plain, ServerNames
<1>4. Sized("server_names", ServerNames)
  BY WalkAssumption DEF Sized, SizeOf, Body, LongEnough, Plain, ServerNames
<1> QED
  BY <1>1, <1>2, <1>3, <1>4 DEF Sound

LEMMA AlpnSound == Walk("alpn") = Alpn /\ Sound("alpn", Alpn)
<1>1. Walk("alpn") = Alpn
  BY DEF Walk
<1>2. Typed(Alpn)
  BY WalkAssumption DEF Typed, Plain, Alpn
<1>3. Names("alpn", Alpn)
  BY DEF Names, Walks, DnsLists, Plain, Alpn
<1>4. Sized("alpn", Alpn)
  BY WalkAssumption DEF Sized, SizeOf, Body, LongEnough, Plain, Alpn
<1> QED
  BY <1>1, <1>2, <1>3, <1>4 DEF Sound

LEMMA CertificatesSound == Walk("certificates") = Certificates /\ Sound("certificates", Certificates)
<1>1. Walk("certificates") = Certificates
  BY DEF Walk
<1>2. Typed(Certificates)
  BY WalkAssumption DEF Typed, Plain, Certificates
<1>3. Names("certificates", Certificates)
  BY DEF Names, Walks, DnsLists, Plain, Certificates
<1>4. Sized("certificates", Certificates)
  BY WalkAssumption DEF Sized, SizeOf, Body, LongEnough, Plain, Certificates
<1> QED
  BY <1>1, <1>2, <1>3, <1>4 DEF Sound

LEMMA BerSound == Walk("ber") = Ber /\ Sound("ber", Ber)
<1>1. Walk("ber") = Ber
  BY DEF Walk
<1>2. Typed(Ber)
  BY WalkAssumption DEF Typed, Plain, Ber
<1>3. Names("ber", Ber)
  BY DEF Names, Walks, DnsLists, Plain, Ber
<1>4. Sized("ber", Ber)
  BY WalkAssumption DEF Sized, SizeOf, Body, LongEnough, Plain, Ber
<1> QED
  BY <1>1, <1>2, <1>3, <1>4 DEF Sound

LEMMA Http2FramesSound == Walk("http2_frames") = Http2Frames /\ Sound("http2_frames", Http2Frames)
<1>1. Walk("http2_frames") = Http2Frames
  BY DEF Walk
<1>2. Typed(Http2Frames)
  BY WalkAssumption DEF Typed, Plain, Http2Frames
<1>3. Names("http2_frames", Http2Frames)
  BY DEF Names, Walks, DnsLists, Plain, Http2Frames
<1>4. Sized("http2_frames", Http2Frames)
  BY WalkAssumption DEF Sized, SizeOf, Body, LongEnough, Plain, Http2Frames
<1> QED
  BY <1>1, <1>2, <1>3, <1>4 DEF Sound

LEMMA HpackSound == Walk("hpack") = Hpack /\ Sound("hpack", Hpack)
<1>1. Walk("hpack") = Hpack
  BY DEF Walk
<1>2. Typed(Hpack)
  BY WalkAssumption DEF Typed, Plain, Hpack
<1>3. Names("hpack", Hpack)
  BY DEF Names, Walks, DnsLists, Plain, Hpack
<1>4. Sized("hpack", Hpack)
  BY WalkAssumption DEF Sized, SizeOf, Body, LongEnough, Plain, Hpack
<1> QED
  BY <1>1, <1>2, <1>3, <1>4 DEF Sound

LEMMA DnsQuestionsSound == Walk("dns_questions") = DnsQuestions /\ Sound("dns_questions", DnsQuestions)
<1>1. Walk("dns_questions") = DnsQuestions
  BY DEF Walk
<1>2. Typed(DnsQuestions)
  BY WalkAssumption DEF Typed, Plain, DnsQuestions
<1>3. Names("dns_questions", DnsQuestions)
  BY DEF Names, Walks, DnsLists, Plain, DnsQuestions
<1>4. Sized("dns_questions", DnsQuestions)
  BY WalkAssumption DEF Sized, SizeOf, Body, LongEnough, Plain, DnsQuestions
<1> QED
  BY <1>1, <1>2, <1>3, <1>4 DEF Sound

LEMMA DnsRecordsSound == Walk("dns_records") = DnsRecords /\ Sound("dns_records", DnsRecords)
<1>1. Walk("dns_records") = DnsRecords
  BY DEF Walk
<1>2. Typed(DnsRecords)
  BY WalkAssumption DEF Typed, Plain, DnsRecords
<1>3. Names("dns_records", DnsRecords)
  BY DEF Names, Walks, DnsLists, Plain, DnsRecords
<1>4. Sized("dns_records", DnsRecords)
  BY WalkAssumption DEF Sized, SizeOf, Body, LongEnough, Plain, DnsRecords
<1> QED
  BY <1>1, <1>2, <1>3, <1>4 DEF Sound

LEMMA DnsTxtSound == Walk("dns_txt") = DnsTxt /\ Sound("dns_txt", DnsTxt)
<1>1. Walk("dns_txt") = DnsTxt
  BY DEF Walk
<1>2. Typed(DnsTxt)
  BY WalkAssumption DEF Typed, Plain, DnsTxt
<1>3. Names("dns_txt", DnsTxt)
  BY DEF Names, Walks, DnsLists, Plain, DnsTxt
<1>4. Sized("dns_txt", DnsTxt)
  BY WalkAssumption DEF Sized, SizeOf, Body, LongEnough, Plain, DnsTxt
<1> QED
  BY <1>1, <1>2, <1>3, <1>4 DEF Sound

LEMMA DhcpOptionsSound == Walk("dhcp_options") = DhcpOptions /\ Sound("dhcp_options", DhcpOptions)
<1>1. Walk("dhcp_options") = DhcpOptions
  BY DEF Walk
<1>2. Typed(DhcpOptions)
  BY WalkAssumption DEF Typed, Plain, DhcpOptions
<1>3. Names("dhcp_options", DhcpOptions)
  BY DEF Names, Walks, DnsLists, Plain, DhcpOptions
<1>4. Sized("dhcp_options", DhcpOptions)
  BY WalkAssumption DEF Sized, SizeOf, Body, LongEnough, Plain, DhcpOptions
<1> QED
  BY <1>1, <1>2, <1>3, <1>4 DEF Sound

LEMMA RadiusAttributesSound == Walk("radius_attributes") = RadiusAttributes /\ Sound("radius_attributes", RadiusAttributes)
<1>1. Walk("radius_attributes") = RadiusAttributes
  BY DEF Walk
<1>2. Typed(RadiusAttributes)
  BY WalkAssumption DEF Typed, Plain, RadiusAttributes
<1>3. Names("radius_attributes", RadiusAttributes)
  BY DEF Names, Walks, DnsLists, Plain, RadiusAttributes
<1>4. Sized("radius_attributes", RadiusAttributes)
  BY WalkAssumption DEF Sized, SizeOf, Body, LongEnough, Plain, RadiusAttributes
<1> QED
  BY <1>1, <1>2, <1>3, <1>4 DEF Sound

LEMMA EnipItemsSound == Walk("enip_items") = EnipItems /\ Sound("enip_items", EnipItems)
<1>1. Walk("enip_items") = EnipItems
  BY DEF Walk
<1>2. Typed(EnipItems)
  BY WalkAssumption DEF Typed, Plain, EnipItems
<1>3. Names("enip_items", EnipItems)
  BY DEF Names, Walks, DnsLists, Plain, EnipItems
<1>4. Sized("enip_items", EnipItems)
  BY WalkAssumption DEF Sized, SizeOf, Body, LongEnough, Plain, EnipItems
<1> QED
  BY <1>1, <1>2, <1>3, <1>4 DEF Sound

LEMMA SshNameListsSound == Walk("ssh_name_lists") = SshNameLists /\ Sound("ssh_name_lists", SshNameLists)
<1>1. Walk("ssh_name_lists") = SshNameLists
  BY DEF Walk
<1>2. Typed(SshNameLists)
  BY WalkAssumption DEF Typed, Plain, SshNameLists
<1>3. Names("ssh_name_lists", SshNameLists)
  BY DEF Names, Walks, DnsLists, Plain, SshNameLists
<1>4. Sized("ssh_name_lists", SshNameLists)
  BY WalkAssumption DEF Sized, SizeOf, Body, LongEnough, Plain, SshNameLists
<1> QED
  BY <1>1, <1>2, <1>3, <1>4 DEF Sound

LEMMA WalkSound ==
  ASSUME NEW w \in Walks
  PROVE  Sound(w, Walk(w))
BY TcpOptionsSound, SctpChunksSound, Ip6ExtensionsSound, GtpExtensionsSound, TlsRecordsSound, DtlsRecordsSound, TlsHandshakesSound, DtlsHandshakesSound, TlsExtensionsSound, ServerNamesSound, AlpnSound, CertificatesSound, BerSound, Http2FramesSound, HpackSound, DnsQuestionsSound, DnsRecordsSound, DnsTxtSound, DhcpOptionsSound, RadiusAttributesSound, EnipItemsSound, SshNameListsSound
   DEF Walks

----------------------------------------------------------------------------
(* The stack of loops: the innermost moves on, opens another, or is over.  *)
Moved(hs, fs, g, sz) ==
  Stack(hs, sz) /\ Len(hs) = Len(fs) /\ hs # <<>> /\ hs[Len(hs)] = g

LEMMA StackMoves ==
  ASSUME NEW sz \in Nat, NEW fs, Stack(fs, sz), fs # <<>>, NEW g, InSlice(g, sz),
         g.lo = fs[Len(fs)].lo, g.hi = fs[Len(fs)].hi
  PROVE  Moved([fs EXCEPT ![Len(fs)] = g], fs, g, sz)
<1>1. /\ fs \in Seq(Frame) /\ \A i \in 1 .. Len(fs) : InSlice(fs[i], sz)
      /\ \A i \in 1 .. (Len(fs) - 1) : Within(fs[i], fs[i + 1]) /\ AtRecord(fs[i])
  BY DEF Stack
<1>2. PICK n \in Nat : n = Len(fs) /\ n > 0
  BY <1>1
<1>3. g \in Frame
  BY DEF InSlice
<1>4. PICK hs : hs = [fs EXCEPT ![n] = g]
  OBVIOUS
<1>5. /\ hs \in Seq(Frame) /\ Len(hs) = n
      /\ \A i \in 1 .. n : hs[i] = IF i = n THEN g ELSE fs[i]
  <2>1. n \in 1 .. Len(fs)
    BY <1>2
  <2> QED
    BY <1>1, <1>2, <1>3, <1>4, <2>1, ExceptSeq
<1>6. hs[n] = g /\ hs # <<>>
  BY <1>2, <1>5
<1>7. \A i \in 1 .. n : InSlice(hs[i], sz)
  BY <1>1, <1>2, <1>5
<1>8. ASSUME NEW i \in 1 .. (n - 1) PROVE Within(hs[i], hs[i + 1]) /\ AtRecord(hs[i])
  <2>1. i \in 1 .. n /\ i + 1 \in 1 .. n /\ i # n
    BY <1>2
  <2>2. hs[i] = fs[i] /\ Within(fs[i], fs[i + 1]) /\ AtRecord(fs[i])
    BY <1>1, <1>2, <1>5, <2>1
  <2>3. CASE i + 1 = n
    <3>1. hs[i + 1] = g /\ g.lo = fs[i + 1].lo /\ g.hi = fs[i + 1].hi
      BY <1>2, <1>6, <2>3
    <3> QED
      BY <2>2, <3>1 DEF Within
  <2>4. CASE i + 1 # n
    BY <1>5, <2>1, <2>2, <2>4
  <2> QED
    BY <2>3, <2>4
<1>9. Moved(hs, fs, g, sz)
  BY <1>2, <1>5, <1>6, <1>7, <1>8 DEF Stack, Moved
<1> QED
  BY <1>2, <1>4, <1>9

LEMMA StackOpens ==
  ASSUME NEW sz \in Nat, NEW fs, Stack(fs, sz), fs # <<>>, NEW h, InSlice(h, sz),
         Within(fs[Len(fs)], h), AtRecord(fs[Len(fs)])
  PROVE  /\ Stack(Append(fs, h), sz)
         /\ Append(fs, h) # <<>>
         /\ Append(fs, h)[Len(Append(fs, h))] = h
<1>1. /\ fs \in Seq(Frame) /\ \A i \in 1 .. Len(fs) : InSlice(fs[i], sz)
      /\ \A i \in 1 .. (Len(fs) - 1) : Within(fs[i], fs[i + 1]) /\ AtRecord(fs[i])
  BY DEF Stack
<1>2. PICK n \in Nat : n = Len(fs) /\ n > 0
  BY <1>1
<1>3. h \in Frame
  BY DEF InSlice
<1>4. PICK hs : hs = Append(fs, h)
  OBVIOUS
<1>5. /\ hs \in Seq(Frame) /\ Len(hs) = n + 1
      /\ \A i \in 1 .. n : hs[i] = fs[i]
      /\ hs[n + 1] = h
  BY <1>1, <1>2, <1>3, <1>4, AppendProperties
<1>6. \A i \in 1 .. (n + 1) : InSlice(hs[i], sz)
  <2>1. \A i \in 1 .. (n + 1) : i \in 1 .. n \/ i = n + 1
    BY <1>2
  <2> QED
    BY <1>1, <1>2, <1>5, <2>1
<1>7. ASSUME NEW i \in 1 .. ((n + 1) - 1) PROVE Within(hs[i], hs[i + 1]) /\ AtRecord(hs[i])
  <2>1. i \in 1 .. n /\ hs[i] = fs[i]
    BY <1>2, <1>5
  <2>2. CASE i = n
    BY <1>2, <1>5, <2>1, <2>2
  <2>3. CASE i # n
    <3>1. i \in 1 .. (n - 1) /\ i + 1 \in 1 .. n
      BY <1>2, <2>1, <2>3
    <3> QED
      BY <1>1, <1>2, <1>5, <2>1, <3>1
  <2> QED
    BY <2>2, <2>3
<1>8. hs # <<>>
  BY <1>2, <1>5
<1> QED
  BY <1>4, <1>5, <1>6, <1>7, <1>8 DEF Stack

LEMMA StackEnds ==
  ASSUME NEW sz \in Nat, NEW fs, Stack(fs, sz), fs # <<>>
  PROVE  LET hs == SubSeq(fs, 1, Len(fs) - 1)
         IN  Stack(hs, sz) /\ (hs # <<>> => AtRecord(hs[Len(hs)]))
<1>1. /\ fs \in Seq(Frame) /\ \A i \in 1 .. Len(fs) : InSlice(fs[i], sz)
      /\ \A i \in 1 .. (Len(fs) - 1) : Within(fs[i], fs[i + 1]) /\ AtRecord(fs[i])
  BY DEF Stack
<1>2. PICK m \in Nat : m = Len(fs) - 1 /\ m + 1 = Len(fs)
  <2>1. Len(fs) \in Nat /\ Len(fs) # 0
    BY <1>1
  <2>2. Len(fs) - 1 \in Nat /\ (Len(fs) - 1) + 1 = Len(fs)
    BY <2>1
  <2> QED
    BY <2>2
<1>3. PICK hs : hs = SubSeq(fs, 1, m)
  OBVIOUS
<1>4. /\ hs \in Seq(Frame) /\ Len(hs) = m /\ \A i \in 1 .. m : hs[i] = fs[i]
  <2>1. \A i \in 1 .. m : fs[i] \in Frame
    BY <1>1, <1>2
  <2>2. /\ hs \in Seq(Frame) /\ Len(hs) = (IF 1 <= m THEN m - 1 + 1 ELSE 0)
        /\ \A i \in 1 .. m - 1 + 1 : hs[i] = fs[1 + i - 1]
    BY <1>3, <2>1, SubSeqProperties
  <2>3. m - 1 + 1 = m /\ \A i \in 1 .. m : 1 + i - 1 = i
    OBVIOUS
  <2> QED
    BY <2>2, <2>3
<1>5. \A i \in 1 .. m : InSlice(hs[i], sz)
  BY <1>1, <1>2, <1>4
<1>6. ASSUME NEW i \in 1 .. (m - 1) PROVE Within(hs[i], hs[i + 1]) /\ AtRecord(hs[i])
  <2>1. i \in 1 .. m /\ i + 1 \in 1 .. m
    BY <1>2
  <2> QED
    BY <1>1, <1>2, <1>4, <2>1
<1>7. Stack(hs, sz)
  BY <1>4, <1>5, <1>6 DEF Stack
<1>8. ASSUME hs # <<>> PROVE AtRecord(hs[Len(hs)])
  <2>1. m # 0
    BY <1>4, <1>8
  <2>2. m \in 1 .. m /\ m \in 1 .. (Len(fs) - 1)
    BY <1>2, <2>1
  <2> QED
    BY <1>1, <1>4, <2>2
<1> QED
  BY <1>2, <1>3, <1>7, <1>8

----------------------------------------------------------------------------
LEMMA FrameTypes ==
  ASSUME NEW f \in Frame
  PROVE  /\ f.walk \in Walks /\ f.lo \in Nat /\ f.hi \in Nat /\ f.pos \in Nat /\ f.n \in Nat
         /\ f.at \in Nat /\ f.extra \in Nat /\ f.len \in Int /\ f.unit \in Nat /\ f.data \in Nat
         /\ f.ready \in BOOLEAN
BY DEF Frame

LEMMA TopIs ==
  ASSUME IInv, frames # <<>>
  PROVE  InSlice(Top, size) /\ Top \in Frame /\ size \in Nat
<1>1. frames \in Seq(Frame) /\ size \in Nat /\ \A i \in 1 .. Len(frames) : InSlice(frames[i], size)
  BY DEF IInv, Stack
<1>2. Len(frames) \in 1 .. Len(frames)
  BY <1>1
<1> QED
  BY <1>1, <1>2 DEF Top, InSlice

LEMMA TopMoves ==
  ASSUME IInv, frames # <<>>, NEW g, InSlice(g, size), g.lo = Top.lo, g.hi = Top.hi
  PROVE  LET fs == WithTop(g)
         IN  Stack(fs, size) /\ Len(fs) = Len(frames) /\ fs # <<>> /\ fs[Len(fs)] = g
<1>1. size \in Nat /\ Stack(frames, size)
  BY DEF IInv
<1>2. Moved(WithTop(g), frames, g, size)
  BY <1>1, StackMoves DEF WithTop, Top
<1> QED
  BY <1>2 DEF Moved

(* A loop that has just been opened.                                       *)
LEMMA FrameOpened ==
  ASSUME NEW sz \in Nat, NEW w \in Walks, NEW lo \in Nat, NEW pos \in Nat, NEW hi \in Nat,
         lo <= pos, pos <= hi, hi <= sz, w \in DnsLists => lo = 0 /\ hi = sz
  PROVE  /\ InSlice(NewFrame(w, lo, pos, hi), sz) /\ AtRecord(NewFrame(w, lo, pos, hi))
         /\ NewFrame(w, lo, pos, hi).lo = lo /\ NewFrame(w, lo, pos, hi).hi = hi
         /\ NewFrame(w, lo, pos, hi).walk = w /\ NewFrame(w, lo, pos, hi).pos = pos
<1>1. PICK f : f = NewFrame(w, lo, pos, hi)
  OBVIOUS
<1>2. f = [walk |-> w, lo |-> lo, hi |-> hi, pos |-> pos, n |-> 0, at |-> pos, extra |-> 0,
           len |-> -1, unit |-> 1, data |-> pos, ready |-> FALSE]
  BY <1>1 DEF NewFrame
<1>3. /\ f.walk = w /\ f.lo = lo /\ f.hi = hi /\ f.pos = pos /\ f.n = 0 /\ f.ready = FALSE
  BY <1>2
<1>4. f \in Frame
  BY <1>2 DEF Frame
<1>5. InSlice(f, sz)
  BY <1>3, <1>4 DEF InSlice
<1>6. AtRecord(f)
  BY <1>3 DEF AtRecord
<1> QED
  BY <1>1, <1>3, <1>5, <1>6

LEMMA NoNameAt ==
  ASSUME NEW sz \in Nat
  PROVE  NameAt(NoName, sz) /\ ~ NoName.on
<1>1. NoName \in Name
  BY DEF NoName, Name
<1>2. ~ NoName.on
  BY DEF NoName
<1> QED
  BY <1>1, <1>2 DEF NameAt

(* The invariant of a state in which no name is being read.                *)
LEMMA Quiet ==
  ASSUME size' \in Nat, Stack(frames', size'), frames' # <<>> => AtRecord(frames'[Len(frames')]),
         name' = NoName
  PROVE  IInv'
<1>1. NameAt(name', size') /\ ~ name'.on
  BY NoNameAt
<1> QED
  BY <1>1 DEF IInv, Top

LEMMA InitInv ==
  ASSUME Init
  PROVE  IInv
<1>1. PICK p \in Payloads : size = p[2] /\ frames = <<NewFrame(p[1], 0, Walk(p[1]).lead, size)>>
  BY DEF Init
<1>2. PICK w \in Walks, lead \in Nat : w = p[1] /\ lead = Walk(w).lead /\ lead <= size /\ size \in Nat
  <2>1. p \in Walks \X Nat /\ Walk(p[1]).lead <= p[2]
    BY <1>1, WalkAssumption
  <2>2. p[1] \in Walks /\ p[2] \in Nat
    BY <2>1
  <2>3. Walk(p[1]).lead \in Nat
    BY <2>2, WalkSound DEF Sound, Typed
  <2> QED
    BY <1>1, <2>1, <2>2, <2>3
<1>3. PICK f : f = NewFrame(w, 0, lead, size)
  OBVIOUS
<1>4. InSlice(f, size) /\ AtRecord(f)
  <2>1. 0 \in Nat /\ 0 <= lead /\ size <= size
    BY <1>2
  <2> QED
    BY <1>2, <1>3, <2>1, FrameOpened
<1>5. frames = <<f>>
  BY <1>1, <1>2, <1>3
<1>6. f \in Frame
  BY <1>4 DEF InSlice
<1>7. frames \in Seq(Frame) /\ Len(frames) = 1 /\ frames[1] = f
  BY <1>5, <1>6
<1>8. Stack(frames, size)
  <2>1. \A i \in 1 .. Len(frames) : i = 1
    BY <1>7
  <2>2. 1 .. (Len(frames) - 1) = {}
    BY <1>7
  <2> QED
    BY <1>4, <1>7, <2>1, <2>2 DEF Stack
<1>9. Top = f
  BY <1>7 DEF Top
<1>10. NameAt(name, size) /\ ~ name.on
  BY <1>2, NoNameAt DEF Init
<1> QED
  BY <1>2, <1>4, <1>8, <1>9, <1>10 DEF IInv

----------------------------------------------------------------------------
(* The header h and the body b of a record that is read up to e, leaving   *)
(* the frame g.                                                            *)
Taken(f, len, u, x, h, b, e, g) ==
  /\ h = Walk(f.walk).hdr + x
  /\ b = Body(Walk(f.walk), u, len)
  /\ e = IF Fits(f, h, b) THEN f.pos + h + b ELSE f.hi
  /\ g = [f EXCEPT !.pos = e, !.n = @ + 1, !.at = f.pos, !.extra = x, !.len = len,
                   !.unit = u, !.data = f.pos + h, !.ready = FALSE]
  /\ LongEnough(Walk(f.walk), len)
  /\ Fits(f, h + Walk(f.walk).spare, 0)
  /\ Fits(f, h, b) \/ Walk(f.walk).clamp

(* It is as long as its protocol says, or cut at the end of the slice.     *)
LEMMA RecordRead ==
  ASSUME NEW sz \in Nat, NEW f, InSlice(f, sz), NEW len \in Nat,
         NEW u \in Walk(f.walk).units, NEW x \in Walk(f.walk).extra, NEW h, NEW b, NEW e, NEW g,
         Taken(f, len, u, x, h, b, e, g)
  PROVE  /\ InSlice(g, sz) /\ AtRecord(g) /\ g.lo = f.lo /\ g.hi = f.hi /\ g.walk = f.walk
         /\ g.data = f.pos + h /\ g.pos = e /\ e \in Nat /\ h \in Nat /\ f.pos + h <= e /\ e <= sz
<1> USE DEF Taken
<1>1. f \in Frame /\ f.lo <= f.pos /\ f.pos <= f.hi /\ f.hi <= sz
      /\ (f.walk \in DnsLists => f.lo = 0 /\ f.hi = sz)
  BY DEF InSlice
<1>2. /\ f.walk \in Walks /\ f.lo \in Nat /\ f.hi \in Nat /\ f.pos \in Nat /\ f.n \in Nat
  BY <1>1, FrameTypes
<1>3. PICK k : k = Walk(f.walk)
  OBVIOUS
<1>4. Sound(f.walk, k)
  BY <1>2, <1>3, WalkSound
<1>5. k.hdr \in Nat /\ k.spare \in Nat /\ x \in Nat /\ u \in Nat
  BY <1>3, <1>4 DEF Sound, Typed
<1>6. b \in Nat /\ k.hdr + x + b = SizeOf(f.walk, k, x, len, u)
  BY <1>3, <1>4 DEF Sound, Sized
<1>7. h \in Nat /\ h + b = SizeOf(f.walk, k, x, len, u)
  BY <1>3, <1>5, <1>6
<1>8. h + k.spare + 0 <= f.hi - f.pos
  BY <1>3 DEF Fits
<1>9. f.pos + h <= f.hi
  BY <1>2, <1>5, <1>7, <1>8
<1>10. e \in Nat /\ f.pos + h <= e /\ e <= f.hi /\ (Fits(f, h, b) => e = f.pos + (h + b))
  <2>1. CASE Fits(f, h, b)
    BY <1>2, <1>6, <1>7, <2>1 DEF Fits
  <2>2. CASE ~ Fits(f, h, b)
    BY <1>2, <1>9, <2>2
  <2> QED
    BY <2>1, <2>2
<1>11. /\ g.walk = f.walk /\ g.lo = f.lo /\ g.hi = f.hi /\ g.pos = e /\ g.n = f.n + 1 /\ g.at = f.pos
       /\ g.extra = x /\ g.len = len /\ g.unit = u /\ g.data = f.pos + h /\ g.ready = FALSE
       /\ g \in Frame
  <2>1. f.n + 1 \in Nat /\ f.pos + h \in Nat /\ len \in Int
    BY <1>2, <1>7
  <2> QED
    BY <1>1, <1>2, <1>5, <1>10, <2>1 DEF Frame
<1>12. f.lo <= e /\ e <= sz
  BY <1>1, <1>2, <1>7, <1>10
<1>13. InSlice(g, sz)
  BY <1>1, <1>10, <1>11, <1>12 DEF InSlice
<1>14. RecordSize(g) = h + b
  BY <1>3, <1>7, <1>11, RecordSizeIs
<1>15. AtRecord(g)
  <2>1. CASE Fits(f, h, b)
    <3>1. g.len # -1
      BY <1>11
    <3>2. g.pos = g.at + RecordSize(g)
      BY <1>10, <1>11, <1>14, <2>1
    <3> QED
      BY <1>11, <3>1, <3>2 DEF AtRecord
  <2>2. CASE ~ Fits(f, h, b)
    <3>1. e = f.hi /\ ~ (h + b <= f.hi - f.pos)
      BY <2>2 DEF Fits
    <3>2. f.pos + (h + b) > f.hi
      BY <1>2, <1>6, <1>7, <3>1
    <3> QED
      BY <1>11, <1>14, <2>2, <3>1, <3>2 DEF AtRecord
  <2> QED
    BY <2>1, <2>2
<1> QED
  BY <1>7, <1>10, <1>11, <1>12, <1>13, <1>15

(* A walk over the body d..e-1 of a record.                                *)
LEMMA InnerOpened ==
  ASSUME NEW sz \in Nat, NEW c \in Walks \ DnsLists, NEW d \in Nat, NEW e \in Nat, d <= e, e <= sz,
         NEW i \in Inner(c, d, e), i.pos <= i.hi
  PROVE  InSlice(i, sz) /\ AtRecord(i) /\ i.lo = d /\ i.hi <= e
<1>1. PICK lead \in Nat : lead = Walk(c).lead
  BY WalkSound DEF Sound, Typed
<1>2. \E p \in IF Walk(c).late THEN (d + lead) .. e ELSE {d + lead} \intersect (d .. e) :
      \E h \in IF Walk(c).cut THEN (d + lead) .. e ELSE {e} : i = NewFrame(c, d, p, h)
  BY <1>1 DEF Inner
<1>3. PICK p, h : /\ p \in IF Walk(c).late THEN (d + lead) .. e ELSE {d + lead} \intersect (d .. e)
                  /\ h \in IF Walk(c).cut THEN (d + lead) .. e ELSE {e}
                  /\ i = NewFrame(c, d, p, h)
  BY <1>2
<1>4. p \in Nat /\ d <= p
  <2>1. CASE Walk(c).late
    BY <1>3, <2>1
  <2>2. CASE ~ Walk(c).late
    BY <1>3, <2>2
  <2> QED
    BY <2>1, <2>2
<1>5. h \in Nat /\ h <= e
  <2>1. CASE Walk(c).cut
    BY <1>3, <2>1
  <2>2. CASE ~ Walk(c).cut
    BY <1>3, <2>2
  <2> QED
    BY <2>1, <2>2
<1>6. i.pos = p /\ i.hi = h /\ i.lo = d
  BY <1>3 DEF NewFrame
<1>7. p <= h /\ h <= sz /\ c \notin DnsLists
  BY <1>5, <1>6
<1> QED
  BY <1>3, <1>4, <1>5, <1>6, <1>7, FrameOpened

(* A name in the data d..e-1 of a record.                                  *)
LEMMA DataName ==
  ASSUME NEW sz \in Nat, NEW f, NEW d \in Nat, NEW e \in Nat, d <= e, e <= sz,
         NEW nm \in NamesInData(f, d, e)
  PROVE  NameAt(nm, sz) /\ nm.rdata
<1>1. PICK k \in {0} \union {j \in {2, 6} : d + j < e} :
        nm = [NoName EXCEPT !.on = TRUE, !.rdata = TRUE, !.start = d + k, !.pos = d + k]
  <2>1. f.walk = "dns_records"
    BY DEF NamesInData
  <2> QED
    BY <2>1 DEF NamesInData
<1>2. k \in Nat /\ d + k \in Nat /\ d + k <= sz
  BY <1>1
<1>3. /\ nm.on = TRUE /\ nm.rdata = TRUE /\ nm.start = d + k /\ nm.pos = d + k /\ nm.end = -1
      /\ nm.here = 0 /\ nm \in Name
  <2>1. PICK m \in Nat : m = d + k
    BY <1>2
  <2>2. nm = [on |-> TRUE, rdata |-> TRUE, start |-> m, pos |-> m, turns |-> 0, jumps |-> 0,
              end |-> -1, here |-> 0]
    BY <1>1, <2>1 DEF NoName
  <2>3. nm \in Name
    BY <2>2 DEF Name
  <2> QED
    BY <2>1, <2>2, <2>3
<1>4. nm.pos = nm.start + nm.here
  BY <1>2, <1>3
<1> QED
  BY <1>2, <1>3, <1>4 DEF NameAt

LEMMA ReadKeeps ==
  ASSUME IInv, frames # <<>>, size' = size, NEW len \in Lens, NEW u \in Walk(Top.walk).units,
         NEW x \in Walk(Top.walk).extra, Read(len, u, x)
  PROVE  IInv'
<1> DEFINE f == Top
           w == Walk(f.walk)
           h == w.hdr + x
           b == Body(w, u, len)
           e == IF Fits(f, h, b) THEN f.pos + h + b ELSE f.hi
           g == [f EXCEPT !.pos = e, !.n = @ + 1, !.at = f.pos, !.extra = x, !.len = len,
                          !.unit = u, !.data = f.pos + h, !.ready = FALSE]
<1>1. /\ LongEnough(w, len) /\ Fits(f, h + w.spare, 0) /\ (Fits(f, h, b) \/ w.clamp)
      /\ \/ frames' = WithTop(g) /\ name' = NoName
         \/ /\ \E c \in w.inner : \E i \in Inner(c, f.pos + h, e) :
                 i.pos <= i.hi /\ frames' = Append(WithTop(g), i)
            /\ name' = NoName
         \/ /\ frames' = WithTop(g)
            /\ name' \in NamesInData(f, f.pos + h, e)
  BY DEF Read
<1>2. InSlice(f, size) /\ f \in Frame /\ size \in Nat /\ len \in Nat /\ Stack(frames, size)
  BY TopIs, WalkAssumption DEF IInv
<1>3. /\ InSlice(g, size) /\ AtRecord(g) /\ g.lo = f.lo /\ g.hi = f.hi /\ g.walk = f.walk
      /\ g.data = f.pos + h /\ g.pos = e /\ e \in Nat /\ h \in Nat /\ f.pos + h <= e /\ e <= size
  <2>1. Taken(f, len, u, x, h, b, e, g)
    BY <1>1 DEF Taken
  <2> HIDE DEF f, h, b, e, g
  <2> QED
    BY <1>2, <2>1, RecordRead DEF f
<1>4. PICK fs : fs = WithTop(g)
  OBVIOUS
<1> HIDE DEF h, b, e, g
<1>5. Stack(fs, size) /\ Len(fs) = Len(frames) /\ fs # <<>> /\ fs[Len(fs)] = g
  BY <1>2, <1>3, <1>4, TopMoves
<1>6. f.pos + h \in Nat
  BY <1>2, <1>3, FrameTypes
<1>7. CASE frames' = WithTop(g) /\ name' = NoName
  BY <1>2, <1>3, <1>4, <1>5, <1>7, Quiet
<1>8. ASSUME NEW c \in w.inner, NEW i \in Inner(c, f.pos + h, e), i.pos <= i.hi,
             frames' = Append(WithTop(g), i), name' = NoName
      PROVE  IInv'
  <2>1. c \in Walks \ DnsLists
    BY <1>2, FrameTypes, WalkSound DEF Sound, Names
  <2>2. InSlice(i, size) /\ AtRecord(i) /\ i.lo = f.pos + h /\ i.hi <= e
    BY <1>2, <1>3, <1>6, <1>8, <2>1, InnerOpened
  <2>3. Within(g, i)
    <3>1. f.pos + h <= f.pos + h
      BY <1>6
    <3> QED
      BY <1>3, <2>2, <3>1 DEF Within
  <2>4. /\ Stack(Append(fs, i), size) /\ Append(fs, i) # <<>>
        /\ Append(fs, i)[Len(Append(fs, i))] = i
    BY <1>2, <1>3, <1>5, <2>2, <2>3, StackOpens
  <2> QED
    BY <1>2, <1>4, <1>8, <2>2, <2>4, Quiet
<1>9. CASE frames' = WithTop(g) /\ name' \in NamesInData(f, f.pos + h, e)
  <2>1. NameAt(name', size) /\ name'.rdata
    BY <1>2, <1>3, <1>6, <1>9, DataName
  <2> QED
    BY <1>2, <1>3, <1>4, <1>5, <1>9, <2>1 DEF IInv, Top
<1> QED
  BY <1>1, <1>7, <1>8, <1>9

LEMMA ReadOneKeeps ==
  ASSUME IInv, frames # <<>>, size' = size, ReadOne
  PROVE  IInv'
<1>1. PICK f : f = Top
  OBVIOUS
<1>2. PICK g : g = [f EXCEPT !.pos = @ + 1, !.n = @ + 1, !.at = f.pos, !.len = -1, !.data = f.pos + 1]
  OBVIOUS
<1>3. Walk(f.walk).ones /\ Fits(f, 1, 0) /\ frames' = WithTop(g) /\ name' = NoName
  BY <1>1, <1>2 DEF ReadOne
<1>4. InSlice(f, size) /\ f \in Frame /\ size \in Nat /\ Stack(frames, size)
  BY <1>1, TopIs DEF IInv
<1>5. f.walk \notin DnsLists
  BY <1>3, <1>4, FrameTypes, WalkSound DEF Sound, Names
<1>6. ~ f.ready
  <2>1. AtRecord(f) \/ BehindName(f, name)
    BY <1>1 DEF IInv
  <2> QED
    BY <1>5, <2>1 DEF AtRecord, BehindName
<1>7. /\ f.lo \in Nat /\ f.hi \in Nat /\ f.pos \in Nat /\ f.n \in Nat /\ f.lo <= f.pos /\ f.pos <= f.hi
      /\ f.hi <= size /\ f.ready \in BOOLEAN
  BY <1>4, FrameTypes DEF InSlice
<1>8. f.pos + 1 <= f.hi
  BY <1>3, <1>7 DEF Fits
<1>9. /\ g.walk = f.walk /\ g.lo = f.lo /\ g.hi = f.hi /\ g.pos = f.pos + 1 /\ g.at = f.pos
      /\ g.len = -1 /\ g.ready = f.ready /\ g \in Frame
  <2>1. f.pos + 1 \in Nat /\ f.n + 1 \in Nat /\ -1 \in Int
    BY <1>7
  <2> QED
    BY <1>2, <1>4, <1>7, <2>1 DEF Frame
<1>10. InSlice(g, size)
  <2>1. f.lo <= f.pos + 1
    BY <1>7
  <2> QED
    BY <1>4, <1>5, <1>7, <1>8, <1>9, <2>1 DEF InSlice
<1>11. AtRecord(g)
  BY <1>6, <1>9 DEF AtRecord
<1>12. PICK fs : fs = WithTop(g)
  OBVIOUS
<1>13. Stack(fs, size) /\ Len(fs) = Len(frames) /\ fs # <<>> /\ fs[Len(fs)] = g
  BY <1>1, <1>4, <1>9, <1>10, <1>12, TopMoves
<1> QED
  BY <1>3, <1>4, <1>11, <1>12, <1>13, Quiet

LEMMA OverKeeps ==
  ASSUME IInv, frames # <<>>, size' = size, frames' = Outer, name' = NoName
  PROVE  IInv'
<1>1. size \in Nat /\ Stack(frames, size)
  BY DEF IInv
<1>2. Stack(Outer, size) /\ (Outer # <<>> => AtRecord(Outer[Len(Outer)]))
  BY <1>1, StackEnds DEF Outer
<1> QED
  BY <1>1, <1>2, Quiet

LEMMA GoOnKeeps ==
  ASSUME IInv, frames # <<>>, size' = size, GoOn
  PROVE  IInv'
<1>1. PICK f : f = Top
  OBVIOUS
<1>2. PICK c \in Walk(f.walk).then : frames' = WithTop(NewFrame(c, f.lo, f.pos, f.hi)) /\ name' = NoName
  BY <1>1 DEF GoOn
<1>3. InSlice(f, size) /\ f \in Frame /\ size \in Nat /\ Stack(frames, size)
  BY <1>1, TopIs DEF IInv
<1>4. c = "dns_records" /\ f.walk \in DnsLists
  BY <1>2, <1>3, FrameTypes, WalkSound DEF Sound, Names
<1>5. c \in Walks
  BY <1>4 DEF Walks
<1>6. /\ f.lo \in Nat /\ f.hi \in Nat /\ f.pos \in Nat /\ f.lo <= f.pos /\ f.pos <= f.hi
      /\ f.hi <= size /\ f.lo = 0 /\ f.hi = size
  BY <1>3, <1>4, FrameTypes DEF InSlice
<1>7. PICK g : g = NewFrame(c, f.lo, f.pos, f.hi)
  OBVIOUS
<1>8. InSlice(g, size) /\ AtRecord(g) /\ g.lo = f.lo /\ g.hi = f.hi
  BY <1>3, <1>5, <1>6, <1>7, FrameOpened
<1>9. PICK fs : fs = WithTop(g)
  OBVIOUS
<1>10. Stack(fs, size) /\ Len(fs) = Len(frames) /\ fs # <<>> /\ fs[Len(fs)] = g
  BY <1>1, <1>3, <1>8, <1>9, TopMoves
<1> QED
  BY <1>2, <1>3, <1>7, <1>8, <1>9, <1>10, Quiet

LEMMA LoopKeeps ==
  ASSUME IInv, Loop
  PROVE  IInv'
<1>1. frames # <<>> /\ size' = size
  BY DEF Loop
<1>2. ASSUME NEW len \in Lens, NEW u \in Walk(Top.walk).units, NEW x \in Walk(Top.walk).extra,
             Read(len, u, x)
      PROVE  IInv'
  BY <1>1, <1>2, ReadKeeps
<1>3. CASE ReadOne
  BY <1>1, <1>3, ReadOneKeeps
<1>4. CASE Stop
  <2>1. frames' = Outer /\ name' = NoName
    BY <1>4 DEF Stop
  <2> QED
    BY <1>1, <2>1, OverKeeps
<1>5. CASE GoOn
  BY <1>1, <1>5, GoOnKeeps
<1> QED
  BY <1>2, <1>3, <1>4, <1>5 DEF Loop

----------------------------------------------------------------------------
(* read_name.                                                              *)

(* Nobody stands behind a name while one is being read.                    *)
LEMMA ReadingAtRecord ==
  ASSUME IInv, name.on
  PROVE  frames # <<>> => AtRecord(Top)
BY DEF IInv, BehindName

LEMMA NameTypes ==
  ASSUME NEW nm \in Name
  PROVE  /\ nm.on \in BOOLEAN /\ nm.rdata \in BOOLEAN /\ nm.start \in Nat /\ nm.pos \in Nat
         /\ nm.turns \in Nat /\ nm.jumps \in Nat /\ nm.end \in Int /\ nm.here \in Nat
BY DEF Name

(* The invariant after a step inside a name, which moves no loop.          *)
LEMMA NameMoves ==
  ASSUME IInv, name.on, size' = size, frames' = frames, NameAt(name', size), name'.rdata = name.rdata
  PROVE  IInv'
<1>1. frames # <<>> => AtRecord(Top)
  BY ReadingAtRecord
<1> QED
  BY <1>1 DEF IInv, Top

LEMMA NameStartsKeeps ==
  ASSUME IInv, NameStarts
  PROVE  IInv'
<1>1. /\ frames # <<>> /\ Walk(Top.walk).named /\ ~ Top.ready /\ size' = size /\ frames' = frames
      /\ name' = [NoName EXCEPT !.on = TRUE, !.start = Top.pos, !.pos = Top.pos]
  BY DEF NameStarts
<1>2. InSlice(Top, size) /\ Top \in Frame /\ size \in Nat
  BY <1>1, TopIs
<1>3. PICK p \in Nat : p = Top.pos /\ p <= size
  BY <1>2, FrameTypes DEF InSlice
<1>4. Top.walk \in DnsLists
  BY <1>1, <1>2, FrameTypes, WalkSound DEF Sound, Names
<1>5. AtRecord(Top)
  BY <1>1 DEF IInv, BehindName
<1>6. name' = [on |-> TRUE, rdata |-> FALSE, start |-> p, pos |-> p, turns |-> 0, jumps |-> 0,
               end |-> -1, here |-> 0]
  BY <1>1, <1>3 DEF NoName
<1>7. NameAt(name', size)
  <2>1. name' \in Name
    BY <1>6 DEF Name
  <2>2. name'.pos = p /\ name'.start = p /\ name'.here = 0 /\ name'.end = -1
    BY <1>6
  <2>3. name'.pos = name'.start + name'.here
    BY <2>2
  <2> QED
    BY <1>3, <2>1, <2>2, <2>3 DEF NameAt
<1> QED
  BY <1>1, <1>4, <1>5, <1>7 DEF IInv, Top

LEMMA NameLabelKeeps ==
  ASSUME IInv, NEW len \in Lens, NameLabel(len)
  PROVE  IInv'
<1>1. /\ name.on /\ size' = size /\ frames' = frames /\ name.pos + 1 + len <= size
      /\ name' = [name EXCEPT !.pos = @ + 1 + len, !.turns = @ + 1, !.here = Here(1 + len)]
  BY DEF NameLabel
<1>2. name \in Name /\ size \in Nat /\ len \in Nat /\ NameAt(name, size)
  BY WalkAssumption DEF IInv, NameAt
<1>3. /\ name.start \in Nat /\ name.pos \in Nat /\ name.turns \in Nat /\ name.here \in Nat
  BY <1>2, NameTypes
<1>4. PICK p \in Nat, t \in Nat, q \in Nat : p = name.pos + 1 + len /\ t = name.turns + 1 /\ q = Here(1 + len)
  <2>1. Here(1 + len) \in Nat
    <3>1. name.here + (1 + len) \in Nat
      BY <1>2, <1>3
    <3> QED
      BY <1>3, <3>1 DEF Here
  <2>2. name.pos + 1 + len \in Nat /\ name.turns + 1 \in Nat
    BY <1>2, <1>3
  <2> QED
    BY <2>1, <2>2
<1>5. name' = [name EXCEPT !.pos = p, !.turns = t, !.here = q]
  BY <1>1, <1>4
<1>6. /\ name' \in Name /\ name'.on = name.on /\ name'.rdata = name.rdata /\ name'.start = name.start
      /\ name'.pos = p /\ name'.end = name.end /\ name'.here = q
  BY <1>2, <1>5 DEF Name
<1>7. p <= size
  BY <1>1, <1>4
<1>8. CASE name.end = -1
  <2>1. name.pos = name.start + name.here
    BY <1>1, <1>2, <1>8 DEF NameAt
  <2>2. q = name.here + (1 + len)
    BY <1>4, <1>8 DEF Here
  <2>3. p = name.start + q
    BY <1>2, <1>3, <1>4, <2>1, <2>2
  <2>4. NameAt(name', size)
    BY <1>6, <1>7, <1>8, <2>3 DEF NameAt
  <2> QED
    BY <1>1, <1>6, <2>4, NameMoves
<1>9. CASE name.end # -1
  <2>1. q = name.here
    BY <1>4, <1>9 DEF Here
  <2>2. NameAt(name', size)
    BY <1>1, <1>2, <1>6, <1>7, <1>9, <2>1 DEF NameAt
  <2> QED
    BY <1>1, <1>6, <2>2, NameMoves
<1> QED
  BY <1>8, <1>9

LEMMA NameJumpKeeps ==
  ASSUME IInv, NEW target \in 0 .. size, NameJump(target)
  PROVE  IInv'
<1>1. /\ name.on /\ size' = size /\ frames' = frames /\ name.pos + 1 < size /\ target < size
      /\ name' = [name EXCEPT !.pos = target, !.turns = @ + 1, !.jumps = @ + 1,
                              !.end = EndPos, !.here = Here(2)]
  BY DEF NameJump
<1>2. name \in Name /\ size \in Nat /\ NameAt(name, size)
  BY DEF IInv, NameAt
<1>3. /\ name.start \in Nat /\ name.pos \in Nat /\ name.turns \in Nat /\ name.here \in Nat
      /\ name.jumps \in Nat /\ target \in Nat
  BY <1>2, NameTypes
<1>4. EndPos \in Nat /\ Here(2) \in Nat /\ EndPos = name.start + Here(2) /\ EndPos <= size
  <2>1. CASE name.end = -1
    <3>1. name.pos = name.start + name.here
      BY <1>1, <1>2, <2>1 DEF NameAt
    <3>2. EndPos = name.pos + 2 /\ Here(2) = name.here + 2
      BY <2>1 DEF EndPos, Here
    <3> QED
      BY <1>1, <1>2, <1>3, <3>1, <3>2
  <2>2. CASE name.end # -1
    <3>1. EndPos = name.end /\ Here(2) = name.here
      BY <2>2 DEF EndPos, Here
    <3> QED
      BY <1>1, <1>2, <1>3, <2>2, <3>1 DEF NameAt
  <2> QED
    BY <2>1, <2>2
<1>5. PICK t \in Nat, j \in Nat, e \in Nat, q \in Nat :
        t = name.turns + 1 /\ j = name.jumps + 1 /\ e = EndPos /\ q = Here(2)
  <2>1. name.turns + 1 \in Nat /\ name.jumps + 1 \in Nat
    BY <1>3
  <2> QED
    BY <1>4, <2>1
<1>6. name' = [name EXCEPT !.pos = target, !.turns = t, !.jumps = j, !.end = e, !.here = q]
  BY <1>1, <1>5
<1>7. /\ name' \in Name /\ name'.on = name.on /\ name'.rdata = name.rdata /\ name'.start = name.start
      /\ name'.pos = target /\ name'.end = e /\ name'.here = q
  <2>1. e \in Int
    BY <1>5
  <2>2. PICK m : m = [name EXCEPT !.pos = target, !.turns = t, !.jumps = j]
    OBVIOUS
  <2>3. /\ m \in Name /\ m.on = name.on /\ m.rdata = name.rdata /\ m.start = name.start
        /\ m.pos = target
    BY <1>2, <1>3, <2>2 DEF Name
  <2>4. name' = [m EXCEPT !.end = e, !.here = q]
    BY <1>6, <2>2, Zenon
  <2> QED
    BY <2>1, <2>3, <2>4 DEF Name
<1>8. e = name.start + q /\ e <= size /\ e # -1 /\ target <= size
  BY <1>1, <1>2, <1>3, <1>4, <1>5
<1>9. NameAt(name', size)
  BY <1>7, <1>8 DEF NameAt
<1> QED
  BY <1>1, <1>7, <1>9, NameMoves

(* The record goes on just behind the name as it is written there.         *)
LEMMA NameEndsKeeps ==
  ASSUME IInv, NameEnds
  PROVE  IInv'
<1> DEFINE end == IF name.end = -1 THEN name.pos + 1 ELSE name.end
<1>1. /\ name.on /\ size' = size /\ name.pos < size
      /\ frames' = IF name.rdata THEN frames ELSE WithTop([Top EXCEPT !.pos = end, !.ready = TRUE])
      /\ name' = IF name.rdata THEN NoName ELSE [name EXCEPT !.on = FALSE, !.here = Here(1)]
  BY DEF NameEnds
<1>2. name \in Name /\ size \in Nat /\ NameAt(name, size) /\ Stack(frames, size)
  BY DEF IInv, NameAt
<1>3. CASE name.rdata
  <2>1. frames' = frames /\ name' = NoName
    BY <1>1, <1>3
  <2>2. frames # <<>> => AtRecord(frames[Len(frames)])
    BY <1>1, ReadingAtRecord DEF Top
  <2> QED
    BY <1>1, <1>2, <2>1, <2>2, Quiet
<1>4. CASE ~ name.rdata
  <2>1. frames # <<>> /\ Top.walk \in DnsLists
    BY <1>1, <1>4 DEF IInv
  <2>2. InSlice(Top, size) /\ Top \in Frame
    BY <2>1, TopIs
  <2>3. Top.lo = 0 /\ Top.hi = size
    BY <2>1, <2>2 DEF InSlice
  <2>4. name.start \in Nat /\ name.pos \in Nat /\ name.here \in Nat
    BY <1>2, NameTypes
  <2>5. end \in Nat /\ Here(1) \in Nat /\ end = name.start + Here(1) /\ end <= size
    <3>1. CASE name.end = -1
      <4>1. name.pos = name.start + name.here
        BY <1>1, <1>2, <3>1 DEF NameAt
      <4>2. end = name.pos + 1 /\ Here(1) = name.here + 1
        BY <3>1 DEF Here
      <4> HIDE DEF end
      <4> QED
        BY <1>1, <1>2, <2>4, <4>1, <4>2
    <3>2. CASE name.end # -1
      <4>1. end = name.end /\ Here(1) = name.here
        BY <3>2 DEF Here
      <4> HIDE DEF end
      <4> QED
        BY <1>1, <1>2, <2>4, <3>2, <4>1 DEF NameAt
    <3> QED
      BY <3>1, <3>2
  <2>6. PICK e \in Nat, q \in Nat : e = end /\ q = Here(1) /\ e = name.start + q /\ e <= size
    BY <2>5
  <2>7. PICK g : g = [Top EXCEPT !.pos = e, !.ready = TRUE]
    OBVIOUS
  <2>8. frames' = WithTop(g)
    BY <1>1, <1>4, <2>6, <2>7
  <2>9. name' = [name EXCEPT !.on = FALSE, !.here = q]
    BY <1>1, <1>4, <2>6
  <2>10. /\ g \in Frame /\ g.walk = Top.walk /\ g.lo = Top.lo /\ g.hi = Top.hi /\ g.pos = e
         /\ g.ready = TRUE
    BY <2>2, <2>7 DEF Frame
  <2>11. InSlice(g, size)
    BY <1>2, <2>3, <2>6, <2>10 DEF InSlice
  <2>12. /\ name' \in Name /\ name'.on = FALSE /\ name'.start = name.start /\ name'.here = q
    BY <1>2, <2>9 DEF Name
  <2>13. PICK fs : fs = WithTop(g)
    OBVIOUS
  <2>14. Stack(fs, size) /\ fs # <<>> /\ fs[Len(fs)] = g
    BY <1>2, <2>1, <2>10, <2>11, <2>13, TopMoves
  <2>15. BehindName(g, name')
    BY <2>1, <2>6, <2>10, <2>12 DEF BehindName
  <2>16. NameAt(name', size)
    BY <2>12 DEF NameAt
  <2> QED
    BY <1>1, <1>2, <2>8, <2>12, <2>13, <2>14, <2>15, <2>16 DEF IInv, Top
<1> QED
  BY <1>3, <1>4

LEMMA NameFailsKeeps ==
  ASSUME IInv, NameFails
  PROVE  IInv'
<1>1. name.on /\ size' = size /\ name' = NoName /\ frames' = IF name.rdata THEN frames ELSE Outer
  BY DEF NameFails
<1>2. CASE name.rdata
  <2>1. frames # <<>> => AtRecord(frames[Len(frames)])
    BY <1>1, ReadingAtRecord DEF Top
  <2>2. size \in Nat /\ Stack(frames, size)
    BY DEF IInv
  <2> QED
    BY <1>1, <1>2, <2>1, <2>2, Quiet
<1>3. CASE ~ name.rdata
  <2>1. frames # <<>>
    BY <1>1, <1>3 DEF IInv
  <2> QED
    BY <1>1, <1>3, <2>1, OverKeeps
<1> QED
  BY <1>2, <1>3

----------------------------------------------------------------------------
LEMMA NextKeeps ==
  ASSUME IInv, [Next]_vars
  PROVE  IInv'
<1>1. CASE Loop
  BY <1>1, LoopKeeps
<1>2. CASE NameStarts
  BY <1>2, NameStartsKeeps
<1>3. ASSUME NEW len \in Lens, NameLabel(len)
      PROVE  IInv'
  BY <1>3, NameLabelKeeps
<1>4. ASSUME NEW target \in 0 .. size, NameJump(target)
      PROVE  IInv'
  BY <1>4, NameJumpKeeps
<1>5. CASE NameEnds
  BY <1>5, NameEndsKeeps
<1>6. CASE NameFails
  BY <1>6, NameFailsKeeps
<1>7. CASE UNCHANGED vars
  BY <1>7 DEF vars, IInv, Top
<1> QED
  BY <1>1, <1>2, <1>3, <1>4, <1>5, <1>6, <1>7 DEF Next

LEMMA Invariance == Spec => []IInv
<1>1. Init => IInv
  BY InitInv
<1>2. IInv /\ [Next]_vars => IInv'
  BY NextKeeps
<1> QED
  BY <1>1, <1>2, PTL DEF Spec

(* The loops of dissect/ only ever keep well-formed frames and names.      *)
THEOREM WalkTypeCorrect == Spec => []TypeOK
<1>1. IInv => TypeOK
  BY DEF IInv, Stack, NameAt, TypeOK
<1> QED
  BY <1>1, Invariance, PTL

(* Whatever lengths a payload of any size holds, no loop of dissect/ reads *)
(* outside its slice, no slice reaches outside the record it was taken     *)
(* from, and no name outside the message.                                  *)
THEOREM WalkConfined == Spec => []Confined
<1>1. ASSUME IInv
      PROVE  Confined
  <2>1. ASSUME NEW i \in 1 .. Len(frames)
        PROVE  /\ frames[i].lo <= frames[i].pos /\ frames[i].pos <= frames[i].hi
               /\ frames[i].hi <= size
               /\ i < Len(frames) => frames[i].data <= frames[i + 1].lo
                                     /\ frames[i + 1].hi <= frames[i].pos
    <3>1. InSlice(frames[i], size)
      BY <1>1 DEF IInv, Stack
    <3>2. ASSUME i < Len(frames)
          PROVE  Within(frames[i], frames[i + 1])
      <4>1. frames \in Seq(Frame)
        BY <1>1 DEF IInv, Stack
      <4>2. i \in 1 .. (Len(frames) - 1)
        BY <3>2, <4>1
      <4> QED
        BY <1>1, <4>2 DEF IInv, Stack
    <3> QED
      BY <3>1, <3>2 DEF InSlice, Within
  <2>2. name.on => name.pos <= size
    BY <1>1 DEF IInv, NameAt
  <2> QED
    BY <2>1, <2>2 DEF Confined
<1> QED
  BY <1>1, Invariance, PTL

(* The cursor of every loop of dissect/ stands where the protocol says the *)
(* next record starts, or at the end of a slice that cut one short, and    *)
(* behind a name just past the bytes of it that are written there.         *)
THEOREM WalkInStep == Spec => []InStep
<1>1. ASSUME IInv
      PROVE  InStep
  <2>1. ASSUME NEW i \in 1 .. Len(frames)
        PROVE  AtRecord(frames[i]) \/ BehindName(frames[i], name)
    <3>1. frames \in Seq(Frame)
      BY <1>1 DEF IInv, Stack
    <3>2. CASE i < Len(frames)
      <4>1. i \in 1 .. (Len(frames) - 1)
        BY <3>1, <3>2
      <4> QED
        BY <1>1, <4>1 DEF IInv, Stack
    <3>3. CASE i >= Len(frames)
      <4>1. i = Len(frames) /\ frames # <<>>
        BY <3>1, <3>3
      <4> QED
        BY <1>1, <4>1 DEF IInv, Top
    <3> QED
      BY <3>1, <3>2, <3>3
  <2> QED
    BY <2>1 DEF InStep, AtRecord, BehindName
<1> QED
  BY <1>1, Invariance, PTL
=============================================================================
