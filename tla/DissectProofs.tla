--------------------------- MODULE DissectProofs ---------------------------
(***************************************************************************)
(* What the walk of a frame guarantees for every nesting limit, every      *)
(* length of the frame and every choice of protocols.                      *)
(***************************************************************************)
EXTENDS Dissect, FiniteSetTheorems, TLAPS

(* Dissectors that run before the next IP header is read.                  *)
PreIp == LinkDissectors \cup EtherDissectors \cup {"llc", "snap"}

(* Dissectors that run on the payload of the IP header just read.          *)
PostIp == IpDissectors \cup UdpDissectors

(* How far the columns may lag behind the headers read.                    *)
Nesting ==
  /\ depth = 0 => Len(headers) <= 1
  /\ depth > 0 => Len(headers) >= 1
  /\ pkt.ip <= Len(headers)
  /\ pkt.ports <= pkt.ip
  /\ at \in PreIp /\ depth = 0 => Len(headers) = 0
  /\ at \in PreIp /\ depth <= 1 => pkt.ports = None

(* A payload dissector works for the header the columns show.              *)
Dispatched ==
  /\ tuple.hdr <= Len(headers)
  /\ at \in PostIp => tuple.hdr = pkt.ip /\ pkt.ip = Len(headers) /\ pkt.ip > 0

(* A set MF column was set by a header that had MF.                        *)
FlagHasHeader ==
  /\ frag.hdr <= Len(headers)
  /\ pkt.mf => pkt.id \in 1..Len(headers) /\ headers[pkt.id].mf

IInv ==
  /\ TypeOK
  /\ Nesting
  /\ OuterIsOutermost
  /\ Dispatched
  /\ FlowKeyMatchesColumns
  /\ FlagHasHeader
  /\ FragDescribesHeader

----------------------------------------------------------------------------
(* Where the dissectors hand over: only an IP header leads from the ones   *)
(* before it to the ones after it.                                         *)
LEMMA HandOver ==
  /\ \A fn \in Plain : After(fn) \subseteq PreIp \cup Outcomes
  /\ \A fn \in Plain \cap IpDissectors : After(fn) \subseteq Outcomes
  /\ \A fn \in Tunnels : Inside(fn) \subseteq PreIp \cup Outcomes
  /\ \A fn \in Tunnels : RefusedEarly(fn) \subseteq Outcomes
  /\ \A fn \in Guesses : NextGuess(fn) \subseteq Guesses \cup Outcomes
<1>1. \A fn \in Plain : After(fn) \subseteq PreIp \cup Outcomes
  BY DissectAssumption DEF After, PreIp, Outcomes, Plain, LinkDissectors, EtherDissectors
<1>2. \A fn \in Plain \cap IpDissectors : After(fn) \subseteq Outcomes
  BY DEF After, Outcomes, Plain, IpDissectors
<1>3. \A fn \in Tunnels : Inside(fn) \subseteq PreIp \cup Outcomes
  BY DEF Inside, PreIp, Outcomes, Tunnels, UdpDissectors, LinkDissectors, EtherDissectors
<1>4. \A fn \in Tunnels : RefusedEarly(fn) \subseteq Outcomes
  BY DEF RefusedEarly, Outcomes
<1>5. \A fn \in Guesses : NextGuess(fn) \subseteq Guesses \cup Outcomes
  BY DEF NextGuess, Guesses, Outcomes
<1> QED
  BY <1>1, <1>2, <1>3, <1>4, <1>5

(* The kinds of dissector do not overlap, and make up Dissectors.          *)
LEMMA Kinds ==
  /\ PreIp \cap PostIp = {}
  /\ Plain \subseteq PreIp \cup IpDissectors
  /\ Plain \cup PreIp \cup PostIp \cup Guesses \subseteq Dissectors
  /\ Tunnels \subseteq PostIp
  /\ "ipv4" \in PreIp /\ "ipv6" \in PreIp
  /\ "tcp" \in PostIp /\ "udp" \in PostIp /\ "sctp" \in PostIp
  /\ (Outcomes \cup {"row"} \cup Guesses) \cap (PreIp \cup PostIp) = {}
<1> QED
  BY DEF PreIp, PostIp, Plain, Dissectors, Tunnels, Guesses, Outcomes,
         LinkDissectors, EtherDissectors, IpDissectors, UdpDissectors

----------------------------------------------------------------------------
(* The stack only ever holds layer names.                                  *)
LEMMA StackTypes ==
  ASSUME TypeOK, at \in Dissectors
  PROVE  /\ Append(stack, at) \in Seq(Dissectors \cup {"ip-fragment"})
         /\ stack \o Pushed(at) \in Seq(Dissectors \cup {"ip-fragment"})
         /\ stack \o PushedEarly(at) \in Seq(Dissectors \cup {"ip-fragment"})
         /\ stack \o <<at, "ip-fragment">> \in Seq(Dissectors \cup {"ip-fragment"})
         /\ RolledBack(stack, at) = stack
<1> DEFINE L == Dissectors \cup {"ip-fragment"}
<1>1. stack \in Seq(L) /\ at \in L
  BY DEF TypeOK
<1> HIDE DEF L
<1>2. Append(stack, at) \in Seq(L) /\ stack \o <<at>> \in Seq(L) /\ stack \o <<>> \in Seq(L)
  BY <1>1
<1>3. stack \o <<at, "ip-fragment">> \in Seq(L)
  <2>1. "ip-fragment" \in L
    BY DEF L
  <2> QED
    BY <1>1, <2>1
<1>4. SubSeq(Append(stack, at), 1, Len(stack)) = stack
  BY <1>1
<1> QED
  BY <1>2, <1>3, <1>4 DEF L, Pushed, PushedEarly, RolledBack

(* Init establishes the invariant: no header read, nothing recorded.       *)
LEMMA InitIInv == Init => IInv
<1> SUFFICES ASSUME Init PROVE IInv
  OBVIOUS
<1>1. at \in Dissectors \cup Outcomes \cup {"row"}
  BY DissectAssumption, Kinds DEF Init, Outcomes, PreIp
<1>2. /\ rem \in 0..MaxHeaders
      /\ depth \in 0..MaxDepth
      /\ stack \in Seq(Dissectors \cup {"ip-fragment"})
      /\ headers \in Seq(Header) /\ accepted \in Seq(Guesses)
  BY DissectAssumption DEF Init
<1>3. padded \in BOOLEAN /\ defer \in BOOLEAN /\ app_done \in BOOLEAN
  BY Zenon DEF Init
<1>4. /\ tuple \in [hdr : Nat, ports : BOOLEAN]
      /\ frag \in [hdr : Nat, mf : BOOLEAN, off : BOOLEAN, id : Nat]
      /\ pkt \in Packet
  BY DEF Init, Packet, None
<1>5. row \in [made : BOOLEAN, tunnel_depth : 0..MaxDepth, malformed : BOOLEAN,
               tcp_range : {"none", "payload", "other bytes"}]
  BY DissectAssumption DEF Init
<1>6. TypeOK
  BY <1>1, <1>2, <1>3, <1>4, <1>5, Zenon DEF TypeOK
<1>7. /\ Len(headers) = 0 /\ depth = 0 /\ tuple.hdr = 0 /\ frag.hdr = 0
      /\ pkt.ip = 0 /\ pkt.ports = 0 /\ pkt.outer_ip = 0 /\ pkt.outer_ports = 0 /\ ~ pkt.mf
  BY DEF Init, None
<1>8. Nesting /\ Dispatched /\ FlagHasHeader
  <2>1. at \notin PostIp
    BY DissectAssumption, Kinds DEF Init, Outcomes, PreIp
  <2> QED
    BY <1>7, <2>1 DEF Nesting, Dispatched, FlagHasHeader, None
<1>9. OuterIsOutermost /\ FlowKeyMatchesColumns /\ FragDescribesHeader
  <2>1. DOMAIN headers = {}
    BY DEF Init
  <2> QED
    BY <1>7, <2>1 DEF OuterIsOutermost, FlowKeyMatchesColumns, FragDescribesHeader, None
<1> QED
  BY <1>6, <1>8, <1>9 DEF IInv

(* A step that records nothing about headers and goes on on the same side  *)
(* of the IP header, or ends the walk, keeps all but the types.            *)
LEMMA Quiet ==
  ASSUME IInv, TypeOK',
         UNCHANGED <<depth, tuple, frag, pkt, headers>>,
         at' \in PreIp => at \in PreIp,
         at' \in PostIp => at \in PostIp
  PROVE  IInv'
<1> USE DEF IInv
<1>1. Nesting'
  BY DEF Nesting
<1>2. OuterIsOutermost'
  BY DEF OuterIsOutermost
<1>3. Dispatched'
  BY DEF Dispatched
<1>4. FlowKeyMatchesColumns'
  BY DEF FlowKeyMatchesColumns
<1>5. FlagHasHeader'
  BY DEF FlagHasHeader
<1>6. FragDescribesHeader'
  BY DEF FragDescribesHeader
<1> QED
  BY <1>1, <1>2, <1>3, <1>4, <1>5, <1>6

(* The steps that only move on: their types, and that they are quiet.      *)
LEMMA QuietSteps ==
  ASSUME IInv,
         \/ Walk \/ CutShort \/ IpRefused \/ TransportCut \/ TunnelRefused
         \/ TooDeep \/ NoMatch \/ Rejects \/ Accepts \/ Finish
  PROVE  IInv'
<1> DEFINE L == Dissectors \cup {"ip-fragment"}
<1>1. TypeOK
  BY DEF IInv
<1>2. UNCHANGED <<depth, tuple, frag, pkt, headers, padded, defer>>
  BY DEF Walk, CutShort, IpRefused, TransportCut, TunnelRefused, TooDeep, NoMatch, Rejects,
         Accepts, Finish, ctxVars
<1>3. /\ at \in Dissectors \cup Outcomes
      /\ at' \in Dissectors \cup Outcomes \cup {"row"}
      /\ at' \in PreIp => at \in PreIp
      /\ at' \in PostIp => at \in PostIp
  <2>1. CASE Walk
    <3>1. at \in Plain /\ at' \in After(at)
      BY <2>1 DEF Walk
    <3>2. at' \in PreIp \cup Outcomes
      BY <3>1, HandOver
    <3>3. at \in IpDissectors => at' \in Outcomes
      BY <3>1, HandOver
    <3> QED
      BY <3>1, <3>2, <3>3, Kinds
  <2>2. CASE CutShort \/ TransportCut \/ IpRefused \/ TooDeep
    <3>1. at \in Dissectors /\ at' \in Outcomes
      BY <2>2, Kinds DEF CutShort, TransportCut, IpRefused, TooDeep, Outcomes
    <3> QED
      BY <3>1, Kinds
  <2>3. CASE TunnelRefused
    <3>1. at \in Tunnels /\ at' \in Outcomes
      BY <2>3, HandOver DEF TunnelRefused
    <3> QED
      BY <3>1, Kinds
  <2>4. CASE NoMatch \/ Rejects \/ Accepts
    <3>1. at \in Guesses /\ at' \in Guesses \cup Outcomes
      BY <2>4, HandOver DEF NoMatch, Rejects, Accepts, Outcomes
    <3> QED
      BY <3>1, Kinds
  <2>5. CASE Finish
    BY <2>5, Kinds DEF Finish
  <2> QED
    BY <2>1, <2>2, <2>3, <2>4, <2>5
<1>4. stack' \in Seq(L)
  <2>1. CASE at \in Dissectors
    BY <1>1, <2>1, StackTypes
       DEF Walk, CutShort, IpRefused, TransportCut, TunnelRefused, TooDeep, StackTooDeep,
           NoMatch, Rejects, Accepts, Finish, ctxVars, TypeOK
  <2>2. CASE at \in Outcomes
    <3>1. UNCHANGED stack
      BY <2>2, Kinds
         DEF Walk, CutShort, IpRefused, TransportCut, TunnelRefused, TooDeep, NoMatch, Rejects,
             Accepts, Finish, ctxVars, StackTooDeep, Outcomes, Plain, Tunnels, Guesses,
             LinkDissectors, EtherDissectors, IpDissectors, UdpDissectors
    <3> QED
      BY <1>1, <3>1 DEF TypeOK
  <2> QED
    BY <1>3, <2>1, <2>2
<1>5. rem' \in 0..MaxHeaders
  <2> DEFINE R == 0..MaxHeaders
  <2>1. rem \in R /\ (rem > 0 => rem - 1 \in R)
    <3>1. rem \in R
      BY <1>1, Zenon DEF TypeOK
    <3>2. MaxHeaders \in Nat
      BY DissectAssumption
    <3> QED
      BY <3>1, <3>2
  <2>2. rem' = rem \/ (rem > 0 /\ rem' = rem - 1)
    BY DEF Walk, CutShort, IpRefused, TransportCut, TunnelRefused, TooDeep, NoMatch, Rejects,
           Accepts, Finish
  <2> QED
    BY <2>1, <2>2
<1>6. accepted' \in Seq(Guesses)
  <2>1. accepted \in Seq(Guesses)
    BY <1>1 DEF TypeOK
  <2>2. accepted' = accepted \/ (at \in Guesses /\ accepted' = Append(accepted, at))
    BY DEF Walk, CutShort, IpRefused, TransportCut, TunnelRefused, TooDeep, NoMatch, Rejects,
           Accepts, Finish
  <2> QED
    BY <2>1, <2>2
<1>7. app_done' \in BOOLEAN
  BY <1>1
     DEF Walk, CutShort, IpRefused, TransportCut, TunnelRefused, TooDeep, NoMatch, Rejects,
         Accepts, Finish, ctxVars, TypeOK
<1>8. row' \in [made : BOOLEAN, tunnel_depth : 0..MaxDepth, malformed : BOOLEAN,
                tcp_range : {"none", "payload", "other bytes"}]
  <2>1. CASE Finish
    BY <1>1, <2>1 DEF Finish, TcpPayloadRange, TypeOK
  <2>2. CASE UNCHANGED row
    BY <1>1, <2>2 DEF TypeOK
  <2> QED
    BY <2>1, <2>2 DEF Walk, CutShort, IpRefused, TransportCut, TunnelRefused, TooDeep, NoMatch,
                      Rejects, Accepts
<1>9. TypeOK'
  BY <1>1, <1>2, <1>3, <1>4, <1>5, <1>6, <1>7, <1>8 DEF TypeOK
<1> QED
  BY <1>2, <1>3, <1>9, Quiet

----------------------------------------------------------------------------
(* The ports of the header the walk is at.                                 *)
LEMMA TransportStep ==
  ASSUME IInv, NEW payload \in BOOLEAN, Tcp(payload) \/ Udp(payload) \/ Sctp
  PROVE  IInv'
<1>1. TypeOK
  BY DEF IInv
<1>2. /\ at \in PostIp /\ at \in Dissectors
      /\ stack' = Append(stack, at)
      /\ UNCHANGED <<rem, defer, depth, frag, row, headers, accepted>>
  BY Kinds DEF Tcp, Udp, Sctp
<1>3. /\ tuple.hdr \in Nat /\ tuple' = [hdr |-> tuple.hdr, ports |-> TRUE]
      /\ tuple.hdr = pkt.ip /\ pkt.ip = Len(headers) /\ pkt.ip > 0
  BY <1>1, <1>2 DEF Tcp, Udp, Sctp, KeyWithPorts, SetTuple, TypeOK, IInv, Dispatched
<1>4. /\ pkt' \in Packet
      /\ pkt'.ports = pkt.ip
      /\ pkt'.ip = pkt.ip /\ pkt'.outer_ip = pkt.outer_ip
      /\ pkt'.outer_ports = pkt.outer_ports /\ pkt'.mf = pkt.mf /\ pkt'.id = pkt.id
  BY <1>1, <1>3 DEF Tcp, Udp, Sctp, TypeOK, Packet
<1>5. /\ padded' \in BOOLEAN
      /\ app_done' \in BOOLEAN
      /\ at' \in Outcomes \cup Guesses \cup UdpDissectors
  <2>1. CASE Tcp(payload)
    BY <1>1, <2>1 DEF Tcp, Dispatch, TypeOK, Outcomes, Guesses
  <2>2. CASE Udp(payload)
    BY <1>1, <2>2, DissectAssumption DEF Udp, Dispatch, TypeOK, Outcomes, Guesses
  <2>3. CASE Sctp
    BY <1>1, <2>3 DEF Sctp, TypeOK, Outcomes
  <2> QED
    BY <2>1, <2>2, <2>3
<1>6. at' \notin PreIp /\ at' \in Dissectors \cup Outcomes
  BY <1>5, Kinds DEF PostIp
<1>7. TypeOK'
  BY <1>1, <1>2, <1>3, <1>4, <1>5, <1>6, StackTypes DEF TypeOK
<1>8. Nesting'
  BY <1>1, <1>2, <1>3, <1>4, <1>6 DEF Nesting, IInv, TypeOK, Packet
<1>9. OuterIsOutermost'
  BY <1>1, <1>2, <1>3, <1>4 DEF OuterIsOutermost, IInv, None, TypeOK, Packet
<1>10. Dispatched'
  BY <1>2, <1>3, <1>4 DEF Dispatched, IInv
<1>11. FlowKeyMatchesColumns'
  BY <1>1, <1>2, <1>3, <1>4 DEF FlowKeyMatchesColumns, IInv, None, TypeOK, Packet
<1>12. FlagHasHeader' /\ FragDescribesHeader'
  BY <1>2, <1>4 DEF FlagHasHeader, FragDescribesHeader, IInv
<1> QED
  BY <1>7, <1>8, <1>9, <1>10, <1>11, <1>12 DEF IInv

(* Entering a tunnel.                                                      *)
LEMMA EnterStep ==
  ASSUME IInv, Enter
  PROVE  IInv'
<1>1. TypeOK
  BY DEF IInv
<1>2. /\ at \in Tunnels /\ at \in PostIp /\ at \in Dissectors
      /\ at' \in PreIp \cup Outcomes
      /\ stack' = Append(stack, at)
      /\ UNCHANGED <<rem, padded, defer, tuple, frag, app_done, row, headers, accepted>>
  BY Kinds, HandOver DEF Enter
<1>3. depth \in 0..MaxDepth /\ depth' = depth + 1 /\ depth' \in 1..MaxDepth
  <2>1. depth \in 0..MaxDepth
    BY <1>1 DEF TypeOK
  <2>2. depth < MaxDepth /\ depth' = depth + 1
    BY DEF Enter, MayDescend
  <2> QED
    BY <2>1, <2>2, DissectAssumption
<1>4. /\ tuple.hdr = pkt.ip /\ pkt.ip = Len(headers) /\ pkt.ip > 0
      /\ pkt.ip \in Nat /\ pkt.ports \in Nat
  BY <1>1, <1>2 DEF IInv, Dispatched, TypeOK, Packet
<1>5. pkt' \in Packet /\ pkt'.mf = pkt.mf /\ pkt'.id = pkt.id
  BY <1>1, <1>4 DEF Enter, Promoted, TypeOK, Packet, None
<1>6. ASSUME depth = 0
      PROVE  Nesting' /\ OuterIsOutermost' /\ Dispatched' /\ FlowKeyMatchesColumns'
  <2>1. pkt.ip = 1
    <3>1. Len(headers) <= 1
      BY <1>6, Zenon DEF IInv, Nesting
    <3>2. headers \in Seq(Header)
      BY <1>1, Zenon DEF TypeOK
    <3>3. Len(headers) \in Nat
      BY <3>2
    <3>4. \A x, y \in Nat : x = y /\ x > 0 /\ y <= 1 => x = 1
      OBVIOUS
    <3> QED
      BY <1>4, <3>1, <3>3, <3>4, Zenon
  <2>2. pkt.outer_ip = 0 /\ pkt.ports \in {0, 1}
    BY <1>4, <1>6, <2>1 DEF IInv, OuterIsOutermost, None
  <2>3. pkt'.ip = 0 /\ pkt'.ports = 0 /\ pkt'.outer_ip = 1 /\ pkt'.outer_ports = pkt.ports
    BY <1>1, <2>1, <2>2 DEF Enter, Promoted, TypeOK, Packet, None
  <2>4. Nesting'
    BY <1>2, <1>3, <1>4, <1>6, <2>1, <2>3 DEF Nesting, None
  <2>5. OuterIsOutermost'
    BY <1>3, <1>6, <2>2, <2>3 DEF OuterIsOutermost, None
  <2>6. Dispatched'
    BY <1>2, Kinds DEF Dispatched, IInv
  <2>7. FlowKeyMatchesColumns'
    <3>1. ASSUME NEW h \in DOMAIN headers, headers[h].off
          PROVE  h \notin {tuple.hdr, pkt'.ports, pkt'.outer_ports}
      <4>1. h # 0
        <5>1. headers \in Seq(Header)
          BY <1>1, Zenon DEF TypeOK
        <5> QED
          BY <5>1
      <4>2. h \notin {tuple.hdr, pkt.ports, pkt.outer_ports}
        BY <3>1, Zenon DEF IInv, FlowKeyMatchesColumns
      <4> QED
        BY <2>3, <4>1, <4>2
    <3> QED
      BY <1>2, <1>3, <1>4, <1>6, <2>1, <2>3, <3>1 DEF FlowKeyMatchesColumns, None
  <2> QED
    BY <2>4, <2>5, <2>6, <2>7
<1>7. ASSUME depth > 0
      PROVE  Nesting' /\ OuterIsOutermost' /\ Dispatched' /\ FlowKeyMatchesColumns'
  <2>1. pkt' = pkt
    BY <1>7 DEF Enter, Promoted, None, IInv, OuterIsOutermost
  <2>2. Nesting'
    BY <1>2, <1>3, <1>4, <1>7, <2>1 DEF Nesting, IInv
  <2>3. OuterIsOutermost'
    BY <1>3, <1>7, <2>1 DEF OuterIsOutermost, IInv
  <2>4. Dispatched'
    BY <1>2, Kinds DEF Dispatched, IInv
  <2>5. FlowKeyMatchesColumns'
    BY <1>2, <1>3, <1>7, <2>1 DEF FlowKeyMatchesColumns, IInv
  <2> QED
    BY <2>2, <2>3, <2>4, <2>5
<1>8. Nesting' /\ OuterIsOutermost' /\ Dispatched' /\ FlowKeyMatchesColumns'
  BY <1>3, <1>6, <1>7
<1>9. FlagHasHeader' /\ FragDescribesHeader'
  BY <1>2, <1>5 DEF FlagHasHeader, FragDescribesHeader, IInv
<1>10. TypeOK'
  <2>1. at' \in Dissectors \cup Outcomes /\ depth' \in 0..MaxDepth
    BY <1>2, <1>3, Kinds
  <2>2. stack' \in Seq(Dissectors \cup {"ip-fragment"})
    BY <1>1, <1>2, StackTypes
  <2> QED
    BY <1>1, <1>2, <1>5, <2>1, <2>2 DEF TypeOK
<1> QED
  BY <1>8, <1>9, <1>10 DEF IInv

(* Reading an IP header: it is the next one, and nothing refers to it yet. *)
LEMMA IpStep ==
  ASSUME IInv, NEW fields \in BOOLEAN, NEW mf \in BOOLEAN, NEW off \in BOOLEAN,
         Ip(fields, mf, off)
  PROVE  IInv'
<1> DEFINE n == Len(headers)
           h == n + 1
           p == IF fields THEN [pkt EXCEPT !.ip = h, !.mf = mf, !.id = h]
                          ELSE [pkt EXCEPT !.ip = h]
           new == [fields |-> fields, mf |-> mf, off |-> off]
<1>1. TypeOK
  BY DEF IInv
<1>2. /\ at \in PreIp /\ at \in Dissectors
      /\ ~ fields => ~ mf /\ ~ off
      /\ UNCHANGED <<defer, depth, app_done, row, accepted>>
      /\ headers' = Append(headers, new)
      /\ pkt' = p
  BY Kinds DEF Ip, IpFails, IpReads
<1>3. /\ n \in Nat /\ h \in Nat /\ Len(headers') = h
      /\ headers' \in Seq(Header)
      /\ DOMAIN headers' = 1..h /\ DOMAIN headers = 1..n
      /\ headers'[h] = new
      /\ \A i \in 1..n : headers'[i] = headers[i]
  <2>1. headers \in Seq(Header) /\ new \in Header
    BY <1>1 DEF TypeOK, Header
  <2> HIDE DEF new
  <2> QED
    BY <1>2, <2>1
<1>4. /\ pkt \in Packet /\ p \in Packet
      /\ p.ip = h /\ p.ports = pkt.ports
      /\ p.outer_ip = pkt.outer_ip /\ p.outer_ports = pkt.outer_ports
      /\ fields => p.mf = mf /\ p.id = h
      /\ ~ fields => p.mf = pkt.mf /\ p.id = pkt.id
  <2>1. pkt \in Packet
    BY <1>1 DEF TypeOK
  <2> QED
    BY <2>1, <1>3 DEF Packet
<1>5. \/ /\ at' \in Outcomes /\ UNCHANGED <<padded, tuple, frag>>
         /\ stack' = Append(stack, at)
      \/ /\ padded' \in {padded, TRUE}
         /\ AfterIp(h, p, off)
  BY DEF Ip, IpFails, IpReads, Outcomes
<1>6. /\ at' \in Outcomes \cup IpDissectors
      /\ tuple' = tuple \/ (~ off /\ tuple' = [hdr |-> h, ports |-> FALSE])
      /\ at' \in IpDissectors => tuple'.hdr = h
  <2> HIDE DEF p, h
  <2>1. CASE at' \in Outcomes /\ UNCHANGED tuple
    BY <2>1, Kinds DEF PostIp
  <2>2. CASE AfterIp(h, p, off)
    <3>1. CASE off
      BY <2>2, <3>1, Kinds DEF AfterIp, Outcomes, PostIp
    <3>2. CASE ~ off
      <4>1. at' \in IpProtos \cup {"Unsupported"} /\ tuple' = [hdr |-> h, ports |-> FALSE]
        BY <2>2, <3>2 DEF AfterIp, SetTuple
      <4>2. IpProtos \subseteq IpDissectors /\ "Unsupported" \in Outcomes
        BY DissectAssumption DEF Outcomes
      <4> QED
        BY <3>2, <4>1, <4>2
    <3> QED
      BY <3>1, <3>2
  <2> QED
    BY <1>5, <2>1, <2>2
<1>7. \/ frag' = frag
      \/ (p.mf \/ off) /\ frag' = [hdr |-> h, mf |-> p.mf, off |-> off, id |-> p.id]
  BY <1>5 DEF AfterIp, Meta
<1> HIDE DEF p, new
<1>8. TypeOK'
  <2>1. rem' \in 0..MaxHeaders
    <3>1. rem \in 0..MaxHeaders /\ MaxHeaders \in Nat
      BY <1>1, DissectAssumption DEF TypeOK
    <3>2. rem > 0 /\ rem' = rem - 1
      BY DEF Ip
    <3> QED
      BY <3>1, <3>2
  <2>2. stack' \in Seq(Dissectors \cup {"ip-fragment"})
    BY <1>1, <1>2, <1>5, StackTypes DEF AfterIp
  <2>3. padded' \in BOOLEAN
    BY <1>1, <1>5 DEF TypeOK
  <2>4. tuple' \in [hdr : Nat, ports : BOOLEAN]
    <3>1. tuple \in [hdr : Nat, ports : BOOLEAN]
      BY <1>1, Zenon DEF TypeOK
    <3>2. [hdr |-> h, ports |-> FALSE] \in [hdr : Nat, ports : BOOLEAN]
      BY <1>3
    <3> QED
      BY <1>6, <3>1, <3>2, Zenon
  <2>5. frag' \in [hdr : Nat, mf : BOOLEAN, off : BOOLEAN, id : Nat]
    <3>1. frag \in [hdr : Nat, mf : BOOLEAN, off : BOOLEAN, id : Nat]
      BY <1>1 DEF TypeOK
    <3>2. p.mf \in BOOLEAN /\ p.id \in Nat
      BY <1>4 DEF Packet
    <3> QED
      BY <1>3, <1>7, <3>1, <3>2
  <2>6. at' \in Dissectors \cup Outcomes
    BY <1>6, Kinds DEF PostIp
  <2> QED
    BY <1>1, <1>2, <1>3, <1>4, <2>1, <2>2, <2>3, <2>4, <2>5, <2>6 DEF TypeOK
<1>9. /\ pkt.ip \in Nat /\ pkt.ports \in Nat /\ pkt.ip <= n /\ pkt.ports <= n
      /\ tuple.hdr \in Nat /\ tuple.hdr <= n
      /\ frag.hdr \in Nat /\ frag.hdr <= n
  <2>1. /\ pkt.ip \in Nat /\ pkt.ports \in Nat /\ tuple.hdr \in Nat /\ frag.hdr \in Nat
    BY <1>1 DEF TypeOK, Packet
  <2>2. pkt.ip <= n /\ pkt.ports <= pkt.ip /\ tuple.hdr <= n /\ frag.hdr <= n
    BY Zenon DEF IInv, Nesting, Dispatched, FlagHasHeader
  <2> QED
    BY <1>3, <2>1, <2>2
<1>10. /\ depth \in Nat
       /\ depth = 0 => n = 0
       /\ depth > 0 => n >= 1
       /\ depth <= 1 => pkt.ports = 0
  <2>1. depth \in Nat
    <3>1. depth \in 0..MaxDepth
      BY <1>1, Zenon DEF TypeOK
    <3> QED
      BY <3>1, DissectAssumption
  <2> QED
    BY <1>2, <1>3, <2>1 DEF IInv, Nesting, None
<1>11. Nesting'
  <2>1. at' \notin PreIp
    BY <1>6, Kinds DEF PostIp
  <2> QED
    BY <1>2, <1>3, <1>4, <1>9, <1>10, <2>1 DEF Nesting
<1>12. OuterIsOutermost'
  <2>1. /\ pkt.outer_ip = IF depth > 0 THEN 1 ELSE 0
        /\ pkt.outer_ports \in {0, pkt.outer_ip}
        /\ depth > 0 => pkt.ports # 1
    BY DEF IInv, OuterIsOutermost, None
  <2> QED
    BY <1>2, <1>3, <1>4, <1>9, <1>10, <2>1 DEF OuterIsOutermost, None
<1>13. Dispatched'
  <2>1. at' \in PostIp => tuple'.hdr = h
    BY <1>6, Kinds
  <2>2. tuple'.hdr <= h
    BY <1>3, <1>6, <1>9
  <2> QED
    BY <1>2, <1>3, <1>4, <2>1, <2>2 DEF Dispatched
<1>14. FlowKeyMatchesColumns'
  <2>1. depth = 0 => tuple'.hdr \in {0, h}
    BY <1>3, <1>6, <1>9, <1>10
  <2>2. tuple'.hdr = h => (tuple'.ports <=> pkt.ports = h)
    BY <1>3, <1>6, <1>9
  <2>3. ASSUME NEW i \in 1..h, headers'[i].off
        PROVE  i \notin {tuple'.hdr, pkt.ports, pkt.outer_ports}
    <3>1. CASE i = h
      <4>1. off
        BY <1>3, <2>3, <3>1 DEF new
      <4>2. tuple' = tuple
        BY <1>6, <4>1
      <4>3. pkt.outer_ports # h
        BY <1>3, <1>9, <1>10 DEF IInv, OuterIsOutermost, None
      <4> QED
        BY <1>3, <1>9, <3>1, <4>2, <4>3
    <3>2. CASE i \in 1..n
      <4>1. headers[i].off
        BY <1>3, <2>3, <3>2
      <4>2. i \notin {tuple.hdr, pkt.ports, pkt.outer_ports}
        BY <1>3, <3>2, <4>1 DEF IInv, FlowKeyMatchesColumns
      <4> QED
        BY <1>3, <1>6, <3>2, <4>2
    <3> QED
      BY <1>3, <3>1, <3>2
  <2> QED
    BY <1>2, <1>3, <1>4, <2>1, <2>2, <2>3 DEF FlowKeyMatchesColumns, None
<1>15. FlagHasHeader'
  <2>1. frag'.hdr <= h
    BY <1>3, <1>7, <1>9
  <2>2. ASSUME p.mf PROVE p.id \in 1..h /\ headers'[p.id].mf
    <3>1. CASE fields
      <4>1. p.id = h /\ mf /\ headers'[h] = new
        BY <1>3, <1>4, <2>2, <3>1
      <4>2. new.mf
        BY <4>1 DEF new
      <4>3. h \in 1..h
        BY <1>3
      <4> HIDE DEF h
      <4> QED
        BY <4>1, <4>2, <4>3
    <3>2. CASE ~ fields
      <4>1. pkt.mf
        BY <1>4, <2>2, <3>2
      <4>2. pkt.id \in 1..n /\ headers[pkt.id].mf
        BY <4>1 DEF IInv, FlagHasHeader
      <4> QED
        BY <1>3, <1>4, <3>2, <4>2
    <3> QED
      BY <3>1, <3>2
  <2> QED
    BY <1>2, <1>3, <2>1, <2>2 DEF FlagHasHeader
<1>16. FragDescribesHeader'
  <2>1. CASE frag' = frag
    <3>1. CASE frag.hdr = 0
      BY <2>1, <3>1 DEF FragDescribesHeader, None
    <3>2. CASE frag.hdr # 0
      <4>1. frag.hdr \in 1..n /\ headers'[frag.hdr] = headers[frag.hdr]
        BY <1>3, <1>9, <3>2
      <4>2. \A i \in 1..(frag.hdr - 1) : headers'[i] = headers[i]
        BY <1>3, <4>1
      <4> QED
        BY <2>1, <3>2, <4>1, <4>2 DEF FragDescribesHeader, IInv, None
    <3> QED
      BY <3>1, <3>2
  <2>2. CASE (p.mf \/ off) /\ frag' = [hdr |-> h, mf |-> p.mf, off |-> off, id |-> p.id]
    <3>1. CASE fields
      BY <1>3, <1>4, <2>2, <3>1 DEF FragDescribesHeader, new, None
    <3>2. CASE ~ fields
      <4>1. pkt.mf /\ ~ off
        BY <1>2, <1>4, <2>2, <3>2
      <4>2. pkt.id \in 1..n /\ headers[pkt.id].mf
        BY <4>1 DEF IInv, FlagHasHeader
      <4>3. headers'[pkt.id].mf /\ h - 1 = n
        BY <1>3, <4>2
      <4> QED
        BY <1>3, <1>4, <2>2, <3>2, <4>1, <4>2, <4>3 DEF FragDescribesHeader, new, None
    <3> QED
      BY <3>1, <3>2
  <2> QED
    BY <1>7, <2>1, <2>2
<1> QED
  BY <1>8, <1>11, <1>12, <1>13, <1>14, <1>15, <1>16 DEF IInv

----------------------------------------------------------------------------
(* Every step of the walk preserves the invariant.                         *)
LEMMA NextIInv == IInv /\ [Next]_vars => IInv'
<1> SUFFICES ASSUME IInv, [Next]_vars PROVE IInv'
  OBVIOUS
<1>1. CASE UNCHANGED vars
  <2>1. TypeOK'
    BY <1>1 DEF IInv, TypeOK, vars
  <2> QED
    BY <1>1, <2>1, Quiet DEF vars
<1>2. ASSUME NEW fields \in BOOLEAN, NEW mf \in BOOLEAN, NEW off \in BOOLEAN,
             Ip(fields, mf, off)
      PROVE  IInv'
  BY <1>2, IpStep
<1>3. ASSUME NEW payload \in BOOLEAN, Tcp(payload) \/ Udp(payload) \/ Sctp
      PROVE  IInv'
  BY <1>3, TransportStep
<1>4. CASE Enter
  BY <1>4, EnterStep
<1>5. CASE \/ Walk \/ CutShort \/ IpRefused \/ TransportCut \/ TunnelRefused
           \/ TooDeep \/ NoMatch \/ Rejects \/ Accepts \/ Finish
  BY <1>5, QuietSteps
<1> QED
  BY <1>1, <1>2, <1>3, <1>4, <1>5, Zenon DEF Next

(* The invariant holds of every walk.                                      *)
LEMMA WalkInvariant == Spec => []IInv
  BY InitIInv, NextIInv, PTL DEF Spec

(* Every frame: the variables keep their types, and tunnels nest at most   *)
(* MAX_DEPTH deep, whatever the frame nests.                               *)
THEOREM TypeCorrect == Spec => []TypeOK
<1>1. IInv => TypeOK
  BY DEF IInv
<1> QED
  BY <1>1, WalkInvariant, PTL

(* Every frame: outer columns show the outermost IP header and no others   *)
(* do, through any nesting of tunnels and any early end.                   *)
THEOREM OuterCorrect == Spec => []OuterIsOutermost
<1>1. IInv => OuterIsOutermost
  BY DEF IInv
<1> QED
  BY <1>1, WalkInvariant, PTL

(* Every frame: the flow key and the address columns agree, and fragments  *)
(* that are not the first give neither ports nor a key.                    *)
THEOREM FlowKeyCorrect == Spec => []FlowKeyMatchesColumns
<1>1. IInv => FlowKeyMatchesColumns
  BY DEF IInv
<1> QED
  BY <1>1, WalkInvariant, PTL

(* Every frame: fragment metadata is that of the header it came in, except *)
(* for an IPv6 header inside one with MF set.                              *)
THEOREM FragCorrect == Spec => []FragDescribesHeader
<1>1. IInv => FragDescribesHeader
  BY DEF IInv
<1> QED
  BY <1>1, WalkInvariant, PTL
----------------------------------------------------------------------------
(* The layers named: which of them are tunnels, and whether any is that of *)
(* an application.                                                         *)
TunnelLayers(s) == {i \in DOMAIN s : s[i] \in Tunnels}
NoGuess(s) == \A i \in DOMAIN s : s[i] \notin Guesses

(* The strengthening of GuessLeavesNoLayer and DepthIsOnStack: until an    *)
(* application accepts, and the walk is over, none is named, and a row is  *)
(* made once.                                                              *)
Pending ==
  /\ at \notin {"Ok", "row"} => accepted = <<>>
  /\ accepted = <<>> => NoGuess(stack)
  /\ row.made => at = "row"

StackInv == DepthIsOnStack /\ GuessLeavesNoLayer /\ Pending

(* A layer more is a tunnel more exactly if it is one.                     *)
LEMMA OneMoreLayer ==
  ASSUME NEW S, NEW s \in Seq(S), NEW x \in S
  PROVE  /\ x \notin Tunnels => TunnelLayers(Append(s, x)) = TunnelLayers(s)
         /\ x \in Tunnels =>
              Cardinality(TunnelLayers(Append(s, x))) = Cardinality(TunnelLayers(s)) + 1
         /\ x \notin Guesses /\ NoGuess(s) => NoGuess(Append(s, x))
<1>1. /\ DOMAIN Append(s, x) = DOMAIN s \cup {Len(s) + 1}
      /\ Append(s, x)[Len(s) + 1] = x
      /\ \A i \in DOMAIN s : Append(s, x)[i] = s[i]
      /\ Len(s) + 1 \notin DOMAIN s
  OBVIOUS
<1>2. x \notin Tunnels => TunnelLayers(Append(s, x)) = TunnelLayers(s)
  BY <1>1 DEF TunnelLayers
<1>3. ASSUME x \in Tunnels
      PROVE  Cardinality(TunnelLayers(Append(s, x))) = Cardinality(TunnelLayers(s)) + 1
  <2>1. TunnelLayers(Append(s, x)) = TunnelLayers(s) \cup {Len(s) + 1}
    BY <1>1, <1>3 DEF TunnelLayers
  <2>2. IsFiniteSet(TunnelLayers(s))
    <3>1. IsFiniteSet(1..Len(s)) /\ TunnelLayers(s) \in SUBSET (1..Len(s))
      BY FS_Interval DEF TunnelLayers
    <3> QED
      BY <3>1, FS_Subset
  <2>3. Len(s) + 1 \notin TunnelLayers(s)
    BY <1>1 DEF TunnelLayers
  <2> QED
    BY <2>1, <2>2, <2>3, FS_AddElement
<1>4. x \notin Guesses /\ NoGuess(s) => NoGuess(Append(s, x))
  BY <1>1 DEF NoGuess
<1> QED
  BY <1>2, <1>3, <1>4

(* What the steps that neither enter a tunnel, accept nor make the row do  *)
(* to the stack: they name no tunnel and no application.                   *)
LEMMA OrdinaryLayers ==
  ASSUME TypeOK,
         \/ Walk \/ CutShort \/ IpRefused \/ TransportCut \/ TunnelRefused
         \/ TooDeep \/ NoMatch \/ Rejects
         \/ \E fields, mf, off \in BOOLEAN : Ip(fields, mf, off)
         \/ \E payload \in BOOLEAN : Tcp(payload) \/ Udp(payload)
         \/ Sctp
  PROVE  /\ TunnelLayers(stack') = TunnelLayers(stack)
         /\ NoGuess(stack) => NoGuess(stack')
         /\ at \notin Outcomes \cup {"row"}
         /\ UNCHANGED <<depth, row, accepted>>
<1> DEFINE L == Dissectors \cup {"ip-fragment"}
           Ordinary == Plain \cup {"ipv4", "ipv6", "tcp", "udp", "sctp"}
           Kept(s) == /\ TunnelLayers(s) = TunnelLayers(stack)
                      /\ NoGuess(stack) => NoGuess(s)
<1>1. stack \in Seq(L)
  BY DEF TypeOK
<1>2. /\ \A x \in Ordinary \cup {"ip-fragment"} : x \in L /\ x \notin Tunnels /\ x \notin Guesses
      /\ \A x \in Ordinary \cup Tunnels \cup Guesses : x \notin Outcomes \cup {"row"}
  BY DEF Plain, Tunnels, Guesses, Outcomes, Dissectors, LinkDissectors, EtherDissectors,
         IpDissectors, UdpDissectors
<1>3. Kept(stack)
  OBVIOUS
<1>4. \A s \in Seq(L) : \A x \in Ordinary \cup {"ip-fragment"} : Kept(s) => Kept(Append(s, x))
  BY <1>2, OneMoreLayer, Zenon
<1> HIDE DEF Ordinary, Kept
<1>5. CASE Walk \/ CutShort
  <2>1. /\ at \in Ordinary
        /\ stack' \in {stack, Append(stack, at)}
        /\ UNCHANGED <<depth, row, accepted>>
    <3>1. stack \o <<>> = stack /\ stack \o <<at>> = Append(stack, at)
      BY <1>1
    <3> QED
      BY <1>5, <3>1 DEF Walk, CutShort, Pushed, PushedEarly, Ordinary
  <2>2. Kept(stack')
    BY <1>1, <1>3, <1>4, <2>1, Zenon
  <2> QED
    BY <1>2, <2>1, <2>2, Zenon DEF Kept
<1>6. CASE IpRefused \/ TransportCut \/ Sctp \/ \E payload \in BOOLEAN : Tcp(payload) \/ Udp(payload)
  <2>1. /\ at \in Ordinary
        /\ stack' = Append(stack, at)
        /\ UNCHANGED <<depth, row, accepted>>
    BY <1>6 DEF IpRefused, TransportCut, Sctp, Tcp, Udp, Ordinary
  <2>2. Kept(stack')
    BY <1>1, <1>3, <1>4, <2>1, Zenon
  <2> QED
    BY <1>2, <2>1, <2>2, Zenon DEF Kept
<1>7. CASE TunnelRefused \/ TooDeep \/ NoMatch \/ Rejects
  <2>1. CASE Rejects
    <3>1. at \in Dissectors
      BY <2>1 DEF Rejects, Dissectors
    <3>2. stack' = stack /\ at \in Guesses /\ UNCHANGED <<depth, row, accepted>>
      BY <2>1, <3>1, StackTypes DEF Rejects
    <3> QED
      BY <1>2, <1>3, <3>2, Zenon DEF Kept
  <2>2. CASE TunnelRefused \/ TooDeep \/ NoMatch
    <3>1. stack' = stack /\ at \in Tunnels \cup Guesses /\ UNCHANGED <<depth, row, accepted>>
      BY <2>2 DEF TunnelRefused, TooDeep, NoMatch, StackTooDeep, ctxVars
    <3> QED
      BY <1>2, <1>3, <3>1, Zenon DEF Kept
  <2> QED
    BY <1>7, <2>1, <2>2
<1>8. CASE \E fields, mf, off \in BOOLEAN : Ip(fields, mf, off)
  <2>1. /\ at \in {"ipv4", "ipv6"}
        /\ UNCHANGED <<depth, row, accepted>>
        /\ stack' \in {Append(stack, at), stack \o <<at, "ip-fragment">>}
    BY <1>8 DEF Ip, IpFails, IpReads, AfterIp
  <2>2. at \in Ordinary
    BY <2>1 DEF Ordinary
  <2>3. /\ Append(stack, at) \in Seq(L)
        /\ stack \o <<at, "ip-fragment">> = Append(Append(stack, at), "ip-fragment")
    <3>1. at \in L /\ "ip-fragment" \in L
      BY <1>2, <2>2, Zenon
    <3> HIDE DEF L
    <3> QED
      BY <1>1, <3>1
  <2>4. Kept(Append(stack, at)) /\ Kept(stack \o <<at, "ip-fragment">>)
    BY <1>1, <1>3, <1>4, <2>2, <2>3, Zenon
  <2> QED
    BY <1>2, <2>1, <2>2, <2>4, Zenon DEF Kept
<1> QED
  BY <1>5, <1>6, <1>7, <1>8, Zenon

(* Every step keeps the count of tunnels and the layer of the application. *)
LEMMA StackStep == TypeOK /\ TypeOK' /\ StackInv /\ [Next]_vars => StackInv'
<1> SUFFICES ASSUME TypeOK, TypeOK', StackInv, [Next]_vars PROVE StackInv'
  OBVIOUS
<1> USE DEF StackInv
<1>1. depth' <= MaxDepth
  <2>1. depth' \in 0..MaxDepth
    BY Zenon DEF TypeOK
  <2> QED
    BY <2>1, DissectAssumption
<1>2. CASE UNCHANGED vars
  BY <1>2 DEF vars, DepthIsOnStack, GuessLeavesNoLayer, Pending, NoGuess
<1>3. CASE \/ Walk \/ CutShort \/ IpRefused \/ TransportCut \/ TunnelRefused
           \/ TooDeep \/ NoMatch \/ Rejects
           \/ \E fields, mf, off \in BOOLEAN : Ip(fields, mf, off)
           \/ \E payload \in BOOLEAN : Tcp(payload) \/ Udp(payload)
           \/ Sctp
  <2>1. /\ TunnelLayers(stack') = TunnelLayers(stack)
        /\ NoGuess(stack) => NoGuess(stack')
        /\ at \notin Outcomes \cup {"row"}
        /\ UNCHANGED <<depth, row, accepted>>
    BY <1>3, OrdinaryLayers
  <2>2. accepted = <<>> /\ NoGuess(stack) /\ ~ row.made
    BY <2>1 DEF Pending, Outcomes
  <2> QED
    BY <1>1, <2>1, <2>2
       DEF DepthIsOnStack, GuessLeavesNoLayer, Pending, NoGuess, TunnelLayers
<1>4. CASE Enter
  <2>1. /\ at \in Tunnels \ (Guesses \cup {"Ok", "row"}) /\ at \in Dissectors \cup {"ip-fragment"}
    BY <1>4 DEF Enter, Tunnels, Guesses, UdpDissectors, Dissectors
  <2>2. /\ stack' = Append(stack, at) /\ stack \in Seq(Dissectors \cup {"ip-fragment"})
        /\ depth' = depth + 1
        /\ UNCHANGED <<row, accepted>>
    BY <1>4 DEF Enter, TypeOK
  <2>3. accepted = <<>> /\ NoGuess(stack) /\ ~ row.made
    BY <2>1 DEF Pending
  <2>4. /\ Cardinality(TunnelLayers(stack')) = Cardinality(TunnelLayers(stack)) + 1
        /\ NoGuess(stack')
    BY <2>1, <2>2, <2>3, OneMoreLayer
  <2> QED
    BY <1>1, <2>2, <2>3, <2>4
       DEF DepthIsOnStack, GuessLeavesNoLayer, Pending, NoGuess, TunnelLayers
<1>5. CASE Accepts
  <2>1. /\ at \in Guesses \ (Tunnels \cup {"Ok", "row"})
        /\ at \in Dissectors \cup {"ip-fragment"}
    BY <1>5 DEF Accepts, Tunnels, Guesses, UdpDissectors, Dissectors
  <2>2. /\ stack' = Append(stack, at) /\ stack \in Seq(Dissectors \cup {"ip-fragment"})
        /\ accepted' = Append(accepted, at)
        /\ at' = "Ok"
        /\ UNCHANGED <<row, depth>>
    BY <1>5 DEF Accepts, TypeOK
  <2>3. accepted = <<>> /\ NoGuess(stack) /\ ~ row.made
    BY <2>1 DEF Pending
  <2>4. accepted' = <<at>>
    BY <2>2, <2>3
  <2>5. TunnelLayers(stack') = TunnelLayers(stack)
    BY <2>1, <2>2, OneMoreLayer
  <2>6. \A i \in DOMAIN stack' : stack'[i] \in Guesses => i = Len(stack') /\ stack'[i] = at
    BY <2>2, <2>3 DEF NoGuess
  <2> QED
    <3>1. DepthIsOnStack'
      BY <1>1, <2>2, <2>3, <2>5 DEF DepthIsOnStack, TunnelLayers
    <3>2. GuessLeavesNoLayer'
      BY <2>4, <2>6 DEF GuessLeavesNoLayer
    <3>3. Pending'
      BY <2>2, <2>3, <2>4 DEF Pending
    <3> QED
      BY <3>1, <3>2, <3>3
<1>6. CASE Finish
  <2>1. at' = "row" /\ row'.tunnel_depth = depth /\ UNCHANGED <<depth, stack, accepted>>
    BY <1>6 DEF Finish, ctxVars
  <2> QED
    BY <1>1, <2>1 DEF DepthIsOnStack, GuessLeavesNoLayer, Pending, NoGuess
<1> QED
  BY <1>2, <1>3, <1>4, <1>5, <1>6, Zenon DEF Next

LEMMA StackInvariant == Spec => []StackInv
<1>1. Init => StackInv
  <2> SUFFICES ASSUME Init PROVE StackInv
    OBVIOUS
  <2>1. TunnelLayers(<<>>) = {} /\ NoGuess(<<>>)
    BY DEF TunnelLayers, NoGuess
  <2>2. DepthIsOnStack
    BY <2>1, FS_EmptySet, DissectAssumption DEF Init, DepthIsOnStack, TunnelLayers
  <2> QED
    BY <2>1, <2>2 DEF Init, StackInv, GuessLeavesNoLayer, Pending, NoGuess
<1> QED
  BY <1>1, StackStep, TypeCorrect, PTL DEF Spec

(* Every frame: tunnel_depth is the number of tunnels on proto_stack, and  *)
(* at most MAX_DEPTH, whatever the frame nests and wherever it is cut.     *)
THEOREM DepthCorrect == Spec => []DepthIsOnStack
<1>1. StackInv => DepthIsOnStack
  BY DEF StackInv
<1> QED
  BY <1>1, StackInvariant, PTL

(* Every frame: a layer an attempt of dispatch pushed is on the stack only *)
(* if that attempt accepted the payload, and then it is the last one.      *)
THEOREM GuessCorrect == Spec => []GuessLeavesNoLayer
<1>1. StackInv => GuessLeavesNoLayer
  BY DEF StackInv
<1> QED
  BY <1>1, StackInvariant, PTL
============================================================================
