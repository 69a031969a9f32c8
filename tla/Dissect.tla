------------------------------ MODULE Dissect ------------------------------
(***************************************************************************)
(* The walk of one frame from the link layer down (rust/src/dissect/): the *)
(* dissectors of l2.rs, l3.rs, l4.rs and tunnel.rs call one another, each  *)
(* pushing its layer, filling columns and choosing the next; dispatch of   *)
(* app/mod.rs guesses the application last.  The bytes are the environment:*)
(* every field a dissector branches on is a choice, and so is the place    *)
(* where the frame turns out to be cut short.                              *)
(*                                                                         *)
(* What the properties tell apart is where a column came from, so that is  *)
(* what a column holds: the number of the IP header, counted from the      *)
(* outermost, whose addresses, ports or identification it shows.           *)
(***************************************************************************)
EXTENDS Integers, Sequences, FiniteSets

CONSTANTS
  LinkTypes,   (* dissectors the link types of the capture start with      *)
  EtherTypes,  (* dissectors its EtherTypes lead to                        *)
  IpProtos,    (* dissectors its IP protocol numbers lead to               *)
  UdpTunnels,  (* tunnels its UDP ports lead to                            *)
  MaxDepth,    (* MAX_DEPTH                                                *)
  MaxHeaders   (* bound on the link and IP headers that fit in the frame   *)

(* dissect_link.                                                           *)
LinkDissectors == {"ethernet", "raw_ip", "null", "sll", "sll2", "ppp", "wlan", "radiotap"}

(* ethertype_payload.                                                      *)
EtherDissectors == {"ipv4", "ipv6", "arp", "vlan", "mpls", "pppoe", "pppoed", "lldp"}

(* dispatch_ip_proto; gre and erspan are the two branches of tunnel::gre.  *)
IpDissectors ==
  {"tcp", "udp", "sctp", "icmp", "icmpv6", "igmp", "esp", "ospf", "vrrp", "pim",
   "gre", "erspan", "ipip"}

(* try_udp_tunnel.                                                         *)
UdpDissectors == {"vxlan", "geneve", "gtp", "l2tp", "teredo"}

ASSUME DissectAssumption ==
  /\ LinkTypes \subseteq LinkDissectors
  /\ EtherTypes \subseteq EtherDissectors
  /\ IpProtos \subseteq IpDissectors
  /\ UdpTunnels \subseteq UdpDissectors
  /\ MaxDepth \in Nat
  /\ MaxHeaders \in Nat

Tunnels == UdpDissectors \cup {"gre", "erspan", "ipip"}

(* Dissectors that touch neither addresses, ports, flow key nor depth.     *)
Plain ==
  (LinkDissectors \cup EtherDissectors \cup IpDissectors \cup {"llc", "snap"})
    \ ({"ipv4", "ipv6", "tcp", "udp", "sctp"} \cup Tunnels)

(* The attempts of app::dispatch, in its order.                            *)
Guesses == {"by_dport", "by_sport", "sniff"}

Dissectors == Plain \cup {"ipv4", "ipv6", "tcp", "udp", "sctp"} \cup Tunnels \cup Guesses

(* DResult.                                                                *)
Outcomes == {"Ok", "Truncated", "Malformed", "Unsupported", "DepthExceeded"}

VARIABLES
  at,        (* the dissector about to run, an outcome, or "row"           *)
  rem,       (* headers that still fit in the frame                        *)
  padded,    (* the cursor ends before the frame does                      *)
  defer,     (* Ctx.defer_tcp_app                                          *)
  stack,     (* Ctx.stack                                                  *)
  depth,     (* Ctx.depth                                                  *)
  tuple,     (* Ctx.tuple: the header it is made of, and if it has ports   *)
  frag,      (* Ctx.frag                                                   *)
  app_done,  (* Ctx.app_done                                               *)
  pkt,       (* Ctx.pkt: the columns of the row the properties are about   *)
  row,       (* what dissect_inner returns                                 *)
  headers,   (* history: the IP headers read, outermost first              *)
  accepted   (* history: the attempts that accepted the payload            *)

vars == <<at, rem, padded, defer, stack, depth, tuple, frag, app_done, pkt, row, headers,
          accepted>>

ctxVars == <<stack, depth, tuple, frag, app_done>>

(* A column, the tuple or the fragment that is None.                       *)
None == 0

(* The fragmentation fields of an IP header; an IPv6 header has some only  *)
(* if its extension chain holds a fragment header.                         *)
Header == [fields : BOOLEAN, mf : BOOLEAN, off : BOOLEAN]

Packet ==
  [ip : Nat, ports : Nat, outer_ip : Nat, outer_ports : Nat,
   mf : BOOLEAN, id : Nat, tcp_payload : BOOLEAN]

Init ==
  /\ at \in LinkTypes \cup {"Unsupported"}
  /\ rem = MaxHeaders
  /\ padded = FALSE
  /\ defer \in BOOLEAN
  /\ stack = <<>>
  /\ depth = 0
  /\ tuple = [hdr |-> None, ports |-> FALSE]
  /\ frag = [hdr |-> None, mf |-> FALSE, off |-> FALSE, id |-> None]
  /\ app_done = FALSE
  /\ pkt = [ip |-> None, ports |-> None, outer_ip |-> None, outer_ports |-> None,
            mf |-> FALSE, id |-> None, tcp_payload |-> FALSE]
  /\ row = [made |-> FALSE, tunnel_depth |-> 0, malformed |-> FALSE, tcp_range |-> "none"]
  /\ headers = <<>>
  /\ accepted = <<>>

----------------------------------------------------------------------------
(* The link layer and the leaves.                                          *)

(* Where a plain dissector may hand over, or how it may end.               *)
After(fn) ==
  CASE fn \in {"ethernet", "vlan"} -> EtherTypes \cup {"llc", "Unsupported"}
    [] fn \in {"sll", "sll2"} -> EtherTypes \cup {"Unsupported"}
    [] fn = "snap" -> EtherTypes \cup {"Ok", "Unsupported"}
    [] fn \in {"raw_ip", "null", "ppp", "pppoe", "mpls"} -> {"ipv4", "ipv6", "Unsupported"}
    [] fn = "llc" -> {"snap", "Ok"}
    [] fn = "radiotap" -> {"wlan", "Malformed"}
    [] fn = "wlan" -> {"llc", "Ok"}
    [] OTHER -> {"Ok"}

(* These push their layer and return without reading.                      *)
NoRead == {"pppoed", "lldp", "ospf", "vrrp", "pim"}

(* The layer is pushed before the first read, except by the loopback link  *)
(* type; raw IP has no layer of its own.                                   *)
Pushed(fn) == IF fn = "raw_ip" THEN <<>> ELSE <<fn>>

PushedEarly(fn) == IF fn \in {"raw_ip", "null"} THEN <<>> ELSE <<fn>>

Walk ==
  /\ at \in Plain
  /\ at \in NoRead \/ rem > 0
  /\ rem' = IF at \in NoRead THEN rem ELSE rem - 1
  /\ stack' = stack \o Pushed(at)
  /\ at' \in After(at)
  /\ UNCHANGED <<padded, defer, depth, tuple, frag, app_done, pkt, row, headers, accepted>>

(* A read runs off the end of the frame.                                   *)
CutShort ==
  /\ at \in Plain \ NoRead
  /\ stack' = stack \o PushedEarly(at)
  /\ at' = "Truncated"
  /\ UNCHANGED <<rem, padded, defer, depth, tuple, frag, app_done, pkt, row, headers, accepted>>

----------------------------------------------------------------------------
(* The network layer.                                                      *)

SetTuple(h, ports) == [hdr |-> h, ports |-> ports]

(* A seeded fault: more_fragments is inferred from the offset.             *)
MetaInferred(h, p, off) == [hdr |-> h, mf |-> ~ off, off |-> off, id |-> p.id]

(* FragMeta.                                                               *)
Meta(h, p, off) == [hdr |-> h, mf |-> p.mf, off |-> off, id |-> p.id]

(* after_ip and dispatch_ip_proto, for header h with the columns p.  MF is *)
(* read back from the column; a fragment that is not the first has no      *)
(* transport header to dispatch on.                                        *)
AfterIp(h, p, off) ==
  /\ frag' = IF p.mf \/ off THEN Meta(h, p, off) ELSE frag
  /\ IF off
     THEN /\ stack' = stack \o <<at, "ip-fragment">>
          /\ at' = "Ok"
          /\ UNCHANGED tuple
     ELSE /\ stack' = Append(stack, at)
          /\ tuple' = SetTuple(h, FALSE)
          /\ at' \in IpProtos \cup {"Unsupported"}

(* The fixed header is cut short, or is not one of this version.           *)
IpRefused ==
  /\ at \in {"ipv4", "ipv6"}
  /\ stack' = Append(stack, at)
  /\ at' \in {"Truncated", "Malformed"}
  /\ UNCHANGED <<rem, padded, defer, depth, tuple, frag, app_done, pkt, row, headers, accepted>>

(* The columns are filled, then the walk fails: in the options of an IPv4  *)
(* header, or in the extension chain of an IPv6 one, which also fails when *)
(* it has more than 16 headers.                                            *)
IpFails(p) ==
  /\ pkt' = p
  /\ stack' = Append(stack, at)
  /\ at' \in IF at = "ipv4" THEN {"Truncated"} ELSE {"Truncated", "Malformed"}
  /\ UNCHANGED <<padded, tuple, frag>>

(* total_len of an IPv4 header may clamp the cursor; the IPv6 payload      *)
(* length never does.                                                      *)
IpReads(h, p, off) ==
  /\ pkt' = p
  /\ padded' \in IF at = "ipv4" THEN {padded, TRUE} ELSE {padded}
  /\ AfterIp(h, p, off)

(* fields: the header has fragmentation fields, with these values.         *)
Ip(fields, mf, off) ==
  LET h == Len(headers) + 1
      p == IF fields THEN [pkt EXCEPT !.ip = h, !.mf = mf, !.id = h]
                     ELSE [pkt EXCEPT !.ip = h]
  IN  /\ at \in {"ipv4", "ipv6"}
      /\ rem > 0
      /\ at = "ipv4" => fields
      /\ ~ fields => ~ mf /\ ~ off
      /\ rem' = rem - 1
      /\ headers' = Append(headers, [fields |-> fields, mf |-> mf, off |-> off])
      /\ IpFails(p) \/ IpReads(h, p, off)
      /\ UNCHANGED <<defer, depth, app_done, row, accepted>>

----------------------------------------------------------------------------
(* The transport layer.                                                    *)

TransportCut ==
  /\ at \in {"tcp", "udp", "sctp"}
  /\ stack' = Append(stack, at)
  /\ at' = "Truncated"
  /\ UNCHANGED <<rem, padded, defer, depth, tuple, frag, app_done, pkt, row, headers, accepted>>

(* app::dispatch begins, or finds that there is nothing for it to do.      *)
Dispatch(payload) ==
  IF payload /\ ~ app_done
  THEN app_done' = TRUE /\ at' = "by_dport"
  ELSE at' = "Ok" /\ UNCHANGED app_done

(* A seeded fault: the ports reach the columns but not the flow key.       *)
KeyWithoutPorts(t) == t

(* The flow key once a transport dissector knows the ports.                *)
KeyWithPorts(t) == SetTuple(t.hdr, TRUE)

Tcp(payload) ==
  /\ at = "tcp"
  /\ stack' = Append(stack, at)
  /\ pkt' = [pkt EXCEPT !.ports = tuple.hdr, !.tcp_payload = payload]
  /\ tuple' = KeyWithPorts(tuple)
  /\ Dispatch(payload /\ ~ defer)
  /\ UNCHANGED <<rem, padded, defer, depth, frag, row, headers, accepted>>

(* The UDP length may clamp the cursor; a tunnel's port goes before any    *)
(* application.                                                            *)
Udp(payload) ==
  /\ at = "udp"
  /\ stack' = Append(stack, at)
  /\ pkt' = [pkt EXCEPT !.ports = tuple.hdr]
  /\ tuple' = KeyWithPorts(tuple)
  /\ padded' \in {padded, TRUE}
  /\ \/ at' \in UdpTunnels /\ UNCHANGED app_done
     \/ Dispatch(payload)
  /\ UNCHANGED <<rem, defer, depth, frag, row, headers, accepted>>

Sctp ==
  /\ at = "sctp"
  /\ stack' = Append(stack, at)
  /\ pkt' = [pkt EXCEPT !.ports = tuple.hdr]
  /\ tuple' = KeyWithPorts(tuple)
  /\ at' = "Ok"
  /\ UNCHANGED <<rem, padded, defer, depth, frag, app_done, row, headers, accepted>>

----------------------------------------------------------------------------
(* Tunnels.                                                                *)

(* How a tunnel header may be refused before enter is called.              *)
RefusedEarly(fn) ==
  CASE fn = "ipip" -> {}
    [] fn \in {"vxlan", "teredo"} -> {"Truncated", "Malformed"}
    [] OTHER -> {"Truncated"}

(* Where the walk goes after enter: into the inner packet, or to an end.   *)
Inside(fn) ==
  CASE fn = "gre" -> {"ipv4", "ipv6", "ethernet", "Ok", "Unsupported"}
    [] fn = "erspan" -> {"ethernet", "Truncated"}
    [] fn = "ipip" -> {"ipv4", "ipv6"}
    [] fn = "vxlan" -> {"ethernet"}
    [] fn = "geneve" -> {"ethernet", "ipv4", "ipv6", "Truncated", "Unsupported"}
    [] fn = "gtp" -> {"ipv4", "ipv6", "Ok", "Truncated", "Malformed", "Unsupported"}
    [] fn = "l2tp" -> {"ipv4", "ipv6", "Ok", "Truncated", "Unsupported"}
    [] fn = "teredo" -> {"ipv6"}

(* A seeded fault: the addresses are copied to the outer columns and stay. *)
PromotedCopy(p) ==
  IF p.outer_ip = None
  THEN [p EXCEPT !.outer_ip = p.ip, !.outer_ports = p.ports]
  ELSE p

(* The first tunnel moves the addressing to the outer columns; a tunnel    *)
(* inside it leaves the columns alone.                                     *)
Promoted(p) ==
  IF p.outer_ip = None
  THEN [p EXCEPT !.outer_ip = p.ip, !.outer_ports = p.ports, !.ip = None, !.ports = None]
  ELSE p

(* Ctx::descend.                                                           *)
MayDescend == depth < MaxDepth

TunnelRefused ==
  /\ at \in Tunnels
  /\ at' \in RefusedEarly(at)
  /\ UNCHANGED <<rem, padded, defer, ctxVars, pkt, row, headers, accepted>>

(* A seeded fault: the layer is pushed before the depth is checked.        *)
LayerBeforeDescend(s, fn) == Append(s, fn)

(* The stack of a walk that descend refuses.                               *)
StackTooDeep(s, fn) == s

(* descend refuses before anything is recorded.                            *)
TooDeep ==
  /\ at \in Tunnels
  /\ ~ MayDescend
  /\ stack' = StackTooDeep(stack, at)
  /\ at' = "DepthExceeded"
  /\ UNCHANGED <<rem, padded, defer, depth, tuple, frag, app_done, pkt, row, headers, accepted>>

Enter ==
  /\ at \in Tunnels
  /\ MayDescend
  /\ depth' = depth + 1
  /\ stack' = Append(stack, at)
  /\ pkt' = Promoted(pkt)
  /\ at' \in Inside(at)
  /\ UNCHANGED <<rem, padded, defer, tuple, frag, app_done, row, headers, accepted>>

----------------------------------------------------------------------------
(* Application dispatch: the destination port's dissector, the source      *)
(* port's unless the ports are equal, then the signatures.                 *)

NextGuess(fn) ==
  CASE fn = "by_dport" -> {"by_sport", "sniff"}
    [] fn = "by_sport" -> {"sniff"}
    [] fn = "sniff" -> {"Ok"}

(* A seeded fault: what a failed dissector pushed stays on the stack.      *)
LayerLeft(s, fn) == Append(s, fn)

(* The stack is truncated to its length before the attempt.                *)
RolledBack(s, fn) == SubSeq(Append(s, fn), 1, Len(s))

NoMatch ==
  /\ at \in Guesses
  /\ at' \in NextGuess(at)
  /\ UNCHANGED <<rem, padded, defer, ctxVars, pkt, row, headers, accepted>>

Rejects ==
  /\ at \in Guesses
  /\ stack' = RolledBack(stack, at)
  /\ at' \in NextGuess(at)
  /\ UNCHANGED <<rem, padded, defer, depth, tuple, frag, app_done, pkt, row, headers, accepted>>

Accepts ==
  /\ at \in Guesses
  /\ stack' = Append(stack, at)
  /\ accepted' = Append(accepted, at)
  /\ at' = "Ok"
  /\ UNCHANGED <<rem, padded, defer, depth, tuple, frag, app_done, pkt, row, headers>>

----------------------------------------------------------------------------
(* tcp_payload_range takes the last bytes of the frame for the payload,    *)
(* which they are unless the cursor was clamped.                           *)
TcpPayloadRange ==
  IF ~ defer \/ ~ pkt.tcp_payload THEN "none"
  ELSE IF padded THEN "other bytes" ELSE "payload"

(* Ctx::finish and the rest of dissect_inner.                              *)
Finish ==
  /\ at \in Outcomes
  /\ row' = [made |-> TRUE, tunnel_depth |-> depth, malformed |-> at # "Ok",
             tcp_range |-> TcpPayloadRange]
  /\ at' = "row"
  /\ UNCHANGED <<rem, padded, defer, ctxVars, pkt, headers, accepted>>

Next ==
  \/ Walk
  \/ CutShort
  \/ IpRefused
  \/ \E fields, mf, off \in BOOLEAN : Ip(fields, mf, off)
  \/ TransportCut
  \/ \E payload \in BOOLEAN : Tcp(payload) \/ Udp(payload)
  \/ Sctp
  \/ TunnelRefused
  \/ TooDeep
  \/ Enter
  \/ NoMatch
  \/ Rejects
  \/ Accepts
  \/ Finish

Spec == Init /\ [][Next]_vars

----------------------------------------------------------------------------
(* Every variable has its type, and the nesting of tunnels its limit.      *)
TypeOK ==
  /\ at \in Dissectors \cup Outcomes \cup {"row"}
  /\ rem \in 0..MaxHeaders
  /\ padded \in BOOLEAN
  /\ defer \in BOOLEAN
  /\ stack \in Seq(Dissectors \cup {"ip-fragment"})
  /\ depth \in 0..MaxDepth
  /\ tuple \in [hdr : Nat, ports : BOOLEAN]
  /\ frag \in [hdr : Nat, mf : BOOLEAN, off : BOOLEAN, id : Nat]
  /\ app_done \in BOOLEAN
  /\ pkt \in Packet
  /\ row \in [made : BOOLEAN, tunnel_depth : 0..MaxDepth, malformed : BOOLEAN,
              tcp_range : {"none", "payload", "other bytes"}]
  /\ headers \in Seq(Header)
  /\ accepted \in Seq(Guesses)

(* Tunnels (tunnel.rs:3-6): once one is entered, and however the walk goes *)
(* on from there, the outer columns show the outermost IP header and the   *)
(* plain ones never do: an analyst who asks for ip_src gets no tunnel      *)
(* endpoint of the outermost tunnel, and ports never outlive the addresses *)
(* but in a tunnel inside a tunnel.                                        *)
OuterIsOutermost ==
  /\ pkt.outer_ip = IF depth > 0 THEN 1 ELSE None
  /\ pkt.outer_ports \in {None, pkt.outer_ip}
  /\ depth > 0 => pkt.ip # 1 /\ pkt.ports # 1
  /\ pkt.ports \notin {None, pkt.ip} => depth > 1 /\ pkt.ports < pkt.ip

(* The flow key and the columns describe the same header: outside tunnels  *)
(* always, and inside whenever the key was set for the header shown.  A    *)
(* fragment that is not the first gives neither ports nor a key, at any    *)
(* depth ("we did NOT invent TCP ports from payload bytes", l3.rs tests).  *)
FlowKeyMatchesColumns ==
  /\ depth = 0 => tuple.hdr \in {None, pkt.ip}
  /\ tuple.hdr # None /\ tuple.hdr = pkt.ip => (tuple.ports <=> pkt.ports = pkt.ip)
  /\ \A h \in DOMAIN headers :
       headers[h].off => h \notin {tuple.hdr, pkt.ports, pkt.outer_ports}

(* The fragment handed to reassembly is described by the header it came    *)
(* in.  The exception is exact: an IPv6 header without a fragment header   *)
(* is taken for a fragment only inside a header that had MF set, and then  *)
(* with that header's MF and identification.                               *)
FragDescribesHeader ==
  frag.hdr # None =>
    LET h == headers[frag.hdr]
    IN  \/ /\ h.fields
           /\ frag.id = frag.hdr
           /\ frag.mf = h.mf
           /\ frag.off = h.off
           /\ h.mf \/ h.off
        \/ /\ ~ h.fields
           /\ frag.mf /\ ~ frag.off
           /\ frag.id \in 1..(frag.hdr - 1)
           /\ headers[frag.id].mf

(* tunnel_depth counts the tunnels named in proto_stack, also when one was *)
(* refused for its depth or for its header, and never passes MAX_DEPTH     *)
(* however deep the frame nests them.                                      *)
DepthIsOnStack ==
  /\ depth <= MaxDepth
  /\ depth = Cardinality({i \in DOMAIN stack : stack[i] \in Tunnels})
  /\ row.made => row.tunnel_depth = depth

(* An application on the stack accepted the payload: wrong guesses leave   *)
(* no layer behind ("a wrong port guess does not leave a stale layer",     *)
(* app/mod.rs tests), and at most one accepts.                             *)
GuessLeavesNoLayer ==
  /\ Len(accepted) <= 1
  /\ \A i \in DOMAIN stack :
       stack[i] \in Guesses => i = Len(stack) /\ accepted = <<stack[i]>>

============================================================================
