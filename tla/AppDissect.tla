----------------------------- MODULE AppDissect -----------------------------
(***************************************************************************)
(* The application dissectors of rust/src/dissect/app/ under the dispatch  *)
(* of app/mod.rs: the destination port's dissector, the source port's, and *)
(* the one a signature names are tried in turn on the same payload, until  *)
(* one accepts it.  A dissector pushes its layer, reads, and fills columns *)
(* of the row as it goes; dispatch takes back the layers of one that       *)
(* fails, not its columns.                                                 *)
(*                                                                         *)
(* A dissector is the order of its effects: the steps below say where it   *)
(* pushes a layer, where it may fail, where it may return early and which  *)
(* tables of the split output (schema/split.rs) it has filled a column of  *)
(* by then.  The six columns a flow takes its names from stand for         *)
(* themselves.  What the bytes are is the environment's choice.            *)
(***************************************************************************)
EXTENDS Integers, Sequences, FiniteSets

Layer(ls) == [op |-> "layer", of |-> ls]  (* ctx.layer, of one of ls        *)
Must == [op |-> "must", of |-> {}]        (* a read or a check that fails   *)
Set(cs) == [op |-> "set", of |-> cs]      (* columns filled in any case     *)
May(cs) == [op |-> "may", of |-> cs]      (* columns filled for some bytes  *)
End == [op |-> "end", of |-> {}]          (* an early return Ok             *)

(* The columns FlowTable::observe takes a flow's names from.               *)
Names == {"tls_sni", "ja3", "ja3s", "ja4", "http_host", "dns_qname"}

----------------------------------------------------------------------------
(* The dissectors.                                                         *)

(* A command word and its argument, or a status code.                      *)
Ftp == <<Layer({"ftp"}), Set({"ftp"})>>
Pop3 == <<Layer({"pop3"}), Set({"pop3"})>>
Imap == <<Layer({"imap"}), Set({"imap"})>>
Irc == <<Layer({"irc"}), Set({"irc"})>>
Syslog == <<Layer({"syslog"}), Set({"syslog"})>>
Smtp == <<Layer({"smtp"}), May({"smtp"})>>
Telnet == <<Layer({"telnet"}), May({"telnet"})>>
Vnc == <<Layer({"vnc"}), May({"vnc"})>>

(* A banner, a binary packet, or both; the fingerprint is the server's     *)
(* when the source port named the protocol.                                *)
Ssh(server) ==
  <<Layer({"ssh"}), May({"ssh"}), End, Set({"ssh"}), End, Must, End,
    Set({"ssh", IF server THEN "hassh_server" ELSE "hassh"})>>

(* Each of at most eight questions must parse; the first gives the name.   *)
(* Records that do not parse end the message early.                        *)
Dns(layer) ==
  <<Layer({layer}), Set({"dns"}), Must, Set({"dns"}), Must, May({"dns_qname"}), Must,
    May({"dns"})>>

(* The length prefix is read before the layer is pushed.                   *)
DnsTcp == <<Must>> \o Dns("dns")

(* A seeded fault: the request line is recorded before its method is known *)
(* to be one.                                                              *)
HttpUnchecked == <<Layer({"http"}), Set({"http"}), May({"http_host"}), Must>>

Http == <<Layer({"http"}), Must, Set({"http"}), May({"http_host"})>>

(* Frames; the headers of one may also fill http_* columns.                *)
Http2 == <<Layer({"http2"}), May({"http"})>>

(* What the handshake messages leave that names a flow: a hello cut short  *)
(* leaves nothing, and ends the walk of its record without failing.        *)
ClientHello == <<May({"tls_sni"}), May({"ja3", "ja4"})>>
ServerHello == <<May({"tls_sni"}), May({"ja3s"})>>

(* Whatever the records hold, a TLS payload is accepted.                   *)
Tls == <<Layer({"tls"}), Set({"tls"})>> \o ClientHello \o ServerHello

(* A DTLS record header is longer than the five bytes checked for: the     *)
(* first or a later record may be cut short.                               *)
Dtls == <<Layer({"dtls"}), Set({"tls"}), Must>> \o ClientHello \o ServerHello \o <<Must>>

Quic == <<Layer({"quic"}), Must, Set({"quic"}), End, Must, Set({"quic"})>>

Dhcp == <<Layer({"dhcp"}), Must, Set({"dhcp"}), Must, May({"dhcp"})>>
Dhcpv6 == <<Layer({"dhcpv6"}), Must, Set({"dhcp"})>>

(* The magic number comes before the layer, which names the version.       *)
Smb == <<Must, Layer({"smb", "smb2"}), Set({"smb"}), Must, Set({"smb"})>>

(* Port 139: the session header, then the message it should carry.         *)
NetbiosSession == <<Layer({"nbss"}), Set({"netbios"})>> \o Smb

Nbns == <<Layer({"nbns"}), Must, Set({"netbios"}), Must, May({"netbios"})>>
Tftp == <<Layer({"tftp"}), Must, Set({"tftp"})>>
Ntp == <<Layer({"ntp"}), Must, Set({"ntp"}), Must, Set({"ntp"})>>

Snmp ==
  <<Layer({"snmp"}), Must, May({"snmp"}), End, Must, May({"snmp"}), Must, End,
    Set({"snmp"})>>

Radius == <<Layer({"radius"}), Must, Set({"radius"}), Must, May({"radius"})>>
Mqtt == <<Layer({"mqtt"}), Must, Set({"mqtt"}), Must, May({"mqtt"}), Must, May({"mqtt"})>>
Wireguard == <<Layer({"wireguard"}), Must, Set({"wireguard"}), Must>>
Ike == <<Layer({"ike"}), Must, Set({"ipsec"}), Must, Set({"ipsec"})>>
Rtp == <<Layer({"rtp"}), Must, Set({"rtp"}), Must>>
Rtcp == <<Layer({"rtcp"}), Must, Set({"rtp"}), Must>>
Rdp == <<Layer({"rdp"}), Must, Set({"rdp"}), Must, May({"rdp"})>>
Sip == <<Layer({"sip"}), Must, May({"sip"})>>

Ldap ==
  <<Layer({"ldap"}), Must, May({"ldap"}), Must, End, Set({"ldap"}), Must, May({"ldap"})>>

Kerberos == <<Layer({"kerberos"}), Must, Set({"kerberos"}), End, May({"kerberos"})>>

(* A seeded fault: the exception code ends the dissection before anything  *)
(* is recorded.                                                            *)
ModbusEndsEarly == <<Layer({"modbus"}), Must, End, Set({"modbus"})>>

Modbus == <<Layer({"modbus"}), Must, Set({"modbus"})>>
Dnp3 == <<Layer({"dnp3"}), Must, Set({"dnp3"}), Must, May({"dnp3"})>>
S7comm == <<Layer({"s7comm"}), Must, Set({"s7comm"}), Must, May({"s7comm"})>>
Enip == <<Layer({"enip"}), Must, Set({"enip"}), Must, End, May({"enip"}), Must>>
Iec104 == <<Layer({"iec104"}), Must, End, Must, Set({"iec104"}), Must, Set({"iec104"})>>
Bacnet == <<Layer({"bacnet"}), Must, End, Must, Set({"bacnet"}), Must, May({"bacnet"})>>

(* The effects of dissector d, run for the source port or not.             *)
Dissector(d, server) ==
  CASE d = "ftp" -> Ftp [] d = "pop3" -> Pop3 [] d = "imap" -> Imap [] d = "irc" -> Irc
    [] d = "syslog" -> Syslog [] d = "smtp" -> Smtp [] d = "telnet" -> Telnet
    [] d = "vnc" -> Vnc [] d = "ssh" -> Ssh(server) [] d \in {"dns", "mdns", "llmnr"} -> Dns(d)
    [] d = "dns_tcp" -> DnsTcp [] d = "http" -> Http [] d = "http2" -> Http2
    [] d = "tls" -> Tls [] d = "dtls" -> Dtls [] d = "quic" -> Quic [] d = "dhcp" -> Dhcp
    [] d = "dhcpv6" -> Dhcpv6 [] d = "smb" -> Smb [] d = "nbss" -> NetbiosSession
    [] d = "nbns" -> Nbns [] d = "tftp" -> Tftp [] d = "ntp" -> Ntp [] d = "snmp" -> Snmp
    [] d = "radius" -> Radius [] d = "mqtt" -> Mqtt [] d = "wireguard" -> Wireguard
    [] d = "ike" -> Ike [] d = "rtp" -> Rtp [] d = "rtcp" -> Rtcp [] d = "rdp" -> Rdp
    [] d = "sip" -> Sip [] d = "ldap" -> Ldap [] d = "kerberos" -> Kerberos
    [] d = "modbus" -> Modbus [] d = "dnp3" -> Dnp3 [] d = "s7comm" -> S7comm
    [] d = "enip" -> Enip [] d = "iec104" -> Iec104 [] d = "bacnet" -> Bacnet

(* by_port.                                                                *)
TcpPorts ==
  {"ftp", "ssh", "telnet", "smtp", "dns_tcp", "llmnr", "http", "http2", "kerberos", "s7comm",
   "pop3", "nbss", "imap", "ldap", "tls", "smb", "modbus", "mqtt", "iec104", "rdp", "sip",
   "vnc", "irc", "dnp3", "enip"}

UdpPorts ==
  {"dns", "mdns", "llmnr", "dhcp", "dhcpv6", "tftp", "kerberos", "ntp", "nbns", "snmp", "tls",
   "quic", "ike", "syslog", "radius", "sip", "bacnet", "wireguard"}

(* sniff.                                                                  *)
Signatures(tcp) ==
  {"http2", "http", "tls", "dtls", "ssh", "sip", "smb", "vnc", "dnp3"}
    \cup (IF tcp THEN {} ELSE {"quic", "rtcp", "rtp"})

(* Their signature is all they check, or covers all they read.             *)
Certain == {"http", "http2", "tls", "sip", "vnc", "dnp3", "rtp", "rtcp"}

----------------------------------------------------------------------------
(* The attempts of dispatch: destination port, source port, signature.     *)
Tries == 1..3

VARIABLES
  tcp,       (* is_tcp                                                     *)
  try,       (* the attempt: 1 dport, 2 sport, 3 signature, 4 none left    *)
  running,   (* the dissector of this attempt, "none" between attempts     *)
  todo,      (* its steps still to come                                    *)
  base,      (* depth_before                                               *)
  stack,     (* Ctx.stack                                                  *)
  cols,      (* tables with a column filled, and the columns of Names      *)
  rejected,  (* dissectors that have failed on this payload                *)
  accepted   (* the attempt that accepted, 0 if none has                   *)

vars == <<tcp, try, running, todo, base, stack, cols, rejected, accepted>>

Init ==
  /\ tcp \in BOOLEAN
  /\ try = 1
  /\ running = "none"
  /\ todo = <<>>
  /\ base = 1
  /\ stack = <<IF tcp THEN "tcp" ELSE "udp">>
  /\ cols = {}
  /\ rejected = {}
  /\ accepted = 0

(* Dissectors that parse the payload in the same way.                      *)
Body(d) == CASE d \in {"mdns", "llmnr"} -> "dns" [] d = "nbss" -> "smb" [] OTHER -> d

(* What this attempt may choose: by_port looks at the payload only to tell *)
(* HTTP from HTTP/2; a certain signature is not found where its dissector  *)
(* has failed.                                                             *)
Choices ==
  LET named == IF try = 3 THEN Signatures(tcp) \ (Certain \cap rejected)
               ELSE IF tcp THEN TcpPorts ELSE UdpPorts
  IN  IF "http" \in rejected THEN named \ {"http2"} ELSE named

(* No dissector for this port, equal ports, or no signature.               *)
NoDissector ==
  /\ running = "none" /\ try \in Tries
  /\ try' = try + 1
  /\ UNCHANGED <<tcp, running, todo, base, stack, cols, rejected, accepted>>

Start(d) ==
  /\ running = "none" /\ try \in Tries
  /\ d \in Choices
  /\ Body(d) \notin rejected
  /\ running' = d
  /\ todo' = Dissector(d, try = 2)
  /\ UNCHANGED <<tcp, try, base, stack, cols, rejected, accepted>>

(* Columns filled before anything can fail.                                *)
Before(d) == IF Dissector(d, FALSE)[1].op = "layer" /\ Dissector(d, FALSE)[2].op = "set"
             THEN Dissector(d, FALSE)[2].of ELSE {}

(* The same parser on the same bytes fails where it failed.                *)
Repeat(d) ==
  /\ running = "none" /\ try \in Tries
  /\ d \in Choices
  /\ Body(d) \in rejected
  /\ cols' = cols \cup Before(d)
  /\ try' = try + 1
  /\ UNCHANGED <<tcp, running, todo, base, stack, rejected, accepted>>

Sure == try = 3 /\ running \in Certain

(* One effect of the dissector that runs.                                  *)
Step ==
  /\ todo # <<>>
  /\ LET s == Head(todo)
     IN  /\ IF s.op = "layer" THEN \E l \in s.of : stack' = Append(stack, l)
                              ELSE UNCHANGED stack
         /\ IF s.op = "may" THEN \E cs \in {{}, s.of} : cols' = cols \cup cs
                            ELSE cols' = IF s.op = "set" THEN cols \cup s.of ELSE cols
         /\ todo' \in IF s.op = "end" THEN {Tail(todo), <<>>} ELSE {Tail(todo)}
  /\ UNCHANGED <<tcp, try, running, base, rejected, accepted>>

(* The dissector fails: its layers are taken back.                         *)
Fail ==
  /\ todo # <<>>
  /\ Head(todo).op = "must"
  /\ ~ Sure
  /\ stack' = SubSeq(stack, 1, base)
  /\ rejected' = rejected \cup {Body(running)}
  /\ try' = try + 1
  /\ running' = "none"
  /\ todo' = <<>>
  /\ UNCHANGED <<tcp, base, cols, accepted>>

Accept ==
  /\ running # "none"
  /\ todo = <<>>
  /\ accepted' = try
  /\ try' = 4
  /\ running' = "none"
  /\ UNCHANGED <<tcp, todo, base, stack, cols, rejected>>

Next ==
  \/ NoDissector
  \/ \E d \in TcpPorts \cup UdpPorts \cup Signatures(FALSE) : Start(d) \/ Repeat(d)
  \/ Step
  \/ Fail
  \/ Accept

Spec == Init /\ [][Next]_vars

----------------------------------------------------------------------------
Done == try \notin Tries /\ running = "none"

(* The table a layer's packets should be found in.                         *)
Table(l) ==
  CASE l \in {"mdns", "llmnr"} -> "dns" [] l = "http2" -> "http" [] l = "dtls" -> "tls"
    [] l = "smb2" -> "smb" [] l = "dhcpv6" -> "dhcp" [] l \in {"nbss", "nbns"} -> "netbios"
    [] l = "ike" -> "ipsec" [] l = "rtcp" -> "rtp" [] OTHER -> l

(* The table a column of the row shows up in.                              *)
TableOf(c) ==
  CASE c = "dns_qname" -> "dns" [] c = "http_host" -> "http"
    [] c \in {"tls_sni", "ja3", "ja3s", "ja4"} -> "tls"
    [] c \in {"hassh", "hassh_server"} -> "ssh" [] OTHER -> c

Labelled(t) == \E i \in DOMAIN stack : Table(stack[i]) = t

(* Protocols whose dissector can fail with a column filled.                *)
FailsDirty ==
  {"dns", "dns_tcp", "dtls", "quic", "dhcp", "smb", "nbns", "ntp", "snmp", "radius", "mqtt",
   "wireguard", "ike", "rdp", "ldap", "dnp3", "s7comm", "enip", "iec104", "bacnet", "ssh"}

(* A wrong guess leaves a row in the tables of a protocol the stack does   *)
(* not name only when its dissector failed half-way, and only one of       *)
(* FailsDirty can: HTTP, SIP, Kerberos, Modbus, TFTP, DHCPv6, TLS over TCP *)
(* and the text protocols fail before their first column or not at all.    *)
(* What a flow is named after is subject to the same exception.            *)
ForeignColumnsExplained ==
  Done => \A c \in cols : Labelled(TableOf(c)) \/
            \E d \in rejected \cap FailsDirty :
              \/ Table(d) = TableOf(c)
              \/ d = "dns_tcp" /\ TableOf(c) = "dns"
              \/ d = "smb" /\ c = "netbios"

(* Layers a payload may be given without a column to show for it.          *)
Silent == {"telnet", "smtp", "vnc", "ssh", "http2", "snmp", "sip", "ldap", "iec104", "bacnet"}

(* A packet labelled with a protocol is in that protocol's table, but for  *)
(* those whose dissectors accept a payload they found nothing in; and a    *)
(* payload that was accepted is labelled.                                  *)
LabelledIsListed ==
  Done =>
    /\ \A i \in 2..Len(stack) : stack[i] \in Silent \/ Table(stack[i]) \in cols
    /\ accepted # 0 <=> Len(stack) > 1

=============================================================================
