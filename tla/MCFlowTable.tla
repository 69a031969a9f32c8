---------------------------- MODULE MCFlowTable ----------------------------
(***************************************************************************)
(* Packets for FlowTable, of a length that tells the direction, for TLC.   *)
(***************************************************************************)
EXTENDS FlowTable

P(src, dst, proto, ts, flags, sni, layer) ==
  [src |-> src, dst |-> dst, proto |-> proto, ts |-> ts, len |-> 1 + src,
   flags |-> flags, sni |-> sni, layer |-> layer]

(* TCP between 1 and 2 in both directions, with timestamps that may run    *)
(* backwards, and UDP between 1 and 3 and 2 and 3, for the table to fill.  *)
MCPackets ==
  {P(e[1], e[2], 6, ts, {f}, {}, {"tcp"}) :
     e \in {<<1, 2>>, <<2, 1>>}, ts \in {5, 7},
     f \in {{"syn"}, {"syn", "ack"}, {"ack"}, {"fin", "ack"}, {"rst"}}}
  \cup {P(1, 2, 6, 6, {{"ack"}}, {n}, {"tls"}) : n \in Name}
  \cup {P(2, 1, 6, 6, {{"ack"}}, {}, {"http"})}
  \cup {P(e[1], e[2], 17, 6, {}, {}, l) :
          e \in {<<1, 3>>, <<3, 1>>}, l \in {{"udp"}, {"dns"}}}
  \cup {P(3, 2, 17, 6, {}, {}, {"udp"})}
============================================================================
