------------------------------ MODULE MCEngine ------------------------------
(***************************************************************************)
(* A capture for Engine: TCP from a to b around one segment (sequence      *)
(* number 1, two bytes) that travels in fragments, cut behind the header   *)
(* and in it; a shorter first fragment of the same datagram with another   *)
(* sequence number; an empty last fragment; a reply; a fragmented UDP      *)
(* datagram; and a frame without IP.  The payload byte for sequence number *)
(* s is 10 + s.                                                            *)
(***************************************************************************)
EXTENDS Engine

IpFrame(dir, proto, frag, data, pad) ==
  [ip |-> TRUE, dir |-> dir, proto |-> proto, frag |-> frag, data |-> data, pad |-> pad]

Cut(offset, mf) == {[id |-> 1, offset |-> offset, mf |-> mf]}

MCFrames ==
  {[ip |-> FALSE],
   IpFrame("ab", "tcp", {}, <<0, 7, 10>>, <<>>),
   IpFrame("ab", "tcp", {}, <<1, 7, 11>>, <<99, 99>>),
   IpFrame("ab", "tcp", {}, <<2, 7, 12, 13>>, <<>>),
   IpFrame("ab", "tcp", Cut(0, TRUE), <<1, 7, 11>>, <<>>),
   IpFrame("ab", "tcp", Cut(3, FALSE), <<12>>, <<>>),
   IpFrame("ab", "tcp", Cut(0, TRUE), <<5>>, <<>>),
   IpFrame("ab", "tcp", Cut(1, FALSE), <<7, 11, 12>>, <<>>),
   IpFrame("ab", "tcp", Cut(1, FALSE), <<>>, <<>>),
   IpFrame("ba", "tcp", {}, <<0, 7, 10>>, <<>>),
   IpFrame("ba", "udp", Cut(0, TRUE), <<5>>, <<>>),
   IpFrame("ba", "udp", Cut(1, FALSE), <<10>>, <<>>)}

MCHdrLen == [p \in Protos |-> IF p = "tcp" THEN 2 ELSE 1]

MCByte == 0..99

MCFragKeys == Dirs \X Ids \X Protos

MCFragPayloads == {p.data : p \in {q \in Frames : q.ip}}

MCSegPayloads ==
  {FrameTail(p, Len(p.data) - HdrLen["tcp"]) :
     p \in {q \in Frames : q.ip /\ q.proto = "tcp" /\ HdrLen["tcp"] < Len(q.data)}}

MCLayer == {"ip", "ip-fragment", "tcp", "udp", "app"}
=============================================================================
