----------------------------- MODULE SerialRun -----------------------------
(***************************************************************************)
(* What a run promises, whatever its thread count and batch size: the rows *)
(* of the capture's packets, one by one in capture order, each made from   *)
(* the packet and from the packets before it.  "Output is byte-identical   *)
(* at any thread count" (README.md).                                       *)
(***************************************************************************)
EXTENDS Integers, Sequences

CONSTANTS
  Packets,     (* what a packet may be                                     *)
  Untrusted    (* packets that leave no trace on the rows after them       *)

VARIABLES
  capture,   (* the packets of the capture                                 *)
  out,       (* the rows handed to the caller                              *)
  result     (* "running", "ok" or "err"                                   *)

(* The row of packet number i of the capture c: its id, the packet, and    *)
(* what each packet before it left in the tables.                          *)
SerialRow(c, i) ==
  [packet_id |-> i - 1, packet |-> c[i],
   after |-> [j \in 1..(i - 1) |-> {c[j]} \ Untrusted]]

Init ==
  /\ capture \in Seq(Packets)
  /\ out = <<>>
  /\ result = "running"

(* The next rows are handed over, at least one.                            *)
HandOver ==
  /\ result = "running"
  /\ Len(out') > Len(out)
  /\ LET c == capture
     IN  \E n \in (Len(out) + 1)..Len(c) : out' = [i \in 1..n |-> SerialRow(c, i)]
  /\ UNCHANGED <<capture, result>>

(* The run is over; a run that succeeds has handed every row over.         *)
End ==
  /\ result = "running"
  /\ \/ result' = "ok" /\ Len(out) = Len(capture)
     \/ result' = "err"
  /\ UNCHANGED <<capture, out>>

Next == HandOver \/ End

Spec == Init /\ [][Next]_<<capture, out, result>>
============================================================================
