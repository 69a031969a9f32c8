------------------------------ MODULE Pipeline ------------------------------
(***************************************************************************)
(* The run of a capture (rust/src/pipeline.rs): packets are copied into a  *)
(* reused chunk, a full chunk is dissected in parallel, absorbed serially  *)
(* into the flow and reassembly tables, and handed over as a batch.        *)
(*                                                                         *)
(* The packets come from CaptureReader.  dissect_one is a function of the  *)
(* packet alone, so a dissected packet is the packet itself with whether   *)
(* its dissection panicked; what the tables make of it depends on the      *)
(* packets absorbed before, so the state of the tables is the sequence of  *)
(* what those left in them, the packet or nothing (FlowTable, StreamTable  *)
(* and FragTable model the tables).                                        *)
(***************************************************************************)
EXTENDS CaptureReader

CONSTANTS
  Panics,      (* packets whose dissection panics                          *)
  PanicsLate,  (* packets that make the serial pass panic                  *)
  BatchSize,   (* batch_size.max(1)                                        *)
  Threads,     (* threads of the pool                                      *)
  Threshold    (* PARALLEL_THRESHOLD                                       *)

ASSUME PipelineAssumption ==
  /\ Panics \subseteq Packets
  /\ PanicsLate \subseteq Packets \ Panics
  /\ BatchSize \in Nat \ {0}
  /\ Threads \in Nat \ {0}
  /\ Threshold \in Nat

VARIABLES
  chunk,     (* the reused buffer; slots past filled are stale             *)
  filled,    (* slots of chunk in use                                      *)
  done,      (* slots of the chunk dissected so far                        *)
  phase,     (* where run is                                               *)
  tail,      (* the chunk is the last one                                  *)
  tables,    (* what each packet left in the tables, in order              *)
  builder,   (* rows in the builder                                        *)
  out,       (* rows handed to on_batch                                    *)
  batches,   (* the sizes of the batches handed over                       *)
  stats,     (* RunStats: packets, panicked and bad_blocks                 *)
  failed,    (* callback_err is set                                        *)
  result     (* "running", then what run returned, or "crashed"            *)

runVars == <<chunk, filled, done, phase, tail, tables, builder, out, batches, stats, failed,
             result>>
vars == <<readerVars, runVars>>

(* run is past open and the pool.                                          *)
Init ==
  /\ ReaderInit
  /\ chunk = <<>>
  /\ filled = 0
  /\ done = {}
  /\ phase = "read"
  /\ tail = FALSE
  /\ tables = <<>>
  /\ builder = <<>>
  /\ out = <<>>
  /\ batches = <<>>
  /\ stats = [packets |-> 0, panicked |-> 0, bad_blocks |-> 0]
  /\ failed = FALSE
  /\ result = "running"

----------------------------------------------------------------------------
(* for_each goes on to the next packet, or leaves its loop.                *)
Read ==
  /\ phase = "read"
  /\ Absorbed \/ Stop
  /\ UNCHANGED runVars

(* After a callback failure the reader goes on, but nothing is kept.       *)
Skip ==
  /\ phase = "read"
  /\ failed
  /\ Deliver
  /\ UNCHANGED runVars

(* The chunk with the next slot filled, grown if it is used up.            *)
Filled(p) ==
  IF filled = Len(chunk) THEN Append(chunk, p) ELSE [chunk EXCEPT ![filled + 1] = p]

(* A seeded fault: a chunk is dissected one packet late.                   *)
ChunkFullLate == filled + 1 > BatchSize

(* The packet about to be copied completes the chunk.                      *)
ChunkFull == filled + 1 >= BatchSize

(* A seeded fault: packets are kept after a failure too.                   *)
FillRegardless ==
  /\ phase = "read"
  /\ Deliver
  /\ chunk' = Filled(Raw(Block))
  /\ filled' = filled + 1
  /\ phase' = IF ChunkFull THEN "dissect" ELSE "read"
  /\ UNCHANGED <<done, tail, tables, builder, out, batches, stats, failed, result>>

(* The closure of for_each: the packet is copied into its slot; a full     *)
(* chunk is dissected.                                                     *)
Fill ==
  /\ phase = "read"
  /\ ~ failed
  /\ Deliver
  /\ chunk' = Filled(Raw(Block))
  /\ filled' = filled + 1
  /\ phase' = IF ChunkFull THEN "dissect" ELSE "read"
  /\ UNCHANGED <<done, tail, tables, builder, out, batches, stats, failed, result>>

(* for_each has returned: the parked error is raised, or what is left of   *)
(* the last chunk is dissected.                                            *)
ReadEnds ==
  /\ phase = "read"
  /\ ~ reading
  /\ tail' = ~ failed
  /\ phase' = CASE failed                   -> "return"
                [] ~ failed /\ filled > 0   -> "dissect"
                [] ~ failed /\ filled = 0   -> "emit"
  /\ UNCHANGED <<readerVars, chunk, filled, done, tables, builder, out, batches, stats, failed,
                 result>>

(* dissect_chunk: small chunks and one thread go slot by slot, otherwise   *)
(* the pool's threads take the slots in any order.                         *)
Parallel == filled >= Threshold /\ Threads > 1

DissectOne(i) ==
  /\ phase = "dissect"
  /\ i \in (1..filled) \ done
  /\ Parallel \/ \A j \in (1..filled) \ done : i <= j
  /\ done' = done \cup {i}
  /\ phase' = IF done' = 1..filled THEN "absorb" ELSE "dissect"
  /\ UNCHANGED <<readerVars, chunk, filled, tail, tables, builder, out, batches, stats, failed,
                 result>>

(* &chunk[..filled]                                                        *)
Slice == SubSeq(chunk, 1, filled)

(* What the packets of s leave in the tables: one whose dissection         *)
(* panicked has neither a tuple nor a fragment.                            *)
Trusted(s) == [j \in DOMAIN s |-> {r \in {s[j]} : r.data \notin Panics}]

(* The row that absorb makes of slot j of the chunk.                       *)
Row(j) ==
  [packet_id |-> stats.packets + j - 1, packet |-> Slice[j],
   after |-> tables \o Trusted(SubSeq(Slice, 1, j - 1))]

(* A seeded fault: a panic is not counted.                                 *)
PanickedUncounted(s) == 0

(* Packets of a chunk that come with a caught panic.                       *)
Panicked(s) == Cardinality({j \in DOMAIN s : s[j].data \in Panics})

Late(s) == {j \in DOMAIN s : s[j].data \in PanicsLate}

(* absorb: the whole chunk, in order, into the tables and the builder.     *)
Absorb ==
  /\ phase = "absorb"
  /\ Late(Slice) = {}
  /\ tables' = tables \o Trusted(Slice)
  /\ builder' = builder \o [j \in DOMAIN Slice |-> Row(j)]
  /\ stats' = [stats EXCEPT !.packets = @ + Len(Slice), !.panicked = @ + Panicked(Slice)]
  /\ filled' = 0
  /\ done' = {}
  /\ phase' = "emit"
  /\ UNCHANGED <<readerVars, chunk, tail, out, batches, failed, result>>

(* A panic in reassemble_and_dispatch or redissect_datagram has no unwind  *)
(* boundary: it takes the run down, and the rows still in the builder.     *)
AbsorbPanics ==
  /\ phase = "absorb"
  /\ Late(Slice) # {}
  /\ result' = "crashed"
  /\ phase' = "end"
  /\ UNCHANGED <<readerVars, chunk, filled, done, tail, tables, builder, out, batches, stats,
                 failed>>

(* builder.finish() fails: the rows are lost, the error is parked, or      *)
(* returned at once from the tail.                                         *)
FinishFails ==
  /\ phase = "emit"
  /\ builder' = <<>>
  /\ failed' = TRUE
  /\ phase' = IF tail THEN "return" ELSE "read"
  /\ UNCHANGED <<readerVars, chunk, filled, done, tail, tables, out, batches, stats, result>>

(* builder.finish() and on_batch, which the caller may fail.               *)
HandOver(ok) ==
  /\ phase = "emit"
  /\ builder # <<>>
  /\ out' = out \o builder
  /\ batches' = Append(batches, Len(builder))
  /\ builder' = <<>>
  /\ failed' = ~ ok
  /\ phase' = IF tail THEN "return" ELSE "read"
  /\ UNCHANGED <<readerVars, chunk, filled, done, tail, tables, stats, result>>

(* A capture that is empty, or ends with a full batch, has no tail.        *)
NoTail ==
  /\ phase = "emit"
  /\ builder = <<>>
  /\ phase' = "return"
  /\ UNCHANGED <<readerVars, chunk, filled, done, tail, tables, builder, out, batches, stats,
                 failed, result>>

(* The statistics take over what the reader counted.                       *)
Return ==
  /\ phase = "return"
  /\ phase' = "end"
  /\ result' = IF failed THEN "err" ELSE "ok"
  /\ stats' = [stats EXCEPT !.bad_blocks = bad_blocks]
  /\ UNCHANGED <<readerVars, chunk, filled, done, tail, tables, builder, out, batches, failed>>

Next ==
  \/ Read
  \/ Skip
  \/ Fill
  \/ ReadEnds
  \/ \E i \in 1..filled : DissectOne(i)
  \/ Absorb
  \/ AbsorbPanics
  \/ FinishFails
  \/ \E ok \in BOOLEAN : HandOver(ok)
  \/ NoTail
  \/ Return

Spec == Init /\ [][Next]_vars

----------------------------------------------------------------------------
Rows == [packet_id : Nat, packet : RawPackets, after : Seq(SUBSET RawPackets)]

(* Every variable has its type: the chunk never outgrows batch_size, and   *)
(* the slots dissected are slots in use.                                   *)
TypeOK ==
  /\ ReaderTypeOK
  /\ chunk \in Seq(RawPackets) /\ Len(chunk) <= BatchSize
  /\ filled \in 0..Len(chunk)
  /\ done \subseteq 1..filled
  /\ phase \in {"read", "dissect", "absorb", "emit", "return", "end"}
  /\ tail \in BOOLEAN
  /\ tables \in Seq(SUBSET RawPackets)
  /\ builder \in Seq(Rows)
  /\ out \in Seq(Rows)
  /\ batches \in Seq(Nat)
  /\ stats \in [packets : Nat, panicked : Nat, bad_blocks : Nat]
  /\ failed \in BOOLEAN
  /\ result \in {"running", "ok", "err", "crashed"}

(* The rows handed over are those of the file's packets in serial order,   *)
(* each with the link type its section gives it, whichever thread          *)
(* dissected what, however the file is cut into chunks, and wherever it is *)
(* damaged; and a run that returns Ok has handed over all of them.         *)
Serial == INSTANCE SerialRun WITH Packets <- RawPackets,
                                  Untrusted <- {r \in RawPackets : r.data \in Panics},
                                  capture <- Contents,
                                  result <- IF result = "crashed" THEN "err" ELSE result
ImplementsSerial == Serial!Spec

(* Every batch but the last has exactly batch_size rows and none is empty. *)
BatchesAreFull ==
  /\ \A n \in 1..(Len(batches) - 1) : batches[n] = BatchSize
  /\ \A n \in 1..Len(batches) : batches[n] \in 1..BatchSize

(* The statistics of a run that succeeds are those of the rows handed      *)
(* over: dissect_panics counts the rows whose dissection panicked, and     *)
(* bad_blocks is zero exactly when no block failed to parse.               *)
StatsMatchRows ==
  result = "ok" =>
    /\ stats.packets = Len(out)
    /\ stats.panicked = Cardinality({i \in 1..Len(out) : out[i].packet.data \in Panics})
    /\ stats.bad_blocks > 0 <=> Damaged

(* Nothing is handed over once a batch has failed, and the failure is what *)
(* the run returns.                                                        *)
FailureIsFinal == [][failed => out' = out /\ failed' /\ result' \in {"running", "err"}]_vars
============================================================================
